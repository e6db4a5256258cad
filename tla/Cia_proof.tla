------------------------------ MODULE Cia_proof ------------------------------
(***************************************************************************)
(* Proofs about the parts of a CIA.                                        *)
(*                                                                         *)
(* The timer, for a byte of any width: its event is neither lost nor       *)
(* queued twice, and no access can tell a timer that sleeps or has stopped *)
(* from one that is clocked on every cycle.                                *)
(*                                                                         *)
(* The time of day: the clock keeps time through every carry, a read shows *)
(* one moment, and the alarm goes off once.                                *)
(*                                                                         *)
(* The serial port, for every distance of the timer's underflows, both     *)
(* chips and any trigger time a reset leaves behind: no event is queued    *)
(* twice, every byte is announced by one interrupt, and a byte that a      *)
(* switch to input cuts off is finished when it has to be.                 *)
(*                                                                         *)
(* The interrupt logic, for any set of flags: no event is queued twice, no *)
(* flag is lost, and the line follows the flags and the reads.             *)
(*                                                                         *)
(* The chip: what is said of a part holds of the chip, whose parts take    *)
(* their steps in any order.                                               *)
(***************************************************************************)
EXTENDS Cia, SequenceTheorems, TLAPS

-----------------------------------------------------------------------------
(* The timer.                                                              *)

\* Two timers that no operation tells apart.
Same(c, d) ==
  /\ c.timer = d.timer /\ c.latch = d.latch /\ c.pb = d.pb /\ c.ctrl = d.ctrl
  /\ \A x \in Flag \ {"ONESHOT"} : x \in c.flags <=> x \in d.flags

\* What every clock leaves: the stages of a one-shot have caught up with the
\* control register, and the counting stages with what feeds them.
Settled(c) ==
  /\ "ONESHOT0" \in c.flags <=> "CR_ONESHOT" \in c.flags
  /\ "COUNT2" \in c.flags => {"START", "PHI2IN"} \subseteq c.flags
  /\ "STEP" \notin c.flags

\* The timer when it went to sleep or stopped, and how far ref has come since.
Sleeping ==
  /\ Settled(t) /\ ~Passing(t) /\ Steady(t)
  /\ skip \in 1 .. t.timer - 1 /\ slept = t.timer - 2 - skip
  /\ Same([t EXCEPT !.timer = @ - (slept + 1)], ref)

Stopped ==
  /\ Settled(t) /\ ~Passing(t) /\ "COUNT3" \notin t.flags /\ ~Starting(t)
  /\ Same(t, ref)

Follows ==
  /\ mode = "ticking" => Same(t, ref)
  /\ mode = "skipping" => Sleeping
  /\ mode = "stopped" => Stopped
  /\ underflow = refUnderflow

IInv == TypeOK /\ OneEvent /\ Follows

-----------------------------------------------------------------------------
(* The clock.                                                              *)

\* A word has a predecessor, which wraps.
LEMMA WordDecrement ==
  ASSUME NEW n \in Word  PROVE (n - 1) % (Byte * Byte) \in Word
<1> DEFINE W == Byte * Byte
<1>1. W \in Nat /\ W > 0
  BY ByteAssumption
<1>2. n \in Int
  BY <1>1 DEF Word
<1> HIDE DEF W
<1>3. (n - 1) % W \in 0 .. W - 1
  BY <1>1, <1>2
<1> QED BY <1>3 DEF Word, W

LEMMA CountedWord ==
  ASSUME NEW c \in Timer  PROVE Counted(c) \in Word
BY WordDecrement DEF Counted, Timer

\* The stages after a clock.
LEMMA ClockFlags ==
  ASSUME NEW c \in Timer
  PROVE  LET f == c.flags
             after == NextFlags(c)
             once == Underflows(c) /\ ({"CR_ONESHOT", "ONESHOT0"} \cap f # {})
         IN  /\ after \subseteq Flag
             /\ "START" \in after <=> "START" \in f /\ ~once
             /\ "STEP" \notin after
             /\ "CR_ONESHOT" \in after <=> "CR_ONESHOT" \in f
             /\ "CR_FLOAD" \notin after
             /\ "PHI2IN" \in after <=> "PHI2IN" \in f
             /\ "COUNT2" \in after <=> {"START", "PHI2IN"} \subseteq f /\ ~once
             /\ "COUNT3" \in after <=>
                  /\ "COUNT2" \in f \/ {"STEP", "START"} \subseteq f
                  /\ ~Underflows(c) /\ "LOAD1" \notin f
             /\ "ONESHOT0" \in after <=> "CR_ONESHOT" \in f
             /\ "ONESHOT" \in after <=> "ONESHOT0" \in f
             /\ "LOAD1" \in after <=> "CR_FLOAD" \in f
             /\ "LOAD" \in after <=> "LOAD1" \in f \/ Underflows(c)
             /\ "OUT" \in after <=> Underflows(c)
<1> DEFINE f == c.flags
           U == Underflows(c)
<1>1. f \subseteq Flag
  BY DEF Timer
<1>2. U \in BOOLEAN
  BY DEF Underflows
<1> DEFINE s == Shifted(f)
           stopped == {"ONESHOT", "ONESHOT0"} \cap s # {}
<1>3. /\ "START" \in s <=> "START" \in f
      /\ "STEP" \notin s /\ "CR_FLOAD" \notin s /\ "OUT" \notin s
      /\ "CR_ONESHOT" \in s <=> "CR_ONESHOT" \in f
      /\ "PHI2IN" \in s <=> "PHI2IN" \in f
      /\ "COUNT2" \in s <=> {"START", "PHI2IN"} \subseteq f
      /\ "COUNT3" \in s <=> "COUNT2" \in f \/ {"STEP", "START"} \subseteq f
      /\ "LOAD1" \in s <=> "CR_FLOAD" \in f
      /\ "LOAD" \in s <=> "LOAD1" \in f
      /\ "ONESHOT0" \in s <=> "CR_ONESHOT" \in f
      /\ "ONESHOT" \in s <=> "ONESHOT0" \in f
      /\ s \subseteq Flag
  BY SMTT(30) DEF Shifted, Given, Flag
<1> HIDE DEF s
<1>4. stopped <=> "ONESHOT" \in s \/ "ONESHOT0" \in s
  OBVIOUS
<1>5. NextFlags(c) =
        IF U THEN (s \cup {"LOAD", "OUT"}) \ (Given(stopped, {"START", "COUNT2"}) \cup {"COUNT3"})
        ELSE s \ Given("LOAD1" \in f, {"COUNT3"})
  BY DEF NextFlags, s
<1> DEFINE after == NextFlags(c)
<1> HIDE DEF U, stopped, after
<1>6. U /\ stopped => after = (s \cup {"LOAD", "OUT"}) \ {"START", "COUNT2", "COUNT3"}
  BY <1>5 DEF Given, after
<1>7. U /\ ~stopped => after = (s \cup {"LOAD", "OUT"}) \ {"COUNT3"}
  BY <1>5 DEF Given, after
<1>8. ~U => after = IF "LOAD1" \in f THEN s \ {"COUNT3"} ELSE s
  BY <1>5 DEF Given, after
<1> HIDE DEF f
<1>9. /\ after \subseteq Flag
      /\ "START" \in after <=> "START" \in s /\ ~(U /\ stopped)
      /\ "COUNT2" \in after <=> "COUNT2" \in s /\ ~(U /\ stopped)
      /\ "COUNT3" \in after <=> "COUNT3" \in s /\ ~U /\ "LOAD1" \notin f
      /\ "LOAD" \in after <=> "LOAD" \in s \/ U
      /\ "OUT" \in after <=> U
      /\ \A g \in {"STEP", "CR_ONESHOT", "CR_FLOAD", "PHI2IN", "ONESHOT0", "ONESHOT", "LOAD1"} :
           g \in after <=> g \in s
  BY <1>2, <1>3, <1>6, <1>7, <1>8 DEF Flag
<1>10. stopped <=> {"CR_ONESHOT", "ONESHOT0"} \cap f # {}
  BY <1>3, <1>4
<1> QED BY <1>3, <1>9, <1>10 DEF U, f, after

LEMMA ClockType ==
  ASSUME NEW c \in Timer  PROVE Clock(c) \in Timer
<1>1. NextFlags(c) \in SUBSET Flag
  BY ClockFlags
<1>2. Counted(c) \in Word
  BY CountedWord
<1> QED BY <1>1, <1>2 DEF Clock, Timer

LEMMA ClockFields ==
  ASSUME NEW c \in Timer
  PROVE  /\ Clock(c).flags = NextFlags(c)
         /\ Clock(c).latch = c.latch /\ Clock(c).ctrl = c.ctrl
         /\ Clock(c).timer = IF "LOAD" \in NextFlags(c) THEN c.latch ELSE Counted(c)
         /\ Clock(c).pb = IF Underflows(c) THEN "TOGGLE" \in c.ctrl /\ ~c.pb ELSE c.pb
BY DEF Clock, Timer

\* No clock looks at the last stage of the one-shot.
LEMMA ClockSame ==
  ASSUME NEW c \in Timer, NEW d \in Timer, Same(c, d)
  PROVE  Same(Clock(c), Clock(d)) /\ Underflows(c) = Underflows(d)
<1>1. Counted(c) = Counted(d)
  BY DEF Counted, Same, Flag
<1>2. Underflows(c) = Underflows(d)
  BY <1>1 DEF Underflows, Shifted, Given, Same, Flag
<1>3. \A x \in Flag \ {"ONESHOT"} : x \in NextFlags(c) <=> x \in NextFlags(d)
  BY <1>2, ClockFlags DEF Same, Flag
<1> QED BY <1>1, <1>2, <1>3, ClockFields DEF Same, Flag

LEMMA ClockSettled ==
  ASSUME NEW c \in Timer  PROVE Settled(Clock(c))
BY ClockFlags, ClockFields DEF Settled

\* A clock of a timer that may sleep takes one off the counter, and nothing else.
LEMMA ClockSleeping ==
  ASSUME NEW c \in Timer, Settled(c), ~Passing(c), Steady(c), c.timer > 1
  PROVE  Same(Clock(c), [c EXCEPT !.timer = @ - 1]) /\ ~Underflows(c)
<1>1. Counted(c) = c.timer - 1
  <2> DEFINE W == Byte * Byte
  <2>1. c.timer \in 0 .. W - 1 /\ W \in Nat
    BY ByteAssumption DEF Timer, Word
  <2> HIDE DEF W
  <2>2. (c.timer - 1) % W = c.timer - 1
    BY <2>1
  <2> QED BY <2>2 DEF Counted, Steady, W
<1>2. ~Underflows(c)
  BY <1>1 DEF Underflows, Timer, Word
<1>3. \A x \in Flag \ {"ONESHOT"} : x \in NextFlags(c) <=> x \in c.flags
  BY <1>2, ClockFlags DEF Settled, Passing, Steady, Flag
<1>4. "LOAD" \notin NextFlags(c)
  BY <1>3 DEF Passing, Flag
<1> QED BY <1>1, <1>2, <1>3, <1>4, ClockFields DEF Same, Timer

\* A clock of a stopped timer changes nothing.
LEMMA ClockStopped ==
  ASSUME NEW c \in Timer, Settled(c), ~Passing(c), "COUNT3" \notin c.flags, ~Starting(c)
  PROVE  Same(Clock(c), c) /\ ~Underflows(c)
<1>1. Counted(c) = c.timer
  BY DEF Counted
<1>2. ~Underflows(c)
  BY DEF Underflows, Shifted, Given, Settled, Starting
<1>3. \A x \in Flag \ {"ONESHOT"} : x \in NextFlags(c) <=> x \in c.flags
  BY <1>2, ClockFlags DEF Settled, Passing, Starting, Flag
<1>4. "LOAD" \notin NextFlags(c)
  BY <1>3 DEF Passing, Flag
<1> QED BY <1>1, <1>2, <1>3, <1>4, ClockFields DEF Same

-----------------------------------------------------------------------------
(* The accesses.                                                           *)

LEMMA LatchWord ==
  ASSUME NEW lo \in 0 .. Byte - 1, NEW hi \in 0 .. Byte - 1
  PROVE  hi * Byte + lo \in Word
<1>1. hi * Byte \in Nat /\ hi * Byte <= (Byte - 1) * Byte
  BY ByteAssumption
<1>2. (Byte - 1) * Byte = Byte * Byte - Byte
  BY ByteAssumption
<1>3. Byte * Byte \in Nat
  BY ByteAssumption
<1> DEFINE h == hi * Byte
           W == Byte * Byte
           V == (Byte - 1) * Byte
<1> HIDE DEF h, W, V
<1>4. h + lo \in 0 .. W - 1
  BY <1>1, <1>2, <1>3, ByteAssumption DEF h, W, V
<1> QED BY <1>4 DEF h, W, Word

LEMMA LatchBytes ==
  ASSUME NEW n \in Word
  PROVE  n \div Byte \in 0 .. Byte - 1 /\ n % Byte \in 0 .. Byte - 1
<1>1. n \in Nat /\ n < Byte * Byte /\ Byte \in Nat /\ Byte > 1
  BY ByteAssumption DEF Word
<1>2. n % Byte \in 0 .. Byte - 1 /\ n \div Byte \in Nat /\ n = (Byte * (n \div Byte)) + (n % Byte)
  BY <1>1
<1>3. n \div Byte < Byte
  <2> DEFINE q == n \div Byte
  <2>1. SUFFICES ASSUME q >= Byte PROVE FALSE
    BY <1>1, <1>2
  <2> HIDE DEF q
  <2>2. q \in Nat /\ Byte * q <= n
    BY <1>1, <1>2 DEF q
  <2>3. Byte * Byte <= Byte * q
    BY <1>1, <2>1, <2>2
  <2> QED BY <1>1, <2>2, <2>3
<1> DEFINE q == n \div Byte
           r == n % Byte
<1> HIDE DEF q, r
<1>4. q \in 0 .. Byte - 1 /\ r \in 0 .. Byte - 1
  BY <1>1, <1>2, <1>3 DEF q, r
<1> QED BY <1>4 DEF q, r

\* An access leaves two timers alike that were alike before.
LEMMA LatchLoSame ==
  ASSUME NEW c \in Timer, NEW d \in Timer, Same(c, d), NEW data \in 0 .. Byte - 1
  PROVE  LatchLo(c, data) \in Timer /\ Same(LatchLo(c, data), LatchLo(d, data))
<1> DEFINE word == ((c.latch \div Byte) * Byte) + data
<1>1. word \in Word
  BY LatchWord, LatchBytes DEF Timer
<1>2. d.latch = c.latch
  BY DEF Same
<1> HIDE DEF word
<1>3. LatchLo(c, data) = [c EXCEPT !.latch = word, !.timer = IF "LOAD" \in c.flags THEN word ELSE @]
  BY DEF LatchLo, word
<1>4. LatchLo(d, data) = [d EXCEPT !.latch = word, !.timer = IF "LOAD" \in d.flags THEN word ELSE @]
  BY <1>2 DEF LatchLo, word
<1>5. LatchLo(c, data) \in Timer
  BY <1>1, <1>3 DEF Timer
<1>6. Same(LatchLo(c, data), LatchLo(d, data))
  BY <1>3, <1>4 DEF Timer, Same, Flag
<1> QED BY <1>5, <1>6

LEMMA LatchHiSame ==
  ASSUME NEW c \in Timer, NEW d \in Timer, Same(c, d), NEW data \in HighBytes
  PROVE  LatchHi(c, data) \in Timer /\ Same(LatchHi(c, data), LatchHi(d, data))
<1> DEFINE word == (data * Byte) + (c.latch % Byte)
           added(f) == Given({"LOAD", "START"} \cap f = {}, {"LOAD1"})
<1>1. word \in Word
  BY LatchWord, LatchBytes, HighBytesAssumption DEF Timer
<1>2. d.latch = c.latch
  BY DEF Same
<1>3. added(c.flags) = added(d.flags) /\ added(c.flags) \subseteq {"LOAD1"}
  BY DEF Same, Flag, Given
<1> HIDE DEF word, added
<1>4. LatchHi(c, data) = [c EXCEPT !.latch = word, !.timer = IF "LOAD" \in c.flags THEN word ELSE @,
                                   !.flags = @ \cup added(c.flags)]
  BY DEF LatchHi, word, added
<1>5. LatchHi(d, data) = [d EXCEPT !.latch = word, !.timer = IF "LOAD" \in d.flags THEN word ELSE @,
                                   !.flags = @ \cup added(d.flags)]
  BY <1>2 DEF LatchHi, word, added
<1>6. LatchHi(c, data) \in Timer
  <2>1. c.flags \cup added(c.flags) \in SUBSET Flag
    BY <1>3 DEF Timer, Flag
  <2> QED BY <1>1, <1>4, <2>1 DEF Timer
<1>7. Same(LatchHi(c, data), LatchHi(d, data))
  BY <1>3, <1>4, <1>5 DEF Timer, Same, Flag
<1> QED BY <1>6, <1>7

LEMMA SetControlSame ==
  ASSUME NEW c \in Timer, NEW d \in Timer, Same(c, d), NEW cr \in SUBSET ControlBit
  PROVE  SetControl(c, cr) \in Timer /\ Same(SetControl(c, cr), SetControl(d, cr))
<1> DEFINE flags(f) == (f \ CrMask) \cup Given("START" \in cr, {"START"})
                         \cup Given("ONESHOT" \in cr, {"CR_ONESHOT"})
                         \cup Given("FLOAD" \in cr, {"CR_FLOAD"})
                         \cup Given("INMODE" \notin cr, {"PHI2IN"})
<1>1. flags(c.flags) \in SUBSET Flag
  BY DEF Timer, Given, Flag
<1>2. \A x \in Flag \ {"ONESHOT"} : x \in flags(c.flags) <=> x \in flags(d.flags)
  BY DEF Same
<1> HIDE DEF flags
<1>3. SetControl(c, cr) = [c EXCEPT !.flags = flags(c.flags), !.ctrl = cr,
                                    !.pb = @ \/ ("START" \in cr /\ "START" \notin c.ctrl)]
  BY DEF SetControl, flags, Timer
<1>4. SetControl(d, cr) = [d EXCEPT !.flags = flags(d.flags), !.ctrl = cr,
                                    !.pb = @ \/ ("START" \in cr /\ "START" \notin d.ctrl)]
  BY DEF SetControl, flags, Timer
<1>5. SetControl(c, cr) \in Timer
  BY <1>1, <1>3 DEF Timer
<1>6. Same(SetControl(c, cr), SetControl(d, cr))
  BY <1>2, <1>3, <1>4 DEF Timer, Same
<1> QED BY <1>5, <1>6

LEMMA StepSame ==
  ASSUME NEW c \in Timer, NEW d \in Timer, Same(c, d)
  PROVE  Step(c) \in Timer /\ Same(Step(c), Step(d))
BY DEF Step, Timer, Same, Flag
-----------------------------------------------------------------------------
(* Catching up.                                                            *)

\* What an access finds is what ref is, and catching up has missed no underflow.
LEMMA SyncedSame ==
  ASSUME TypeOK, Follows
  PROVE  Synced \in Timer /\ Same(Synced, ref) /\ ~SyncUnderflows
<1>1. CASE mode # "skipping" \/ slept < 0
  <2>1. Synced = t /\ ~SyncUnderflows
    BY <1>1 DEF Synced, SyncUnderflows, TypeOK
  <2>2. Same(t, ref)
    <3>1. CASE mode = "skipping"
      <4>1. slept = -1
        BY <1>1, <3>1 DEF TypeOK
      <4>2. [t EXCEPT !.timer = @ - (slept + 1)] = t
        BY <4>1 DEF TypeOK, Timer, Word
      <4> QED BY <3>1, <4>2 DEF Follows, Sleeping
    <3>2. CASE mode # "skipping"
      BY <3>2 DEF Follows, Stopped, TypeOK
    <3> QED BY <3>1, <3>2
  <2> QED BY <2>1, <2>2 DEF TypeOK
<1>2. CASE mode = "skipping" /\ slept >= 0
  <2> DEFINE lapsed == [t EXCEPT !.timer = (@ - slept) % (Byte * Byte)]
  <2>1. Sleeping /\ slept \in Nat /\ slept <= t.timer - 3 /\ t.timer \in Word /\ t.timer \in Nat
    BY <1>2 DEF Follows, Sleeping, TypeOK, Timer, Word
  <2>2. (t.timer - slept) % (Byte * Byte) = t.timer - slept /\ t.timer - slept \in Word
    <3> DEFINE W == Byte * Byte
    <3>1. W \in Nat /\ t.timer \in 0 .. W - 1
      BY <2>1, ByteAssumption DEF Word
    <3> HIDE DEF W
    <3>2. (t.timer - slept) % W = t.timer - slept /\ t.timer - slept \in 0 .. W - 1
      BY <2>1, <3>1
    <3> QED BY <3>2 DEF W, Word
  <2>3. lapsed \in Timer /\ lapsed.timer = t.timer - slept /\ lapsed.flags = t.flags
    BY <2>2 DEF TypeOK, Timer
  <2>4. Settled(lapsed) /\ ~Passing(lapsed) /\ Steady(lapsed) /\ lapsed.timer > 1
    BY <2>1, <2>3 DEF Sleeping, Settled, Passing, Steady
  <2>5. Same(Clock(lapsed), [lapsed EXCEPT !.timer = @ - 1]) /\ ~Underflows(lapsed) /\ Clock(lapsed) \in Timer
    BY <2>3, <2>4, ClockSleeping, ClockType
  <2>6. Same([lapsed EXCEPT !.timer = @ - 1], [t EXCEPT !.timer = @ - (slept + 1)])
    <3>1. (t.timer - slept) - 1 = t.timer - (slept + 1)
      BY <2>1
    <3>2. lapsed = [t EXCEPT !.timer = t.timer - slept]
      BY <2>2
    <3> HIDE DEF lapsed
    <3> QED BY <3>1, <3>2 DEF TypeOK, Timer, Same
  <2>7. Same([t EXCEPT !.timer = @ - (slept + 1)], ref)
    BY <2>1 DEF Sleeping
  <2>8. Same(Clock(lapsed), ref)
    BY <2>5, <2>6, <2>7 DEF Same
  <2>9. Synced = Clock(lapsed) /\ (SyncUnderflows <=> Underflows(lapsed))
    BY <1>2 DEF Synced, SyncUnderflows
  <2> QED BY <2>5, <2>8, <2>9
<1>3. slept \in Int
  BY ByteAssumption DEF TypeOK
<1> QED BY <1>1, <1>2, <1>3

\* Any operation that does not tell timers apart may follow the catching-up.
LEMMA AccessKeeps ==
  ASSUME IInv, NEW new \in Timer, NEW newRef \in Timer, Same(new, newRef),
         t' = new, ref' = newRef, WakeUp, UNCHANGED refUnderflow,
         accessed' \in BOOLEAN, bTick' \in BOOLEAN
  PROVE  IInv'
<1>1. ~SyncUnderflows
  BY SyncedSame DEF IInv
<1>2. mode' = "ticking" /\ tick' = 1 /\ skip' = 0 /\ slept' = 0 /\ underflow' = underflow
  BY <1>1 DEF WakeUp, IInv, TypeOK, OneEvent
<1>3. TypeOK'
  <2>1. 0 \in -1 .. Byte * Byte /\ 0 \in 0 .. Byte * Byte
    BY ByteAssumption
  <2> QED BY <1>2, <2>1 DEF IInv, TypeOK
<1>4. OneEvent'
  BY <1>2 DEF OneEvent
<1>5. Follows'
  BY <1>2 DEF Follows, IInv
<1> QED BY <1>3, <1>4, <1>5 DEF IInv

-----------------------------------------------------------------------------
(* The timer's own events.                                                 *)

\* event() on a timer that is as ref is.
LEMMA EventKeeps ==
  ASSUME IInv, NEW c \in Timer, Same(c, ref), Event(c, 0),
         ref' = Clock(ref), refUnderflow' = Underflows(ref),
         accessed' \in BOOLEAN, bTick' \in BOOLEAN
  PROVE  IInv'
<1>1. ref \in Timer
  BY DEF IInv, TypeOK
<1>2. t' \in Timer /\ ref' \in Timer /\ t' = Clock(c)
  BY <1>1, ClockType DEF Event
<1>3. Same(t', ref') /\ underflow' = refUnderflow' /\ underflow' \in BOOLEAN
  BY <1>1, <1>2, ClockSame DEF Event, Underflows
<1>4. Settled(t')
  BY <1>2, ClockSettled
<1>5. Reschedule(t', 0)
  BY DEF Event
<1>6. t'.timer \in Nat /\ t'.timer < Byte * Byte /\ Byte * Byte \in Nat
  BY <1>2, ByteAssumption DEF Timer, Word
<1>7. CASE KeepsTicking(t')
  <2>1. mode' = "ticking" /\ tick' = 1 /\ skip' = 0 /\ slept' = 0
    BY <1>5, <1>7 DEF Reschedule
  <2> QED BY <1>2, <1>3, <1>6, <2>1 DEF IInv, TypeOK, OneEvent, Follows
<1>8. CASE ~KeepsTicking(t') /\ Sleeps(t')
  <2>1. mode' = "skipping" /\ tick' = 0 /\ skip' = t'.timer - 1 /\ slept' = -1
    BY <1>5, <1>8 DEF Reschedule
  <2>2. t'.timer > 2 /\ ~Passing(t') /\ Steady(t')
    BY <1>8 DEF Sleeps
  <2>3. [t' EXCEPT !.timer = @ - (slept' + 1)] = t'
    BY <1>2, <1>6, <2>1 DEF Timer
  <2>4. Sleeping'
    BY <1>3, <1>4, <1>6, <2>1, <2>2, <2>3 DEF Sleeping
  <2> QED BY <1>2, <1>3, <1>6, <2>1, <2>2, <2>4 DEF IInv, TypeOK, OneEvent, Follows
<1>9. CASE ~KeepsTicking(t') /\ ~Sleeps(t')
  <2>1. mode' = "stopped" /\ tick' = 0 /\ skip' = 0 /\ slept' = 0
    BY <1>5, <1>9 DEF Reschedule
  <2>2. Stopped'
    BY <1>3, <1>4, <1>9 DEF Stopped, KeepsTicking, Sleeps
  <2> QED BY <1>2, <1>3, <1>6, <2>1, <2>2 DEF IInv, TypeOK, OneEvent, Follows
<1> QED BY <1>7, <1>8, <1>9

-----------------------------------------------------------------------------
(* The invariant.                                                          *)

LEMMA InitKeeps == Init => IInv
<1> SUFFICES ASSUME Init PROVE IInv
  OBVIOUS
<1>1. Byte * Byte \in Nat /\ Byte * Byte > 1 /\ Byte * Byte - 1 \in Word
  BY ByteAssumption DEF Word
<1>2. ResetTimer \in Timer
  BY <1>1 DEF ResetTimer, Timer, Flag, ControlBit
<1>3. 0 \in -1 .. Byte * Byte /\ 0 \in 0 .. Byte * Byte
  BY <1>1
<1>4. TypeOK
  BY <1>2, <1>3 DEF Init, TypeOK
<1>5. OneEvent
  BY DEF Init, OneEvent
<1>6. Same(ResetTimer, ResetTimer)
  BY DEF Same
<1>7. Follows
  BY <1>6 DEF Init, Follows
<1> QED BY <1>4, <1>5, <1>7 DEF IInv

LEMMA ResetKeeps == ASSUME Reset PROVE IInv'
<1>1. Byte * Byte \in Nat /\ Byte * Byte > 1 /\ Byte * Byte - 1 \in Word
  BY ByteAssumption DEF Word
<1>2. ResetTimer \in Timer
  BY <1>1 DEF ResetTimer, Timer, Flag, ControlBit
<1>3. 0 \in -1 .. Byte * Byte /\ 0 \in 0 .. Byte * Byte
  BY <1>1
<1>4. TypeOK'
  BY <1>2, <1>3 DEF Reset, TypeOK
<1>5. OneEvent'
  BY DEF Reset, OneEvent
<1>6. Same(ResetTimer, ResetTimer)
  BY DEF Same
<1>7. Follows'
  BY <1>6 DEF Reset, Follows
<1> QED BY <1>4, <1>5, <1>7 DEF IInv

LEMMA CycleKeeps == ASSUME IInv, Cycle PROVE IInv'
<1>1. ref' = Clock(ref) /\ refUnderflow' = Underflows(ref) /\ accessed' \in BOOLEAN /\ bTick' \in BOOLEAN
  <2>1. bTick' \in BOOLEAN
    BY DEF Cycle, Given
  <2> QED BY <2>1 DEF Cycle
<1>2. TypeOK /\ OneEvent /\ Follows /\ t \in Timer /\ ref \in Timer
  BY DEF IInv, TypeOK
<1>3. CASE tick > 0 /\ skip # 1 /\ Event(t, tick - 1)
  <2>1. mode = "ticking" /\ tick = 1 /\ Same(t, ref)
    BY <1>2, <1>3 DEF OneEvent, Follows
  <2>2. Event(t, 0)
    BY <1>3, <2>1
  <2> QED BY <1>1, <1>2, <2>1, <2>2, EventKeeps
<1>4. CASE skip = 1 /\ Event([t EXCEPT !.timer = (@ - (slept + 1)) % (Byte * Byte)], tick)
  <2> DEFINE lapsed == [t EXCEPT !.timer = (@ - (slept + 1)) % (Byte * Byte)]
  <2>1. Sleeping /\ tick = 0
    BY <1>2, <1>4 DEF OneEvent, Follows
  <2>2. t.timer - (slept + 1) = 2 /\ 2 % (Byte * Byte) = 2 /\ 2 \in Word
    BY <1>2, <1>4, <2>1, ByteAssumption DEF Sleeping, Timer, Word
  <2>3. lapsed = [t EXCEPT !.timer = @ - (slept + 1)] /\ lapsed \in Timer
    BY <1>2, <2>2 DEF Timer
  <2>4. Same(lapsed, ref)
    BY <2>1, <2>3 DEF Sleeping
  <2> HIDE DEF lapsed
  <2>5. Event(lapsed, 0)
    BY <1>4, <2>1 DEF lapsed
  <2> QED BY <1>1, <2>3, <2>4, <2>5, EventKeeps
<1>5. CASE /\ tick = 0 /\ skip # 1
           /\ underflow' = FALSE
           /\ skip' = IF skip = 0 THEN 0 ELSE skip - 1
           /\ slept' = IF skip = 0 THEN 0 ELSE slept + 1
           /\ UNCHANGED <<t, mode, tick>>
  <2>1. ref' \in Timer
    BY <1>1, <1>2, ClockType
  <2>2. CASE mode = "skipping"
    <3> DEFINE now == [t EXCEPT !.timer = @ - (slept + 1)]
    <3>1. Sleeping /\ skip > 1 /\ skip \in Nat /\ t.timer \in Nat /\ t.timer < Byte * Byte /\ slept \in Int
      BY <1>2, <1>5, <2>2, ByteAssumption DEF OneEvent, Follows, Sleeping, Timer, Word
    <3>2. now \in Timer /\ now.timer = skip + 1 /\ now.flags = t.flags
      BY <1>2, <3>1, ByteAssumption DEF Sleeping, Timer, Word
    <3>3. Settled(now) /\ ~Passing(now) /\ Steady(now) /\ Same(now, ref)
      BY <3>1, <3>2 DEF Sleeping, Settled, Passing, Steady
    <3>4. Same(Clock(now), [now EXCEPT !.timer = @ - 1]) /\ ~Underflows(now)
      <4> HIDE DEF now
      <4> QED BY <3>1, <3>2, <3>3, ClockSleeping
    <3>5. Same(Clock(now), ref') /\ refUnderflow' = FALSE
      BY <1>1, <1>2, <3>2, <3>3, <3>4, ClockSame DEF Underflows
    <3>6. t' = t /\ skip' = skip - 1 /\ slept' = slept + 1
      BY <1>5, <3>1
    <3>7. Same([now EXCEPT !.timer = @ - 1], [t' EXCEPT !.timer = @ - (slept' + 1)])
      <4>1. (t.timer - (slept + 1)) - 1 = t.timer - (slept' + 1)
        BY <3>1, <3>6
      <4> QED BY <1>2, <3>6, <4>1 DEF Timer, Same
    <3>8. Sleeping'
      BY <3>1, <3>4, <3>5, <3>6, <3>7 DEF Sleeping, Same, Settled, Passing, Steady
    <3>9. slept' \in -1 .. Byte * Byte /\ skip' \in 0 .. Byte * Byte /\ skip' > 0
      BY <1>2, <3>1, <3>6, ByteAssumption DEF TypeOK, Sleeping
    <3>10. TypeOK'
      BY <1>1, <1>2, <1>5, <2>1, <3>5, <3>9 DEF TypeOK
    <3>11. OneEvent' /\ Follows'
      BY <1>2, <1>5, <2>2, <3>5, <3>8, <3>9 DEF OneEvent, Follows
    <3> QED BY <3>10, <3>11 DEF IInv
  <2>3. CASE mode # "skipping"
    <3>1. mode = "stopped" /\ Stopped /\ skip = 0 /\ skip' = 0 /\ slept' = 0 /\ t' = t /\ mode' = mode /\ tick' = 0
      BY <1>2, <1>5, <2>3 DEF TypeOK, OneEvent, Follows
    <3>2. Same(Clock(t), t) /\ ~Underflows(t)
      BY <1>2, <3>1, ClockStopped DEF Stopped
    <3>3. Same(Clock(t), ref') /\ refUnderflow' = FALSE
      BY <1>1, <1>2, <3>1, <3>2, ClockSame DEF Stopped, Underflows
    <3>4. Stopped'
      BY <3>1, <3>2, <3>3 DEF Stopped, Same, Settled, Passing, Starting
    <3>5. 0 \in -1 .. Byte * Byte /\ 0 \in 0 .. Byte * Byte
      BY ByteAssumption
    <3>6. TypeOK'
      BY <1>1, <1>2, <1>5, <2>1, <3>1, <3>3, <3>5 DEF TypeOK
    <3>7. OneEvent' /\ Follows'
      <4>1. OneEvent'
        BY <3>1 DEF OneEvent
      <4>2. Follows'
        BY <1>5, <3>1, <3>3, <3>4 DEF Follows
      <4> QED BY <4>1, <4>2
    <3> QED BY <3>6, <3>7 DEF IInv
  <2> QED BY <2>2, <2>3
<1> QED BY <1>3, <1>4, <1>5 DEF Cycle

\* Every operation keeps the timer and the timer clocked on every cycle alike.
LEMMA NextKeeps == IInv /\ [Next]_vars => IInv'
<1> SUFFICES ASSUME IInv, [Next]_vars PROVE IInv'
  OBVIOUS
<1>1. Synced \in Timer /\ ref \in Timer /\ Same(Synced, ref)
  BY SyncedSame DEF IInv, TypeOK
<1>2. accessed \in BOOLEAN /\ bTick \in BOOLEAN
  BY DEF IInv, TypeOK
<1>3. ASSUME NEW new \in Timer, NEW newRef \in Timer, Same(new, newRef), Access(new, newRef)
      PROVE  IInv'
  BY <1>2, <1>3, AccessKeeps DEF Access
<1>4. CASE Cycle
  BY <1>4, CycleKeeps
<1>5. CASE ReadCia
  BY <1>1, <1>3, <1>5 DEF ReadCia
<1>6. ASSUME NEW data \in 0 .. Byte - 1, WriteLatchLo(data) PROVE IInv'
  <2>1. Same(ref, Synced) /\ LatchLo(Synced, data) \in Timer /\ LatchLo(ref, data) \in Timer
        /\ Same(LatchLo(Synced, data), LatchLo(ref, data))
    BY <1>1, LatchLoSame DEF Same
  <2> QED BY <1>3, <1>6, <2>1 DEF WriteLatchLo
<1>7. ASSUME NEW data \in HighBytes, WriteLatchHi(data) PROVE IInv'
  <2>1. Same(ref, Synced) /\ LatchHi(Synced, data) \in Timer /\ LatchHi(ref, data) \in Timer
        /\ Same(LatchHi(Synced, data), LatchHi(ref, data))
    BY <1>1, LatchHiSame DEF Same
  <2> QED BY <1>3, <1>7, <2>1 DEF WriteLatchHi
<1>8. ASSUME NEW cr \in SUBSET ControlBit, WriteControl(cr) PROVE IInv'
  <2>1. Same(ref, Synced) /\ SetControl(Synced, cr) \in Timer /\ SetControl(ref, cr) \in Timer
        /\ Same(SetControl(Synced, cr), SetControl(ref, cr))
    BY <1>1, SetControlSame DEF Same
  <2> QED BY <1>3, <1>8, <2>1 DEF WriteControl
<1>9. CASE Cascade
  <2>1. Same(ref, Synced) /\ Step(Synced) \in Timer /\ Step(ref) \in Timer /\ Same(Step(Synced), Step(ref))
    BY <1>1, StepSame DEF Same
  <2> QED BY <1>2, <1>9, <2>1, AccessKeeps DEF Cascade
<1>10. CASE Reset
  BY <1>10, ResetKeeps
<1>11. CASE UNCHANGED vars
  BY <1>11 DEF vars, IInv, TypeOK, OneEvent, Follows, Sleeping, Stopped, Same, Settled, Passing, Steady, Starting
<1> QED BY <1>4, <1>5, <1>6, <1>7, <1>8, <1>9, <1>10, <1>11 DEF Next

-----------------------------------------------------------------------------
(* The timer's invariant, without fairness.                                *)

\* Type correctness, one event for a timer that is not stopped, and what a
\* sleeping timer is.
LEMMA Invariance == Init /\ [][Next]_vars => []IInv
BY InitKeeps, NextKeeps, PTL

-----------------------------------------------------------------------------
(* The time of day.                                                        *)

\* The four registers, each with the bits it has.
IsClock(c) ==
  /\ c \in [Day!Register -> 0 .. 255]
  /\ c[Day!TENTHS] \in 0 .. 15
  /\ \A r \in {Day!SECONDS, Day!MINUTES} : c[r] \in 0 .. 127

\* The values of the ring counter, by the ticks since it was cleared.
Ring == <<0, 4, 6, 7, 3, 1>>

\* The latch holds still what is shown, and a divider that was not disturbed
\* tells the ticks since the last tenth.
DayInv ==
  /\ program \in Day!Program
  /\ IsClock(clock)
  /\ isLatched \in BOOLEAN /\ isStopped \in BOOLEAN
  /\ IF isLatched THEN IsClock(shown) /\ latch = shown ELSE shown = <<>>
  /\ cra7 \in {0, 1} /\ crb7 \in {0, 1}
  /\ ticks \in -1 .. 5 - cra7
  /\ ticks >= 0 => ring = Ring[ticks + 1]
  /\ tenths \in Nat

LEMMA Registers == /\ Day!Register = {0, 1, 2, 3}
                   /\ Day!TENTHS = 0 /\ Day!SECONDS = 1 /\ Day!MINUTES = 2 /\ Day!HOURS = 3
BY DEF Day!Register, Day!TENTHS, Day!SECONDS, Day!MINUTES, Day!HOURS

LEMMA ClockShown == ASSUME NEW c, IsClock(c)  PROVE c # <<>>
<1>1. 0 \in DOMAIN c
  BY Registers DEF IsClock
<1>2. 0 \notin DOMAIN <<>>
  OBVIOUS
<1> QED BY <1>1, <1>2

LEMMA ByteParts ==
  ASSUME NEW b \in 0 .. 255
  PROVE  /\ b % 16 \in 0 .. 15 /\ b \div 16 \in 0 .. 15 /\ b = 16 * (b \div 16) + (b % 16)
         /\ b % 128 \in 0 .. 127 /\ b \div 128 \in {0, 1} /\ b = 128 * (b \div 128) + (b % 128)
         /\ (b \div 16) % 8 \in 0 .. 7 /\ (b \div 16) % 2 \in {0, 1} /\ b % 32 \in 0 .. 31
<1>1. b % 16 \in 0 .. 15 /\ b \div 16 \in 0 .. 15 /\ b = 16 * (b \div 16) + (b % 16)
  OBVIOUS
<1>2. b % 128 \in 0 .. 127 /\ b \div 128 \in {0, 1} /\ b = 128 * (b \div 128) + (b % 128)
  OBVIOUS
<1>3. (b \div 16) % 8 \in 0 .. 7
  BY <1>1
<1>4. (b \div 16) % 2 \in {0, 1}
  BY <1>1
<1>5. b % 32 \in 0 .. 31
  OBVIOUS
<1> QED BY <1>1, <1>2, <1>3, <1>4, <1>5

\* Seconds and minutes: a byte of seven bits stays one, and a time goes on to
\* the next, or carries.
LEMMA SixtyCarries ==
  ASSUME NEW b \in 0 .. 127
  PROVE  /\ Day!Sixty(b)[1] \in 0 .. 127 /\ Day!Sixty(b)[2] \in BOOLEAN
         /\ Day!Low(b) < 10 /\ Day!High(b) < 6 =>
              /\ Day!Low(Day!Sixty(b)[1]) < 10 /\ Day!High(Day!Sixty(b)[1]) < 6
              /\ Day!Decimal(b) \in 0 .. 59
              /\ Day!Decimal(Day!Sixty(b)[1]) + (IF Day!Sixty(b)[2] THEN 60 ELSE 0)
                   = Day!Decimal(b) + 1
<1> DEFINE l == Day!Low(b)
           h == Day!High(b)
           low == Day!Digit(l, 10, 16)
           high == IF low[2] THEN Day!Digit(h, 6, 8) ELSE <<h, FALSE>>
<1>1. l \in 0 .. 15 /\ h \in 0 .. 7
  BY DEF Day!Low, Day!High
<1>2. low = (IF l = 9 THEN <<0, TRUE>> ELSE <<(l + 1) % 16, FALSE>>)
  BY <1>1 DEF Day!Digit
<1>3. high = (IF l = 9 THEN IF h = 5 THEN <<0, TRUE>> ELSE <<(h + 1) % 8, FALSE>> ELSE <<h, FALSE>>)
  BY <1>1, <1>2 DEF Day!Digit
<1>4. Day!Sixty(b) = <<16 * high[1] + low[1], high[2]>>
  BY DEF Day!Sixty
<1> HIDE DEF low, high
<1>5. CASE l = 9 /\ h = 5
  <2>1. low = <<0, TRUE>> /\ high = <<0, TRUE>>
    BY <1>2, <1>3, <1>5
  <2>2. Day!Sixty(b) = <<0, TRUE>>
    BY <1>4, <2>1
  <2>3. Day!Low(0) = 0 /\ Day!High(0) = 0 /\ Day!Decimal(0) = 0 /\ Day!Decimal(b) = 59
    BY <1>5 DEF Day!Low, Day!High, Day!Decimal
  <2> QED BY <2>2, <2>3
<1>6. CASE l = 9 /\ h # 5
  <2> low = <<0, TRUE>> /\ high = <<(h + 1) % 8, FALSE>>
    BY <1>2, <1>3, <1>6
  <2>1. Day!Sixty(b) = <<16 * ((h + 1) % 8), FALSE>>
    BY <1>1, <1>4
  <2>2. PICK n \in 0 .. 7 : n = (h + 1) % 8
    BY <1>1
  <2>3. Day!Low(16 * n) = 0 /\ Day!High(16 * n) = n
    BY DEF Day!Low, Day!High
  <2>4. Day!Decimal(16 * n) = 10 * n /\ Day!Decimal(b) = 10 * h + 9
    BY <1>6, <2>3 DEF Day!Decimal
  <2>5. h < 6 => n = h + 1
    BY <1>1, <2>2
  <2> HIDE DEF l, h, low, high
  <2> QED BY <1>1, <1>6, <2>1, <2>2, <2>3, <2>4, <2>5 DEF l, h
<1>7. CASE l # 9
  <2> low = <<(l + 1) % 16, FALSE>> /\ high = <<h, FALSE>>
    BY <1>2, <1>3, <1>7
  <2>1. Day!Sixty(b) = <<16 * h + ((l + 1) % 16), FALSE>>
    BY <1>1, <1>4
  <2>2. PICK n \in 0 .. 15 : n = (l + 1) % 16
    BY <1>1
  <2>3. Day!Low(16 * h + n) = n /\ Day!High(16 * h + n) = h
    BY <1>1 DEF Day!Low, Day!High
  <2>4. Day!Decimal(16 * h + n) = 10 * h + n /\ Day!Decimal(b) = 10 * h + l
    BY <2>3 DEF Day!Decimal
  <2>5. l < 10 => n = l + 1 /\ n < 10
    BY <1>1, <1>7, <2>2
  <2> HIDE DEF l, h, low, high
  <2> QED BY <1>1, <1>7, <2>1, <2>2, <2>3, <2>4, <2>5 DEF l, h
<1> QED BY <1>5, <1>6, <1>7

\* The hour of the day that a clock shows.
HourOf(b) == (Day!Decimal(b % 128) % 12) + 12 * (b \div 128)

LEMMA HourCarries ==
  ASSUME NEW b \in 0 .. 255
  PROVE  /\ Day!Hour(b) \in 0 .. 255
         /\ b % 128 \in {1, 2, 3, 4, 5, 6, 7, 8, 9, 16, 17, 18} =>
              /\ Day!Hour(b) % 128 \in {1, 2, 3, 4, 5, 6, 7, 8, 9, 16, 17, 18}
              /\ HourOf(b) \in 0 .. 23
              /\ HourOf(Day!Hour(b)) = IF HourOf(b) = 23 THEN 0 ELSE HourOf(b) + 1
<1> DEFINE hl == Day!Low(b)
           hh == (b \div 16) % 2
           pm == b \div 128
           next == (hl + 1) % 16
<1>1. hl \in 0 .. 15 /\ hh \in {0, 1} /\ pm \in {0, 1} /\ next \in 0 .. 15
  BY ByteParts DEF Day!Low
<1>2. Day!Hour(b) = IF hh = 1 /\ hl = 2 THEN 1 + 128 * pm
                    ELSE IF hh = 0 /\ hl = 9 THEN 16 + 128 * pm
                    ELSE next + 16 * hh + 128 * (IF hh = 1 /\ next = 2 THEN 1 - pm ELSE pm)
  BY DEF Day!Hour
<1>3. Day!Hour(b) \in 0 .. 255
  <2> HIDE DEF hl, hh, pm, next
  <2> QED BY <1>1, <1>2
<1>4. ASSUME b % 128 \in {1, 2, 3, 4, 5, 6, 7, 8, 9, 16, 17, 18}
      PROVE  /\ Day!Hour(b) % 128 \in {1, 2, 3, 4, 5, 6, 7, 8, 9, 16, 17, 18}
             /\ HourOf(b) \in 0 .. 23
             /\ HourOf(Day!Hour(b)) = IF HourOf(b) = 23 THEN 0 ELSE HourOf(b) + 1
  <2> DEFINE k == b % 128
  <2>1. b = 128 * pm + k
    BY ByteParts
  <2>2. /\ k < 16 => hh = 0 /\ hl = k /\ Day!Decimal(k) = k
        /\ k >= 16 => hh = 1 /\ hl = k - 16 /\ Day!Decimal(k) = k - 6
    BY <1>1, <1>4, <2>1 DEF Day!Low, Day!High, Day!Decimal
  <2>3. ASSUME NEW n \in {1, 2, 3, 4, 5, 6, 7, 8, 9, 16, 17, 18}, NEW p \in {0, 1}
        PROVE  /\ (n + 128 * p) % 128 = n /\ (n + 128 * p) \div 128 = p
               /\ Day!Decimal(n) = IF n < 16 THEN n ELSE n - 6
    BY DEF Day!Low, Day!High, Day!Decimal
  <2>4. HourOf(b) = ((IF k < 16 THEN k ELSE k - 6) % 12) + 12 * pm
    BY <1>4, <2>3 DEF HourOf
  <2>5. \E n \in {1, 2, 3, 4, 5, 6, 7, 8, 9, 16, 17, 18}, p \in {0, 1} :
          /\ Day!Hour(b) = n + 128 * p
          /\ IF k = 18 THEN n = 1 /\ p = pm
             ELSE IF k = 9 THEN n = 16 /\ p = pm
             ELSE n = k + 1 /\ p = IF k = 17 THEN 1 - pm ELSE pm
    <3> HIDE DEF hl, hh, pm, k
    <3>1. next = hl + 1 \/ hl = 15
      BY <1>1
    <3> HIDE DEF next
    <3> QED BY <1>1, <1>2, <1>4, <2>2, <3>1 DEF k
  <2>6. PICK n \in {1, 2, 3, 4, 5, 6, 7, 8, 9, 16, 17, 18}, p \in {0, 1} :
          /\ Day!Hour(b) = n + 128 * p
          /\ IF k = 18 THEN n = 1 /\ p = pm
             ELSE IF k = 9 THEN n = 16 /\ p = pm
             ELSE n = k + 1 /\ p = IF k = 17 THEN 1 - pm ELSE pm
    BY <2>5
  <2>7. HourOf(Day!Hour(b)) = ((IF n < 16 THEN n ELSE n - 6) % 12) + 12 * p
    BY <2>3, <2>6 DEF HourOf
  <2> HIDE DEF hl, hh, pm, next, k
  <2>8. Day!Hour(b) % 128 = n
    BY <2>3, <2>6
  <2> QED BY <1>1, <1>4, <2>4, <2>6, <2>7, <2>8 DEF k
<1> QED BY <1>3, <1>4

\* The tenths since midnight of a time in decimal.
Total(t1, s1, m1, h1) == t1 + 10 * (s1 + 60 * (m1 + 60 * h1))

\* The clock moves on by a tenth of a second, through every carry, and it moves.
LEMMA ClockAdvances ==
  ASSUME NEW c, IsClock(c)
  PROVE  /\ IsClock(Day!UpdateCounters(c)) /\ Day!UpdateCounters(c) # c
         /\ Day!IsTime(c) =>
              /\ Day!IsTime(Day!UpdateCounters(c))
              /\ Day!SinceMidnight(Day!UpdateCounters(c)) = (Day!SinceMidnight(c) + 1) % 864000
<1> DEFINE d == Day!UpdateCounters(c)
           tenth == Day!Digit(Day!Low(c[0]), 10, 16)
           second == IF tenth[2] THEN Day!Sixty(c[1]) ELSE <<c[1], FALSE>>
           minute == IF second[2] THEN Day!Sixty(c[2]) ELSE <<c[2], FALSE>>
           hour == IF minute[2] THEN Day!Hour(c[3]) ELSE c[3]
<1>1. c \in [{0, 1, 2, 3} -> 0 .. 255] /\ c[0] \in 0 .. 15 /\ c[1] \in 0 .. 127 /\ c[2] \in 0 .. 127
  BY Registers DEF IsClock
<1>2. d = [c EXCEPT ![0] = tenth[1], ![1] = second[1], ![2] = minute[1], ![3] = hour]
  BY Registers DEF Day!UpdateCounters
<1>3. tenth = IF c[0] = 9 THEN <<0, TRUE>> ELSE <<(c[0] + 1) % 16, FALSE>>
  <2>1. Day!Low(c[0]) = c[0]
    BY <1>1 DEF Day!Low
  <2> QED BY <1>1, <2>1 DEF Day!Digit
<1> HIDE DEF tenth
<1>4. tenth[1] \in 0 .. 15 /\ tenth[1] # c[0] /\ tenth[2] \in BOOLEAN
  <2>1. CASE c[0] = 9
    BY <1>3, <2>1
  <2>2. CASE c[0] # 9
    BY <1>1, <1>3, <2>2
  <2> QED BY <2>1, <2>2
<1>5. second[1] \in 0 .. 127 /\ second[2] \in BOOLEAN
  BY <1>1, SixtyCarries, ZenonT(60)
<1> HIDE DEF second
<1>6. minute[1] \in 0 .. 127 /\ minute[2] \in BOOLEAN
  BY <1>1, SixtyCarries, ZenonT(60)
<1> HIDE DEF minute
<1>7. hour \in 0 .. 255
  <2>1. c[3] \in 0 .. 255
    BY <1>1
  <2>2. Day!Hour(c[3]) \in 0 .. 255
    BY <2>1, HourCarries
  <2> QED BY <2>1, <2>2
<1> HIDE DEF hour
<1>8. d \in [{0, 1, 2, 3} -> 0 .. 255] /\ d[0] = tenth[1] /\ d[1] = second[1] /\ d[2] = minute[1] /\ d[3] = hour
  <2> HIDE DEF d
  <2>1. {tenth[1], second[1], minute[1], hour} \subseteq 0 .. 255
    BY <1>4, <1>5, <1>6, <1>7
  <2>2. d \in [{0, 1, 2, 3} -> 0 .. 255]
    BY <1>1, <1>2, <2>1
  <2>3. DOMAIN c = {0, 1, 2, 3}
    BY <1>1
  <2>4. d[0] = tenth[1] /\ d[1] = second[1] /\ d[2] = minute[1] /\ d[3] = hour
    BY <1>2, <2>3
  <2> QED BY <2>2, <2>4
<1>9. IsClock(d) /\ d # c
  BY <1>4, <1>5, <1>6, <1>8, Registers DEF IsClock
<1>10. ASSUME Day!IsTime(c)
       PROVE  Day!IsTime(d) /\ Day!SinceMidnight(d) = (Day!SinceMidnight(c) + 1) % 864000
  <2> DEFINE T == tenth[1]  S == Day!Decimal(second[1])  M == Day!Decimal(minute[1])  H == HourOf(hour)
             t0 == c[0]  s0 == Day!Decimal(c[1])  m0 == Day!Decimal(c[2])  h0 == HourOf(c[3])
  <2>1. /\ c[0] < 10 /\ Day!Low(c[1]) < 10 /\ Day!High(c[1]) < 6
        /\ Day!Low(c[2]) < 10 /\ Day!High(c[2]) < 6
        /\ c[3] % 128 \in {1, 2, 3, 4, 5, 6, 7, 8, 9, 16, 17, 18}
    BY <1>1, <1>10, Registers DEF Day!IsTime, Day!Low
  <2> HIDE DEF T, S, M, H, t0, s0, m0, h0
  <2>2. /\ s0 \in 0 .. 59 /\ m0 \in 0 .. 59 /\ h0 \in 0 .. 23
    <3>1. c[3] \in 0 .. 255
      BY <1>1
    <3>2. h0 \in 0 .. 23
      BY <2>1, <3>1, HourCarries, ZenonT(30) DEF h0
    <3> QED BY <1>1, <2>1, <3>2, SixtyCarries, ZenonT(30) DEF s0, m0
  <2>3. T \in 0 .. 9 /\ T + (IF tenth[2] THEN 10 ELSE 0) = t0 + 1
    <3>1. CASE c[0] = 9
      BY <1>3, <3>1 DEF T, t0
    <3>2. CASE c[0] # 9
      BY <1>1, <1>3, <2>1, <3>2 DEF T, t0
    <3> QED BY <3>1, <3>2
  <2>4. /\ Day!Low(second[1]) < 10 /\ Day!High(second[1]) < 6
        /\ IF tenth[2] THEN S + (IF second[2] THEN 60 ELSE 0) = s0 + 1 ELSE S = s0 /\ ~second[2]
    <3>1. CASE tenth[2]
      BY <1>1, <2>1, <3>1, SixtyCarries, ZenonT(30) DEF second, S, s0
    <3>2. CASE ~tenth[2]
      BY <2>1, <3>2 DEF second, S, s0
    <3> QED BY <3>1, <3>2
  <2>5. /\ Day!Low(minute[1]) < 10 /\ Day!High(minute[1]) < 6
        /\ IF second[2] THEN M + (IF minute[2] THEN 60 ELSE 0) = m0 + 1 ELSE M = m0 /\ ~minute[2]
    <3>1. CASE second[2]
      BY <1>1, <2>1, <3>1, SixtyCarries, ZenonT(30) DEF minute, M, m0
    <3>2. CASE ~second[2]
      BY <2>1, <3>2 DEF minute, M, m0
    <3> QED BY <3>1, <3>2
  <2>6. /\ hour % 128 \in {1, 2, 3, 4, 5, 6, 7, 8, 9, 16, 17, 18}
        /\ H = IF minute[2] THEN IF h0 = 23 THEN 0 ELSE h0 + 1 ELSE h0
    <3>1. CASE minute[2]
      <4>1. c[3] \in 0 .. 255
        BY <1>1
      <4> QED BY <2>1, <3>1, <4>1, HourCarries, ZenonT(30) DEF hour, H, h0
    <3>2. CASE ~minute[2]
      BY <2>1, <3>2 DEF hour, H, h0
    <3> QED BY <3>1, <3>2
  <2>7. Day!IsTime(d)
    <3>1. Day!Low(d[0]) < 10
      BY <1>8, <2>3 DEF Day!Low, T
    <3> QED BY <1>8, <2>4, <2>5, <2>6, <3>1, Registers DEF Day!IsTime
  <2>8. /\ Day!SinceMidnight(d) = T + 10 * (S + 60 * (M + 60 * H))
        /\ Day!SinceMidnight(c) = t0 + 10 * (s0 + 60 * (m0 + 60 * h0))
    BY <1>8, Registers DEF Day!SinceMidnight, HourOf, T, S, M, H, t0, s0, m0, h0
  <2>9. t0 \in 0 .. 9
    BY <1>1, <2>1 DEF t0
  <2>11. S \in 0 .. 59 /\ M \in 0 .. 59 /\ H \in 0 .. 23
    <3>1. ASSUME NEW b \in 0 .. 127, Day!Low(b) < 10, Day!High(b) < 6  PROVE Day!Decimal(b) \in 0 .. 59
      BY <3>1 DEF Day!Decimal, Day!Low, Day!High
    <3>2. S \in 0 .. 59 /\ M \in 0 .. 59
      BY <1>5, <1>6, <2>4, <2>5, <3>1 DEF S, M
    <3> QED BY <1>6, <2>2, <2>6, <3>2
  <2>10. T + 10 * (S + 60 * (M + 60 * H))
           = (t0 + 10 * (s0 + 60 * (m0 + 60 * h0)) + 1) % 864000
    <3>2. Total(T, S, M, H) \in Nat /\ Total(T, S, M, H) <= 863999
      BY <2>3, <2>11, SMT DEF Total
    <3>3. Total(t0, s0, m0, h0) \in Nat /\ Total(t0, s0, m0, h0) <= 863999
      BY <2>2, <2>9, SMT DEF Total
    <3>4. \/ Total(T, S, M, H) = Total(t0, s0, m0, h0) + 1
          \/ Total(T, S, M, H) = 0 /\ Total(t0, s0, m0, h0) = 863999
      <4>1. CASE ~tenth[2]
        BY <2>11, <2>2, <2>3, <2>4, <2>5, <2>6, <2>9, <4>1, <1>4, <1>5, <1>6, SMT DEF Total
      <4>2. CASE tenth[2] /\ ~second[2]
        BY <2>11, <2>2, <2>3, <2>4, <2>5, <2>6, <2>9, <4>2, <1>4, <1>5, <1>6, SMT DEF Total
      <4>3. CASE tenth[2] /\ second[2]
        <5>1. T = 0 /\ t0 = 9 /\ S = 0 /\ s0 = 59
          BY <2>11, <2>2, <2>3, <2>4, <2>9, <4>3, SMT DEF Total
        <5>2. CASE ~minute[2]
          BY <2>11, <2>2, <2>5, <2>6, <4>3, <5>1, <5>2, SMT DEF Total
        <5>3. CASE minute[2]
          <6>1. M = 0 /\ m0 = 59
            BY <2>11, <2>2, <2>5, <4>3, <5>3, SMT DEF Total
          <6> QED BY <2>2, <2>6, <5>1, <5>3, <6>1, SMT DEF Total
        <5> QED BY <5>2, <5>3, <1>6
      <4> QED BY <4>1, <4>2, <4>3, <1>4, <1>5
    <3>5. Total(T, S, M, H) = (Total(t0, s0, m0, h0) + 1) % 864000
      BY <3>2, <3>3, <3>4, SMT
    <3> QED BY <3>5, SMT DEF Total
  <2> QED BY <2>7, <2>8, <2>10, SMT
<1> QED BY <1>9, <1>10, SMT

LEMMA MaskedFits ==
  ASSUME NEW reg \in Day!Register, NEW data \in 0 .. 255, crb7 \in {0, 1},
         NEW c, IsClock(c)
  PROVE  IsClock([c EXCEPT ![reg] = Day!Masked(reg, data)])
<1> DEFINE hour == (data % 32) + 128 * (data \div 128)
<1>1. hour \in 0 .. 255 /\ (hour + 128) % 256 \in 0 .. 255 /\ data % 16 \in 0 .. 15 /\ data % 128 \in 0 .. 127
  <2>1. data % 32 \in 0 .. 31 /\ data \div 128 \in {0, 1}
    BY ByteParts
  <2> QED BY <2>1
<1>2. CASE reg = 0
  BY <1>1, <1>2, Registers DEF IsClock, Day!Masked
<1>3. CASE reg \in {1, 2}
  <2>1. Day!Masked(reg, data) = data % 128
    <3> HIDE DEF hour
    <3>1. reg # 0 /\ reg \in {Day!SECONDS, Day!MINUTES}
      BY <1>3, Registers
    <3> QED BY ONLY <3>1, Registers DEF Day!Masked
  <2> HIDE DEF hour
  <2> QED BY <1>1, <1>3, <2>1, Registers DEF IsClock
<1>4. CASE reg = 3
  <2>1. Day!Masked(reg, data) = IF hour % 32 = 18 /\ crb7 = 0 THEN (hour + 128) % 256 ELSE hour
    BY <1>4, Registers DEF Day!Masked
  <2> HIDE DEF hour
  <2> QED BY <1>1, <1>4, <2>1, Registers, SMTT(30) DEF IsClock
<1> QED BY <1>2, <1>3, <1>4, Registers

LEMMA StartIsClock == IsClock(Day!Start) /\ Day!Start # Day!Midnight
BY Registers DEF IsClock, Day!Start, Day!Midnight

LEMMA DayInit == Day!Init => DayInv
<1> SUFFICES ASSUME Day!Init  PROVE DayInv
  OBVIOUS
<1>1. program \in Day!Program /\ IsClock(clock)
  BY StartIsClock, ProgramsAssumption DEF Day!Init
<1>2. ~isLatched /\ isLatched \in BOOLEAN /\ isStopped \in BOOLEAN /\ cra7 = 0 /\ crb7 = 0 /\ shown = <<>> /\ ticks = -1 /\ tenths = 0
  BY DEF Day!Init
<1> QED BY <1>1, <1>2 DEF DayInv

\* The ring counter matches after the right number of ticks, and then only.
LEMMA RingTurns ==
  ASSUME DayInv, ticks >= 0
  PROVE  /\ ring = Day!Match <=> ticks = 5 - cra7
         /\ ticks # 5 - cra7 => Day!NextRing(ring) = Ring[ticks + 2]
<1>1. ticks \in 0 .. 5 - cra7 /\ cra7 \in {0, 1} /\ ring = Ring[ticks + 1]
  BY DEF DayInv
<1>2. /\ Ring[1] = 0 /\ Ring[2] = 4 /\ Ring[3] = 6 /\ Ring[4] = 7 /\ Ring[5] = 3 /\ Ring[6] = 1
  BY DEF Ring
<1>3. /\ Day!NextRing(0) = 4 /\ Day!NextRing(4) = 6 /\ Day!NextRing(6) = 7
      /\ Day!NextRing(7) = 3 /\ Day!NextRing(3) = 1
  BY DEF Day!NextRing
<1>4. ticks \in {0, 1, 2, 3, 4, 5}
  BY <1>1
<1> QED BY <1>1, <1>2, <1>3, <1>4 DEF Day!Match

\* What no operation of a step touches of the invariant.
LatchInv == IF isLatched THEN IsClock(shown) /\ latch = shown ELSE shown = <<>>
RingInv == ticks \in -1 .. 5 - cra7 /\ (ticks >= 0 => ring = Ring[ticks + 1])

LEMMA DaySteps == DayInv /\ [Day!Next]_(Day!vars) => DayInv'
<1> SUFFICES ASSUME DayInv, [Day!Next]_(Day!vars)  PROVE DayInv'
  OBVIOUS
<1>1. /\ program \in Day!Program /\ IsClock(clock) /\ isLatched \in BOOLEAN /\ isStopped \in BOOLEAN
      /\ LatchInv /\ RingInv /\ cra7 \in {0, 1} /\ crb7 \in {0, 1} /\ tenths \in Nat
  BY DEF DayInv, LatchInv, RingInv
<1>2. ASSUME program' = program, IsClock(clock'), isLatched' \in BOOLEAN, isStopped' \in BOOLEAN,
             LatchInv', RingInv', cra7' \in {0, 1}, crb7' \in {0, 1}, tenths' \in Nat
      PROVE  DayInv'
  BY <1>1, <1>2 DEF DayInv, LatchInv, RingInv
<1>3. shown' = shown /\ latch' = latch /\ isLatched' = isLatched => LatchInv'
  BY <1>1 DEF LatchInv
<1>4. ticks' = ticks /\ ring' = ring /\ cra7' = cra7 => RingInv'
  BY <1>1 DEF RingInv
<1>5. CASE Day!Tick
  <2>1. UNCHANGED <<program, cra7, crb7, latch, alarm, isLatched, isStopped, shown>>
    BY <1>5 DEF Day!Tick, Day!settings
  <2>2. IsClock(clock') /\ tenths' \in Nat
    BY <1>1, <1>5, ClockAdvances DEF Day!Tick
  <2>3. RingInv'
    <3>1. CASE isStopped
      BY <1>1, <1>5, <2>1, <3>1 DEF Day!Tick, RingInv
    <3>2. CASE ~isStopped /\ ring = Day!Match
      <4>1. Ring[1] = 0
        BY DEF Ring
      <4> QED BY <1>1, <1>5, <2>1, <3>2, <4>1 DEF Day!Tick, RingInv
    <3>3. CASE ~isStopped /\ ring # Day!Match
      <4>1. ticks' = (IF ticks = -1 THEN ticks ELSE ticks + 1) /\ ring' = Day!NextRing(ring)
        BY <1>5, <3>3 DEF Day!Tick
      <4> QED BY <1>1, <2>1, <3>3, <4>1, RingTurns DEF RingInv
    <3> QED BY <3>1, <3>2, <3>3
  <2> QED BY <1>1, <1>2, <1>3, <2>1, <2>2, <2>3
<1>6. ASSUME NEW reg \in Day!Register, Day!Read(reg)  PROVE DayInv'
  <2>1. UNCHANGED <<program, cra7, crb7, clock, alarm, isStopped, ring, ticks, tenths>>
    BY <1>6 DEF Day!Read, Day!settings
  <2>2. /\ isLatched' \in BOOLEAN /\ (isLatched' <=> reg = 3 \/ (isLatched /\ reg # 0))
        /\ latch' = IF isLatched THEN latch ELSE clock
    BY <1>1, <1>6, Registers DEF Day!Read, Day!Latch
  <2>3. shown' = IF reg = 0 THEN <<>> ELSE IF reg = 3 /\ shown = <<>> THEN clock ELSE shown
    <3>1. CASE reg = 0
      BY <1>6, <3>1, Registers DEF Day!Read
    <3>2. CASE reg # 0 /\ reg = 3 /\ shown = <<>>
      BY <1>6, <3>2, Registers DEF Day!Read
    <3>3. CASE reg # 0 /\ ~(reg = 3 /\ shown = <<>>)
      BY <1>6, <3>3, Registers DEF Day!Read
    <3> QED BY <3>1, <3>2, <3>3
  <2>4. LatchInv'
    <3>1. isLatched => shown # <<>>
      BY <1>1, ClockShown DEF LatchInv
    <3>2. CASE reg = 0
      <4>1. ~isLatched'
        BY <1>1, <2>2, <3>2
      <4>2. shown' = <<>>
        BY <2>3, <3>2
      <4> QED BY <4>1, <4>2 DEF LatchInv
    <3>3. CASE reg # 0 /\ isLatched
      <4>1. isLatched' /\ latch' = latch /\ shown' = shown
        BY <2>2, <2>3, <3>1, <3>3
      <4> QED BY <1>1, <3>3, <4>1 DEF LatchInv
    <3>4. CASE reg = 3 /\ ~isLatched
      <4>1. isLatched' /\ latch' = clock
        BY <2>2, <3>4
      <4>2. shown' = clock
        BY <1>1, <2>3, <3>4 DEF LatchInv
      <4> QED BY <1>1, <2>1, <4>1, <4>2 DEF LatchInv
    <3>5. CASE reg \in {1, 2} /\ ~isLatched
      BY <1>1, <2>2, <2>3, <3>5 DEF LatchInv
    <3> QED BY <3>2, <3>3, <3>4, <3>5, Registers
  <2> QED BY <1>1, <1>2, <1>4, <2>1, <2>2, <2>4
<1>7. ASSUME NEW reg \in Day!Register, NEW data \in program.writes[reg], Day!Write(reg, data)  PROVE DayInv'
  <2>1. UNCHANGED <<program, cra7, crb7, latch, isLatched, shown, tenths>>
    BY <1>7 DEF Day!Write, Day!settings
  <2>2. data \in 0 .. 255
    BY <1>1, <1>7 DEF Day!Program
  <2>3. CASE crb7 = 1
    BY <1>1, <1>2, <1>3, <1>4, <1>7, <2>1, <2>3 DEF Day!Write, Day!WriteAlarm
  <2>4. CASE crb7 # 1
    <3>1. Day!WriteClock(reg, data)
      BY <1>7, <2>4 DEF Day!Write
    <3>2. IsClock(clock')
      BY <1>1, <2>2, <3>1, MaskedFits DEF Day!WriteClock
    <3>3. isStopped' \in BOOLEAN
      BY <1>1, <3>1 DEF Day!WriteClock
    <3>4. RingInv'
      <4>1. Ring[1] = 0
        BY DEF Ring
      <4> QED BY <1>1, <2>1, <3>1, <4>1 DEF Day!WriteClock, RingInv
    <3> QED BY <1>1, <1>2, <1>3, <2>1, <3>2, <3>3, <3>4
  <2> QED BY <2>3, <2>4
<1>8. CASE Day!WriteControlA
  <2>1. RingInv'
    BY <1>1, <1>8 DEF Day!WriteControlA, RingInv
  <2> QED BY <1>1, <1>2, <1>3, <1>8, <2>1 DEF Day!WriteControlA, Day!times
<1>9. CASE Day!WriteControlB
  BY <1>1, <1>2, <1>3, <1>4, <1>9 DEF Day!WriteControlB, Day!times
<1>10. CASE Day!Reset
  <2>1. RingInv' /\ LatchInv'
    BY <1>10 DEF Day!Reset, RingInv, LatchInv
  <2> QED BY <1>1, <1>2, <1>10, <2>1, StartIsClock DEF Day!Reset
<1>11. CASE UNCHANGED Day!vars
  BY <1>1, <1>2, <1>3, <1>4, <1>11 DEF Day!vars, Day!settings
<1> QED BY <1>5, <1>6, <1>7, <1>8, <1>9, <1>10, <1>11 DEF Day!Next

-----------------------------------------------------------------------------
(* The serial port.                                                        *)

\* The half-cycles that an event may be away when half h is next: a flip fires
\* in PHI1 and startSdr in PHI2, the interrupt in either.
FlipTimes(h) == IF h = 1 THEN {0, 2} ELSE {1, 3}
Slots(h) ==
  ({"flipCnt", "flipFake"} \X FlipTimes(h)) \cup ({"startSdr"} \X {2 - h}) \cup ({"sp"} \X (0 .. 3))

PortTypeOK ==
  /\ half \in {1, 2}
  /\ {output, loaded, pending, forceFinish, finished, reset} \subseteq BOOLEAN
  /\ count \in 0 .. 16 /\ unnoted \in 0 .. 3
  /\ queue \subseteq Slots(half)

\* A byte is being shifted while there are flips to come but the last, and
\* none ends before the interrupt of the byte before has been given.
Shifting ==
  /\ pending => loaded
  /\ count >= 2 => loaded
  /\ \A k \in 0 .. 3 : <<"sp", k>> \in queue => count <= 1 \/ count >= 13 + k

LineKnown == Port!Noted(unnoted) = line

\* The times in which the trigger time of a flip that a switch has cancelled
\* may be taken for a flip to come, but for one from before a reset.
StaleTimes == IF half = 2 THEN {Port!Never} \cup (IF output THEN {} ELSE {1})
              ELSE {Port!Never, 0} \cup (IF output THEN {} ELSE {2})
FlipKnown ==
  /\ Port!Queued(queue, "flipCnt") => output /\ flipDue = Port!Never
  /\ output => ~forceFinish /\ ~finished
  /\ reset \/ forceFinish = finished
  /\ reset \/ flipDue \in StaleTimes

PortIInv == PortTypeOK /\ Port!QueuedOnce /\ Shifting /\ Port!BytesAnnounced /\ LineKnown /\ FlipKnown

-----------------------------------------------------------------------------
(* The event queue.                                                        *)

\* Two entries of a queue are of two events.
Once(q) == \A x, y \in q : x[1] = y[1] => x = y

PortEvent == {"flipCnt", "flipFake", "startSdr", "sp"}

LEMMA SlotsPairs ==
  ASSUME NEW h \in {1, 2}  PROVE Slots(h) \subseteq PortEvent \X (0 .. 3)
BY DEF Slots, FlipTimes, PortEvent

LEMMA SubsetOnce ==
  ASSUME NEW q, Once(q), NEW e
  PROVE  /\ Once(Port!Fired(q)) /\ Once(Port!Cancel(q, e)) /\ ~Port!Queued(Port!Cancel(q, e), e)
         /\ Port!Fired(q) \subseteq q /\ Port!Cancel(q, e) \subseteq q
BY DEF Once, Port!Fired, Port!Cancel, Port!Queued

LEMMA AfterOnce ==
  ASSUME NEW q, Once(q), NEW e, NEW n, ~Port!Queued(q, e)  PROVE Once(Port!After(q, e, n))
BY DEF Once, Port!After, Port!Queued

LEMMA QueuedAfter ==
  ASSUME NEW q, NEW e, NEW n, NEW f  PROVE Port!Queued(Port!After(q, e, n), f) <=> e = f \/ Port!Queued(q, f)
<1>1. <<e, n>>[1] = e
  OBVIOUS
<1>2. ASSUME Port!Queued(q, f)  PROVE Port!Queued(Port!After(q, e, n), f)
  BY <1>2 DEF Port!Queued, Port!After
<1>3. e = f => Port!Queued(Port!After(q, e, n), f)
  BY <1>1 DEF Port!Queued, Port!After
<1>4. ASSUME Port!Queued(Port!After(q, e, n), f)  PROVE e = f \/ Port!Queued(q, f)
  <2>1. PICK x \in q \cup {<<e, n>>} : x[1] = f
    BY <1>4 DEF Port!Queued, Port!After
  <2> QED BY <1>1, <2>1 DEF Port!Queued
<1> QED BY <1>2, <1>3, <1>4

LEMMA HalfCycleOnce ==
  ASSUME NEW q, q \subseteq PortEvent \X (0 .. 4), Once(q)
  PROVE  /\ Once(Port!HalfCycle(q))
         /\ \A e \in PortEvent : Port!Queued(Port!HalfCycle(q), e) <=> Port!Queued(q, e)
         /\ \A e \in PortEvent, k \in Int : <<e, k>> \in Port!HalfCycle(q) <=> <<e, k + 1>> \in q
<1>1. Once(Port!HalfCycle(q))
  BY DEF Once, Port!HalfCycle
<1>2. ASSUME NEW e \in PortEvent  PROVE Port!Queued(Port!HalfCycle(q), e) <=> Port!Queued(q, e)
  <2>1. ASSUME Port!Queued(q, e)  PROVE Port!Queued(Port!HalfCycle(q), e)
    <3>1. PICK x \in q : x[1] = e
      BY <2>1 DEF Port!Queued
    <3>2. <<x[1], x[2] - 1>> \in Port!HalfCycle(q) /\ <<x[1], x[2] - 1>>[1] = e
      BY <3>1 DEF Port!HalfCycle
    <3> QED BY <3>2 DEF Port!Queued
  <2>2. ASSUME Port!Queued(Port!HalfCycle(q), e)  PROVE Port!Queued(q, e)
    <3>1. PICK y \in Port!HalfCycle(q) : y[1] = e
      BY <2>2 DEF Port!Queued
    <3>2. PICK x \in q : y = <<x[1], x[2] - 1>>
      BY <3>1 DEF Port!HalfCycle
    <3> QED BY <3>1, <3>2 DEF Port!Queued
  <2> QED BY <2>1, <2>2
<1>3. \A e \in PortEvent, k \in Int : <<e, k>> \in Port!HalfCycle(q) <=> <<e, k + 1>> \in q
  BY DEF Port!HalfCycle
<1> QED BY <1>1, <1>2, <1>3

\* What is not due in this half-cycle is nearer in the next.
LEMMA HalfCycleSlots ==
  ASSUME NEW h \in {1, 2}, NEW q,
         \A x \in q : (x \in Slots(h) /\ x[2] # 0)
                      \/ x = <<"sp", 4>> \/ (h = 1 /\ x \in {"flipCnt", "flipFake"} \X {4})
                      \/ (h = 2 /\ x = <<"startSdr", 2>>)
  PROVE  Port!HalfCycle(q) \subseteq Slots(3 - h) /\ q \subseteq PortEvent \X (0 .. 4)
<1>1. q \subseteq PortEvent \X (0 .. 4)
  BY DEF Slots, FlipTimes, PortEvent
<1>2. ASSUME NEW x \in q  PROVE <<x[1], x[2] - 1>> \in Slots(3 - h)
  <2>1. CASE h = 1
    BY <2>1 DEF Slots, FlipTimes
  <2>2. CASE h = 2
    BY <2>2 DEF Slots, FlipTimes
  <2> QED BY <2>1, <2>2
<1> QED BY <1>1, <1>2 DEF Port!HalfCycle

\* Entries on the queue when the events of half h have fired.
Deferred(q, h) ==
  \A x \in q : (x \in Slots(h) /\ x[2] # 0)
               \/ x = <<"sp", 4>> \/ (h = 1 /\ x \in {"flipCnt", "flipFake"} \X {4})
               \/ (h = 2 /\ x = <<"startSdr", 2>>)

\* The interrupt is queued when the half-cycle is over.
SpLeft(q) == Port!Queued(q, "sp") /\ ~Port!Due(q, "sp")

LEMMA FiredQueue ==
  ASSUME PortTypeOK, Port!QueuedOnce
  PROVE  /\ Once(Port!Fired(queue)) /\ Deferred(Port!Fired(queue), half)
         /\ Port!Queued(Port!Fired(queue), "sp") <=> SpLeft(queue)
         /\ \A f \in PortEvent : Port!Queued(Port!Fired(queue), f) => Port!Queued(queue, f)
         /\ half = 2 => ~Port!Queued(Port!Fired(queue), "startSdr")
         /\ half = 2 => (Port!Queued(Port!Fired(queue), "flipCnt") <=> Port!Queued(queue, "flipCnt"))
<1>1. Once(queue) /\ queue \subseteq PortEvent \X (0 .. 3)
  BY SlotsPairs DEF PortTypeOK, Port!QueuedOnce, Once
<1>2. Once(Port!Fired(queue)) /\ Deferred(Port!Fired(queue), half)
  BY <1>1 DEF PortTypeOK, Once, Port!Fired, Deferred
<1>3. \A f \in PortEvent : Port!Queued(Port!Fired(queue), f) => Port!Queued(queue, f)
  BY DEF Port!Queued, Port!Fired
<1>4. Port!Queued(Port!Fired(queue), "sp") <=> SpLeft(queue)
  <2>1. ASSUME SpLeft(queue)  PROVE Port!Queued(Port!Fired(queue), "sp")
    <3>1. PICK x \in queue : x[1] = "sp"
      BY <2>1 DEF SpLeft, Port!Queued
    <3>2. x = <<"sp", x[2]>> /\ x[2] # 0
      BY <1>1, <2>1, <3>1 DEF SpLeft, Port!Due
    <3> QED BY <3>1, <3>2 DEF Port!Queued, Port!Fired
  <2>2. ASSUME Port!Queued(Port!Fired(queue), "sp")  PROVE SpLeft(queue)
    <3>1. PICK x \in queue : x[1] = "sp" /\ x[2] # 0
      BY <2>2 DEF Port!Queued, Port!Fired
    <3>2. <<"sp", 0>> \notin queue
      BY <1>1, <3>1 DEF Once
    <3> QED BY <3>1, <3>2 DEF SpLeft, Port!Due, Port!Queued
  <2> QED BY <2>1, <2>2
<1>5. half = 2 => ~Port!Queued(Port!Fired(queue), "startSdr")
  BY DEF PortTypeOK, Slots, FlipTimes, Port!Queued, Port!Fired
<1>6. half = 2 => (Port!Queued(Port!Fired(queue), "flipCnt") <=> Port!Queued(queue, "flipCnt"))
  <2>1. ASSUME half = 2, NEW x \in queue, x[1] = "flipCnt"  PROVE x[2] # 0
    BY <2>1 DEF PortTypeOK, Slots, FlipTimes
  <2>2. ASSUME half = 2, Port!Queued(queue, "flipCnt")  PROVE Port!Queued(Port!Fired(queue), "flipCnt")
    <3>1. PICK x \in queue : x[1] = "flipCnt"
      BY <2>2 DEF Port!Queued
    <3> QED BY <2>1, <2>2, <3>1 DEF Port!Queued, Port!Fired
  <2> QED BY <1>3, <2>2 DEF PortEvent
<1> QED BY <1>2, <1>3, <1>4, <1>5, <1>6

\* What an action that leaves q has done to the interrupt.
LEMMA SpAfter ==
  ASSUME NEW q, NEW n
  PROVE  LET r == Port!After(Port!Cancel(q, "sp"), "sp", n)
         IN  /\ Port!Queued(r, "sp")
             /\ \A f \in PortEvent \ {"sp"} : Port!Queued(r, f) <=> Port!Queued(q, f)
             /\ \A k : <<"sp", k>> \in r <=> k = n
<1> DEFINE r == Port!After(Port!Cancel(q, "sp"), "sp", n)
<1>1. Port!Queued(r, "sp")
  BY QueuedAfter
<1>2. ASSUME NEW f \in PortEvent \ {"sp"}  PROVE Port!Queued(r, f) <=> Port!Queued(q, f)
  <2>1. Port!Queued(r, f) <=> Port!Queued(Port!Cancel(q, "sp"), f)
    BY QueuedAfter
  <2>2. Port!Queued(Port!Cancel(q, "sp"), f) <=> Port!Queued(q, f)
    BY DEF Port!Queued, Port!Cancel
  <2> QED BY <2>1, <2>2
<1>3. ASSUME NEW k  PROVE <<"sp", k>> \in r <=> k = n
  BY DEF Port!After, Port!Cancel
<1> QED BY <1>1, <1>2, <1>3

LEMMA AfterEventsQueue ==
  ASSUME PortTypeOK, Port!QueuedOnce, half = 1
  PROVE  /\ Once(Port!AfterEvents) /\ Deferred(Port!AfterEvents, 1)
         /\ Port!Queued(Port!AfterEvents, "sp") <=> Port!Completes \/ SpLeft(queue)
         /\ \A k \in Int : <<"sp", k>> \in Port!AfterEvents =>
              (Port!Completes /\ k = 4) \/ <<"sp", k>> \in queue
         /\ Port!Queued(Port!AfterEvents, "flipCnt") => Port!Queued(queue, "flipCnt")
<1>1. CASE Port!Completes
  <2> DEFINE q == Port!Cancel(Port!Fired(queue), "sp")
  <2>1. Port!AfterEvents = Port!After(q, "sp", 4)
    BY <1>1 DEF Port!AfterEvents
  <2>2. Once(q) /\ ~Port!Queued(q, "sp") /\ Deferred(q, 1)
    BY FiredQueue, SubsetOnce DEF Deferred
  <2>3. Once(Port!After(q, "sp", 4)) /\ Deferred(Port!After(q, "sp", 4), 1)
    BY <2>2, AfterOnce DEF Port!After, Deferred
  <2> QED BY <1>1, <2>1, <2>3, SpAfter, FiredQueue DEF PortEvent
<1>2. CASE ~Port!Completes
  BY <1>2, FiredQueue DEF Port!AfterEvents, PortEvent, Port!Fired
<1> QED BY <1>1, <1>2

LEMMA HandleQueue ==
  ASSUME NEW q, Once(q), Deferred(q, 1), NEW n
  PROVE  /\ Once(Port!Handle(q, n)) /\ Deferred(Port!Handle(q, n), 1)
         /\ Port!Queued(Port!Handle(q, n), "sp") <=> Port!Queued(q, "sp")
         /\ \A k \in Int : <<"sp", k>> \in Port!Handle(q, n) <=> <<"sp", k>> \in q
<1>1. CASE n = 0
  BY <1>1 DEF Port!Handle
<1>2. CASE n # 0 /\ (Port!Queued(q, "flipFake") \/ Port!Queued(q, "flipCnt"))
  <2> DEFINE r == Port!Cancel(q, "flipFake")
  <2>1. Port!Handle(q, n) = Port!After(r, "flipFake", 4)
    BY <1>2 DEF Port!Handle
  <2>2. Once(r) /\ ~Port!Queued(r, "flipFake") /\ Deferred(r, 1)
    BY SubsetOnce DEF Deferred
  <2>3. Once(Port!After(r, "flipFake", 4)) /\ Deferred(Port!After(r, "flipFake", 4), 1)
    BY <2>2, AfterOnce DEF Port!After, Deferred
  <2>4. Port!Queued(r, "sp") <=> Port!Queued(q, "sp")
    BY DEF Port!Queued, Port!Cancel
  <2>5. \A k \in Int : <<"sp", k>> \in Port!After(r, "flipFake", 4) <=> <<"sp", k>> \in q
    BY DEF Port!After, Port!Cancel
  <2> QED BY <2>1, <2>3, <2>4, <2>5, QueuedAfter
<1>3. CASE n # 0 /\ ~Port!Queued(q, "flipFake") /\ ~Port!Queued(q, "flipCnt")
  <2>1. Port!Handle(q, n) = Port!After(q, "flipCnt", 4)
    BY <1>3 DEF Port!Handle
  <2>2. Once(Port!After(q, "flipCnt", 4)) /\ Deferred(Port!After(q, "flipCnt", 4), 1)
    <3>1. Once(Port!After(q, "flipCnt", 4))
      BY <1>3, AfterOnce
    <3>2. Deferred(Port!After(q, "flipCnt", 4), 1)
      BY DEF Port!After, Deferred
    <3> QED BY <3>1, <3>2
  <2>3. \A k \in Int : <<"sp", k>> \in Port!After(q, "flipCnt", 4) <=> <<"sp", k>> \in q
    BY DEF Port!After
  <2> QED BY <2>1, <2>2, <2>3, QueuedAfter
<1> QED BY <1>1, <1>2, <1>3

\* The queue of a half-cycle that has ended with q.
LEMMA PassesQueue ==
  ASSUME PortTypeOK, NEW q, Once(q), Deferred(q, half), Port!Passes(q), half' = 3 - half
  PROVE  /\ queue' \subseteq Slots(half') /\ Port!QueuedOnce'
         /\ \A e \in PortEvent : Port!Queued(queue', e) <=> Port!Queued(q, e)
         /\ \A e \in PortEvent, k \in Int : <<e, k>> \in queue' <=> <<e, k + 1>> \in q
         /\ flipDue' = IF Port!Queued(q, "flipCnt") \/ flipDue = Port!Never THEN Port!Never ELSE flipDue - 1
<1>1. Port!HalfCycle(q) \subseteq Slots(3 - half) /\ q \subseteq PortEvent \X (0 .. 4)
  BY HalfCycleSlots DEF Deferred, PortTypeOK
<1>2. queue' = Port!HalfCycle(q)
  BY DEF Port!Passes
<1> QED BY <1>1, <1>2, HalfCycleOnce DEF Port!Passes, Port!QueuedOnce, Once
-----------------------------------------------------------------------------
(* The operations.                                                         *)

LEMMA PortInitKeeps == Port!Init => PortIInv
<1> SUFFICES ASSUME Port!Init  PROVE PortIInv
  OBVIOUS
<1>1. PortTypeOK /\ Port!QueuedOnce /\ ~Port!Queued(queue, "flipCnt") /\ ~Port!Queued(queue, "sp")
  <2>1. queue = {}
    BY DEF Port!Init
  <2>2. {output, loaded, pending, forceFinish, finished, reset} \subseteq BOOLEAN
    BY DEF Port!Init
  <2>3. half \in {1, 2} /\ count \in 0 .. 16 /\ unnoted \in 0 .. 3
    BY DEF Port!Init
  <2>4. Port!QueuedOnce /\ ~Port!Queued(queue, "flipCnt") /\ ~Port!Queued(queue, "sp")
    BY <2>1 DEF Port!QueuedOnce, Port!Queued
  <2> QED BY <2>1, <2>2, <2>3, <2>4 DEF PortTypeOK
<1>2. Shifting /\ Port!BytesAnnounced
  BY <1>1 DEF Port!Init, Shifting, Port!BytesAnnounced, Port!AsInt
<1>3. LineKnown
  BY DEF Port!Init, LineKnown, Port!Noted
<1>4. FlipKnown
  BY <1>1 DEF Port!Init, FlipKnown, StaleTimes
<1> QED BY <1>1, <1>2, <1>3, <1>4 DEF PortIInv

LEMMA PortResetKeeps == ASSUME PortIInv, Port!Reset  PROVE PortIInv'
<1>1. PortTypeOK' /\ Port!QueuedOnce' /\ ~Port!Queued(queue, "flipCnt")' /\ ~Port!Queued(queue, "sp")'
  <2>1. queue' = {}
    BY DEF Port!Reset, Port!ResetPort
  <2>2. {output, loaded, pending, forceFinish, finished, reset}' \subseteq BOOLEAN
    BY DEF Port!Reset, Port!ResetPort
  <2>3. half' \in {1, 2} /\ count' \in 0 .. 16 /\ unnoted' \in 0 .. 3
    BY DEF Port!Reset, Port!ResetPort
  <2>4. Port!QueuedOnce' /\ ~Port!Queued(queue, "flipCnt")' /\ ~Port!Queued(queue, "sp")'
    BY <2>1 DEF Port!QueuedOnce, Port!Queued
  <2> QED BY <2>1, <2>2, <2>3, <2>4 DEF PortTypeOK
<1>2. Shifting' /\ Port!BytesAnnounced'
  BY <1>1 DEF Port!Reset, Port!ResetPort, Shifting, Port!BytesAnnounced, Port!AsInt
<1>3. LineKnown'
  BY DEF Port!Reset, Port!ResetPort, LineKnown, Port!Noted
<1>4. FlipKnown'
  BY <1>1 DEF Port!Reset, Port!ResetPort, FlipKnown, StaleTimes
<1> QED BY <1>1, <1>2, <1>3, <1>4 DEF PortIInv

\* The line that is noted when a cycle more has passed.
LEMMA NotedLater ==
  ASSUME NEW n \in 0 .. 3
  PROVE  Port!Noted(IF n = 3 THEN 3 ELSE n + 1) = <<cnt, Port!Noted(n)[1], Port!Noted(n)[2]>>
BY DEF Port!Noted

LEMMA Phi1Keeps == ASSUME PortIInv, NEW passes \in BOOLEAN, Port!Phi1(passes)  PROVE PortIInv'
<1> DEFINE bytes == IF Port!Completes THEN Port!NextByte(pending) ELSE <<loaded, pending>>
           n == IF Port!Loads(passes, bytes[1]) THEN 16 ELSE Port!Flipped
           q == IF Port!Reaches(passes) THEN Port!Handle(Port!AfterEvents, n) ELSE Port!AfterEvents
<1>1. half = 1 /\ half' = 2 /\ PortTypeOK /\ Port!QueuedOnce
  BY DEF PortIInv, Port!Phi1
<1>2. /\ count' = n /\ loaded' = bytes[1] /\ pending' = bytes[2]
      /\ unnoted' = IF Port!Flips THEN 1 ELSE IF unnoted = 3 THEN 3 ELSE unnoted + 1
      /\ cnt' = IF Port!Flips THEN 1 - cnt ELSE cnt
      /\ cntHistory' = IF Port!Flips THEN Port!Noted(unnoted) ELSE cntHistory
      /\ line' = <<cnt', line[1], line[2]>>
      /\ Port!Passes(q)
  BY DEF Port!Phi1
<1>3. /\ bytesOwed' = IF Port!Due(queue, "sp") THEN bytesOwed - 1 ELSE bytesOwed
      /\ reset' = (reset /\ ~Port!Queued(queue', "flipCnt"))
      /\ UNCHANGED <<output, forceFinish, finished>>
  BY DEF Port!Phi1
<1>4. /\ Once(q) /\ Deferred(q, 1)
      /\ Port!Queued(q, "sp") <=> Port!Completes \/ SpLeft(queue)
      /\ \A k \in Int : <<"sp", k>> \in q => (Port!Completes /\ k = 4) \/ <<"sp", k>> \in queue
      /\ Port!Queued(q, "flipCnt") => Port!Queued(queue, "flipCnt") \/ output
  <2> HIDE DEF n
  <2>1. CASE Port!Reaches(passes)
    BY <1>1, <2>1, AfterEventsQueue, HandleQueue DEF Port!Reaches
  <2>2. CASE ~Port!Reaches(passes)
    BY <1>1, <2>2, AfterEventsQueue
  <2> QED BY <2>1, <2>2
<1> HIDE DEF q
<1>5. /\ queue' \subseteq Slots(2) /\ Port!QueuedOnce'
      /\ Port!Queued(queue', "sp") <=> Port!Completes \/ SpLeft(queue)
      /\ \A k \in Int : <<"sp", k>> \in queue' => (Port!Completes /\ k = 3) \/ <<"sp", k + 1>> \in queue
      /\ Port!Queued(queue', "flipCnt") => Port!Queued(queue, "flipCnt") \/ output
      /\ flipDue' = IF Port!Queued(queue', "flipCnt") \/ flipDue = Port!Never THEN Port!Never ELSE flipDue - 1
  BY <1>1, <1>2, <1>4, PassesQueue DEF PortEvent
<1>6. /\ Port!Flipped \in 0 .. 16 /\ Port!Flipped <= count /\ Port!Flipped >= count - 1
      /\ Port!Completes => loaded /\ Port!Flipped = 1 /\ ~Port!Queued(queue, "sp")
  <2>1. Port!Completes => ~Port!Queued(queue, "sp")
    <3>1. ASSUME Port!Completes, NEW x \in queue, x[1] = "sp"  PROVE FALSE
      <4>1. x[2] \in 0 .. 3 /\ x = <<"sp", x[2]>>
        BY <1>1, <3>1, SlotsPairs DEF PortTypeOK
      <4> QED BY <3>1, <4>1 DEF Port!Completes, PortIInv, Shifting
    <3> QED BY <3>1 DEF Port!Queued
  <2> QED BY <1>1, <2>1 DEF Port!Flipped, Port!Completes, Port!Flips, PortTypeOK, PortIInv, Shifting
<1>7. /\ bytes[1] \in BOOLEAN /\ bytes[2] \in BOOLEAN /\ (bytes[2] => bytes[1])
      /\ Port!Completes => bytes[1] = pending /\ bytes[2] = FALSE
      /\ ~Port!Completes => bytes[1] = loaded /\ bytes[2] = pending
  BY <1>1 DEF Port!NextByte, PortTypeOK, PortIInv, Shifting
<1>8. n \in 0 .. 16 /\ ((n = 16 /\ bytes[1]) \/ n = Port!Flipped)
  BY <1>6 DEF Port!Loads
<1> HIDE DEF bytes, n
<1>9. PortTypeOK'
  BY <1>1, <1>2, <1>3, <1>5, <1>7, <1>8 DEF PortTypeOK
<1>10. Shifting'
  <2>1. count' >= 2 => loaded'
    BY <1>1, <1>2, <1>6, <1>7, <1>8 DEF PortIInv, Shifting, PortTypeOK
  <2>2. ASSUME NEW k \in 0 .. 3, <<"sp", k>> \in queue'  PROVE count' <= 1 \/ count' >= 13 + k
    <3>1. CASE Port!Completes /\ k = 3
      BY <1>2, <1>6, <1>8, <3>1
    <3>2. CASE <<"sp", k + 1>> \in queue
      <4>1. k + 1 \in 0 .. 3
        BY <1>1, <2>2, <3>2, SlotsPairs DEF PortTypeOK
      <4>2. count <= 1 \/ count >= 13 + (k + 1)
        BY <3>2, <4>1 DEF PortIInv, Shifting
      <4> QED BY <1>1, <1>2, <1>6, <1>8, <4>2 DEF PortTypeOK
    <3> QED BY <1>5, <2>2, <3>1, <3>2
  <2> QED BY <1>2, <1>7, <2>1, <2>2 DEF Shifting
<1>11. Port!BytesAnnounced'
  <2>1. Port!Queued(queue, "sp") => Port!Due(queue, "sp") \/ SpLeft(queue)
    BY DEF SpLeft
  <2>2. Port!Due(queue, "sp") => Port!Queued(queue, "sp") /\ ~SpLeft(queue)
    BY DEF Port!Due, SpLeft, Port!Queued
  <2>3. bytesOwed = Port!AsInt(loaded) + Port!AsInt(pending) + Port!AsInt(Port!Queued(queue, "sp"))
    BY DEF PortIInv, Port!BytesAnnounced
  <2>4. Port!Queued(queue', "sp") <=> Port!Completes \/ SpLeft(queue)
    BY <1>5
  <2>5. bytesOwed' = Port!AsInt(loaded') + Port!AsInt(pending') + Port!AsInt(Port!Queued(queue', "sp"))
    <3>1. CASE Port!Completes
      BY <1>2, <1>3, <1>6, <1>7, <2>2, <2>3, <2>4, <3>1 DEF Port!AsInt
    <3>2. CASE ~Port!Completes /\ SpLeft(queue)
      BY <1>2, <1>3, <1>7, <2>2, <2>3, <2>4, <3>2 DEF Port!AsInt, SpLeft
    <3>3. CASE ~Port!Completes /\ ~SpLeft(queue)
      BY <1>2, <1>3, <1>7, <2>1, <2>2, <2>3, <2>4, <3>3 DEF Port!AsInt
    <3> QED BY <3>1, <3>2, <3>3
  <2> QED BY <2>5 DEF Port!BytesAnnounced
<1>12. LineKnown'
  <2>1. unnoted \in 0 .. 3 /\ line = Port!Noted(unnoted)
    BY <1>1 DEF PortTypeOK, PortIInv, LineKnown
  <2>2. CASE Port!Flips
    BY <1>2, <2>1, <2>2 DEF LineKnown, Port!Noted
  <2>3. CASE ~Port!Flips
    BY <1>2, <2>1, <2>3, NotedLater DEF LineKnown, Port!Noted
  <2> QED BY <2>2, <2>3
<1>13. FlipKnown'
  <2>1. FlipKnown
    BY DEF PortIInv
  <2>2. (Port!Queued(queue, "flipCnt") => output /\ flipDue = Port!Never)'
    BY <1>3, <1>5, <2>1 DEF FlipKnown
  <2>3. (reset \/ forceFinish = finished)'
    BY <1>1, <1>3, <2>1, <2>2 DEF FlipKnown, PortTypeOK
  <2>4. (reset \/ flipDue \in StaleTimes)'
    <3>1. CASE Port!Queued(queue', "flipCnt")
      BY <1>1, <1>5, <3>1 DEF StaleTimes
    <3>2. CASE ~Port!Queued(queue', "flipCnt") /\ ~reset
      <4>1. flipDue \in StaleTimes /\ output \in BOOLEAN
        BY <1>1, <2>1, <3>2 DEF FlipKnown, PortTypeOK
      <4>2. flipDue' = IF flipDue = Port!Never THEN Port!Never ELSE flipDue - 1
        BY <1>5, <3>2
      <4> QED BY <1>1, <1>3, <4>1, <4>2 DEF StaleTimes, Port!Never
    <3>3. CASE ~Port!Queued(queue', "flipCnt") /\ reset
      BY <1>3, <3>3
    <3> QED BY <3>1, <3>2, <3>3
  <2> QED BY <1>3, <2>1, <2>2, <2>3, <2>4 DEF FlipKnown
<1> QED BY <1>5, <1>9, <1>10, <1>11, <1>12, <1>13 DEF PortIInv

\* A half-cycle in which the CPU does nothing but, perhaps, write to SDR.
LEMMA NoAccessKeeps ==
  ASSUME PortIInv, NEW q, Port!NoAccess(q), Once(q), Deferred(q, 2),
         Port!Queued(q, "sp") <=> SpLeft(queue),
         \A k \in Int : <<"sp", k>> \in q => <<"sp", k>> \in queue,
         Port!Queued(q, "flipCnt") <=> Port!Queued(queue, "flipCnt")
  PROVE  PortIInv'
<1>1. half = 2 /\ half' = 1 /\ PortTypeOK /\ Port!QueuedOnce /\ Shifting /\ FlipKnown
  BY DEF PortIInv, Port!NoAccess
<1>2. /\ loaded' = Port!Loaded /\ pending' = Port!Waiting /\ bytesOwed' = Port!Accepts /\ Port!Passes(q)
      /\ UNCHANGED <<output, count, cnt, forceFinish, cntHistory, unnoted, line, finished, reset>>
  BY DEF Port!NoAccess
<1>3. /\ queue' \subseteq Slots(1) /\ Port!QueuedOnce'
      /\ Port!Queued(queue', "sp") <=> SpLeft(queue)
      /\ \A k \in Int : <<"sp", k>> \in queue' => <<"sp", k + 1>> \in queue
      /\ Port!Queued(queue', "flipCnt") <=> Port!Queued(queue, "flipCnt")
      /\ flipDue' = IF Port!Queued(queue, "flipCnt") \/ flipDue = Port!Never THEN Port!Never ELSE flipDue - 1
  BY <1>1, <1>2, PassesQueue DEF PortEvent
<1>4. Port!Loaded \in BOOLEAN /\ Port!Waiting \in BOOLEAN /\ Port!Starts \in BOOLEAN
  BY <1>1 DEF Port!Loaded, Port!Waiting, Port!Starts, Port!Due, PortTypeOK
<1>5. PortTypeOK'
  BY <1>1, <1>2, <1>3, <1>4 DEF PortTypeOK
<1>6. Shifting'
  <2>1. (pending => loaded)' /\ (count >= 2 => loaded)'
    BY <1>1, <1>2 DEF Shifting, Port!Loaded, Port!Waiting
  <2>2. ASSUME NEW k \in 0 .. 3, <<"sp", k>> \in queue'  PROVE count' <= 1 \/ count' >= 13 + k
    <3>1. <<"sp", k + 1>> \in queue
      BY <1>3, <2>2
    <3>2. k + 1 \in 0 .. 3
      BY <1>1, <3>1, SlotsPairs DEF PortTypeOK
    <3>3. count <= 1 \/ count >= 13 + (k + 1)
      BY <1>1, <3>1, <3>2 DEF Shifting
    <3> QED BY <1>1, <1>2, <3>3 DEF PortTypeOK
  <2> QED BY <2>1, <2>2 DEF Shifting
<1>7. Port!BytesAnnounced'
  <2>1. Port!Queued(queue, "sp") => Port!Due(queue, "sp") \/ SpLeft(queue)
    BY DEF SpLeft
  <2>2. Port!Due(queue, "sp") => Port!Queued(queue, "sp") /\ ~SpLeft(queue)
    BY DEF Port!Due, SpLeft, Port!Queued
  <2>3. bytesOwed = Port!AsInt(loaded) + Port!AsInt(pending) + Port!AsInt(Port!Queued(queue, "sp"))
    BY DEF PortIInv, Port!BytesAnnounced
  <2>4. Port!AsInt(loaded') + Port!AsInt(pending') =
          Port!AsInt(loaded) + Port!AsInt(pending) + (IF Port!Starts /\ ~(loaded /\ pending) THEN 1 ELSE 0)
    <3>1. loaded \in BOOLEAN /\ pending \in BOOLEAN /\ (pending => loaded)
      BY <1>1 DEF PortTypeOK, Shifting
    <3>2. CASE ~Port!Starts
      <4>1. loaded' = loaded /\ pending' = pending
        BY <1>2, <3>1, <3>2 DEF Port!Loaded, Port!Waiting
      <4> QED BY <3>2, <4>1 DEF Port!AsInt
    <3>3. CASE Port!Starts /\ ~loaded
      <4>1. loaded' = TRUE /\ pending' = FALSE /\ pending = FALSE
        BY <1>2, <3>1, <3>3 DEF Port!Loaded, Port!Waiting
      <4> QED BY <3>3, <4>1 DEF Port!AsInt
    <3>4. CASE Port!Starts /\ loaded
      <4>1. loaded' = TRUE /\ pending' = TRUE
        BY <1>2, <3>1, <3>4 DEF Port!Loaded, Port!Waiting
      <4> QED BY <3>1, <3>4, <4>1 DEF Port!AsInt
    <3> QED BY <3>1, <3>2, <3>3, <3>4
  <2>5. Port!AsInt(Port!Queued(queue', "sp")) = Port!AsInt(Port!Queued(queue, "sp")) - (IF Port!Due(queue, "sp") THEN 1 ELSE 0)
    <3>1. CASE Port!Due(queue, "sp")
      BY <1>3, <2>2, <3>1 DEF Port!AsInt
    <3>2. CASE ~Port!Due(queue, "sp")
      <4>1. Port!Queued(queue', "sp") <=> Port!Queued(queue, "sp")
        BY <1>3, <3>2 DEF SpLeft
      <4> QED BY <3>2, <4>1 DEF Port!AsInt
    <3> QED BY <3>1, <3>2
  <2>6. bytesOwed' = bytesOwed + (IF Port!Starts /\ ~(loaded /\ pending) THEN 1 ELSE 0)
                       - (IF Port!Due(queue, "sp") THEN 1 ELSE 0)
    BY <1>2 DEF Port!Accepts
  <2>7. \A b : Port!AsInt(b) \in {0, 1}
    BY DEF Port!AsInt
  <2> QED BY <2>3, <2>4, <2>5, <2>6, <2>7 DEF Port!BytesAnnounced
<1>8. LineKnown'
  BY <1>2 DEF PortIInv, LineKnown, Port!Noted
<1>9. FlipKnown'
  <2>1. reset \/ (flipDue \in StaleTimes /\ output \in BOOLEAN)
    BY <1>1 DEF FlipKnown, PortTypeOK
  <2>2. (reset \/ flipDue \in StaleTimes)'
    BY <1>1, <1>2, <1>3, <2>1 DEF StaleTimes, Port!Never
  <2> QED BY <1>1, <1>2, <1>3, <2>2 DEF FlipKnown
<1> QED BY <1>3, <1>5, <1>6, <1>7, <1>8, <1>9 DEF PortIInv

LEMMA IdleKeeps == ASSUME PortIInv, Port!Idle  PROVE PortIInv'
<1>1. PortTypeOK /\ Port!QueuedOnce /\ half = 2 /\ Port!NoAccess(Port!Fired(queue))
  BY DEF PortIInv, Port!Idle, Port!NoAccess
<1> QED BY <1>1, FiredQueue, NoAccessKeeps DEF Port!Fired

\* startSdr is not on the queue in the half-cycle that schedules it.
LEMMA WriteSdrKeeps == ASSUME PortIInv, Port!WriteSdr  PROVE PortIInv'
<1> DEFINE q == Port!After(Port!Fired(queue), "startSdr", 2)
<1>1. PortTypeOK /\ Port!QueuedOnce /\ half = 2 /\ Port!NoAccess(q)
  BY DEF PortIInv, Port!WriteSdr, Port!NoAccess
<1>2. Once(q)
  BY <1>1, FiredQueue, AfterOnce
<1>3. Deferred(q, 2)
  BY <1>1, FiredQueue DEF Port!After, Deferred
<1>4. (Port!Queued(q, "sp") <=> SpLeft(queue)) /\ (Port!Queued(q, "flipCnt") <=> Port!Queued(queue, "flipCnt"))
  BY <1>1, FiredQueue, QueuedAfter
<1>5. \A k \in Int : <<"sp", k>> \in q => <<"sp", k>> \in queue
  BY DEF Port!After, Port!Fired
<1> HIDE DEF q
<1> QED BY <1>1, <1>2, <1>3, <1>4, <1>5, NoAccessKeeps

\* What remaining() tells of a flip in the next half-cycle.
LEMMA FlipRemains ==
  ASSUME PortTypeOK, Port!QueuedOnce, FlipKnown, output, half = 2, ~reset
  PROVE  Port!Remaining(queue) = 1 <=> <<"flipCnt", 1>> \in queue
<1>1. queue \subseteq PortEvent \X (0 .. 3)
  BY SlotsPairs DEF PortTypeOK
<1>2. CASE Port!Queued(queue, "flipCnt")
  <2> DEFINE x == CHOOSE x \in queue : x[1] = "flipCnt"
  <2>1. x \in queue /\ x[1] = "flipCnt" /\ Port!Remaining(queue) = x[2]
    BY <1>2 DEF Port!Queued, Port!Remaining
  <2> HIDE DEF x
  <2>2. x = <<"flipCnt", x[2]>>
    BY <1>1, <2>1
  <2>3. <<"flipCnt", 1>> \in queue => <<"flipCnt", 1>> = x
    BY <2>1 DEF Port!QueuedOnce
  <2> QED BY <2>1, <2>2, <2>3
<1>3. CASE ~Port!Queued(queue, "flipCnt")
  <2>1. Port!Remaining(queue) = flipDue /\ flipDue = Port!Never
    BY <1>3 DEF Port!Remaining, FlipKnown, StaleTimes
  <2>2. <<"flipCnt", 1>> \notin queue
    BY <1>3 DEF Port!Queued
  <2> QED BY <2>1, <2>2 DEF Port!Never
<1> QED BY <1>2, <1>3

\* The trigger time of a flip that a switch cancels lies one or three half-cycles ahead.
LEMMA FlipCancelled ==
  ASSUME PortTypeOK, FlipKnown, half = 2, ~reset
  PROVE  Port!Remaining(queue) \in {Port!Never, 1} \cup (IF output THEN {3} ELSE {})
<1>1. CASE Port!Queued(queue, "flipCnt")
  <2> DEFINE x == CHOOSE x \in queue : x[1] = "flipCnt"
  <2>1. x \in queue /\ x[1] = "flipCnt" /\ Port!Remaining(queue) = x[2] /\ output
    BY <1>1 DEF Port!Queued, Port!Remaining, FlipKnown
  <2> HIDE DEF x
  <2>2. x[2] \in {1, 3}
    BY <2>1 DEF PortTypeOK, Slots, FlipTimes
  <2> QED BY <2>1, <2>2
<1>2. CASE ~Port!Queued(queue, "flipCnt")
  BY <1>2 DEF Port!Remaining, FlipKnown, StaleTimes
<1> QED BY <1>1, <1>2

LEMMA SwitchKeeps == ASSUME PortIInv, Port!Switch  PROVE PortIInv'
<1> DEFINE ends == ~output /\ forceFinish
           kept == Port!Cancel(Port!Cancel(Port!Fired(queue), "flipCnt"), "flipFake")
           q == IF ends THEN Port!After(Port!Cancel(kept, "sp"), "sp", 4) ELSE kept
<1>1. half = 2 /\ half' = 1 /\ PortTypeOK /\ Port!QueuedOnce /\ FlipKnown
  BY DEF PortIInv, Port!Switch
<1>2. /\ output' = ~output
      /\ forceFinish' = (output /\ Port!Finishes(Port!Noted(unnoted)))
      /\ finished' = (output /\ (Port!LineLow \/ Port!FlipComes))
      /\ queue' = Port!HalfCycle(q)
      /\ flipDue' = IF Port!Remaining(queue) = Port!Never THEN Port!Never ELSE Port!Remaining(queue) - 1
      /\ bytesOwed' = IF ends \/ (Port!Queued(queue, "sp") /\ ~Port!Due(queue, "sp")) THEN 1 ELSE 0
      /\ reset' = reset
  BY DEF Port!Switch
<1>3. unnoted' = 0 /\ count' = 0 /\ loaded' = FALSE /\ pending' = FALSE
  BY DEF Port!Switch
<1>4. /\ Once(kept) /\ Deferred(kept, 2) /\ ~Port!Queued(kept, "flipCnt")
      /\ Port!Queued(kept, "sp") <=> SpLeft(queue)
  <2>1. Once(Port!Fired(queue)) /\ Deferred(Port!Fired(queue), 2) /\ (Port!Queued(Port!Fired(queue), "sp") <=> SpLeft(queue))
    BY <1>1, FiredQueue
  <2>2. Once(kept)
    BY <2>1, SubsetOnce
  <2>3. kept \subseteq Port!Fired(queue)
    BY DEF Port!Cancel
  <2>4. ~Port!Queued(kept, "flipCnt") /\ (Port!Queued(kept, "sp") <=> Port!Queued(Port!Fired(queue), "sp"))
    BY DEF Port!Cancel, Port!Queued
  <2> QED BY <2>1, <2>2, <2>3, <2>4 DEF Deferred
<1> HIDE DEF kept
<1>5. /\ Once(q) /\ Deferred(q, 2) /\ ~Port!Queued(q, "flipCnt")
      /\ Port!Queued(q, "sp") <=> ends \/ SpLeft(queue)
  <2>1. CASE ends
    <3>1. q = Port!After(Port!Cancel(kept, "sp"), "sp", 4)
      BY <2>1
    <3>2. Once(Port!Cancel(kept, "sp")) /\ ~Port!Queued(Port!Cancel(kept, "sp"), "sp") /\ Deferred(Port!Cancel(kept, "sp"), 2)
      BY <1>4, SubsetOnce DEF Deferred
    <3>3. Once(q)
      BY <3>1, <3>2, AfterOnce
    <3>4. Deferred(q, 2)
      BY <3>1, <3>2 DEF Deferred, Port!After
    <3> QED BY <1>4, <2>1, <3>1, <3>3, <3>4, SpAfter DEF PortEvent
  <2>2. CASE ~ends
    BY <1>4, <2>2
  <2> QED BY <2>1, <2>2
<1> HIDE DEF q
<1>6. /\ queue' \subseteq Slots(1) /\ Port!QueuedOnce'
      /\ ~Port!Queued(queue', "flipCnt")
      /\ Port!Queued(queue', "sp") <=> ends \/ SpLeft(queue)
  <2>1. Port!HalfCycle(q) \subseteq Slots(1) /\ q \subseteq PortEvent \X (0 .. 4)
    BY <1>5, HalfCycleSlots DEF Deferred
  <2> QED BY <1>2, <1>5, <2>1, HalfCycleOnce DEF Port!QueuedOnce, Once, PortEvent
<1>7. PortTypeOK'
  <2>1. forceFinish' \in BOOLEAN /\ finished' \in BOOLEAN /\ output' \in BOOLEAN /\ reset' \in BOOLEAN
    BY <1>1, <1>2 DEF PortTypeOK
  <2>2. half' \in {1, 2} /\ count' \in 0 .. 16 /\ unnoted' \in 0 .. 3 /\ queue' \subseteq Slots(half')
    BY <1>1, <1>3, <1>6
  <2>3. loaded' \in BOOLEAN /\ pending' \in BOOLEAN
    BY <1>3
  <2> QED BY <2>1, <2>2, <2>3 DEF PortTypeOK
<1>8. Shifting' /\ Port!BytesAnnounced'
  BY <1>2, <1>3, <1>6 DEF Shifting, Port!BytesAnnounced, Port!AsInt, SpLeft
<1>9. LineKnown'
  BY DEF PortIInv, LineKnown, Port!Noted, Port!Switch
<1>10. FlipKnown'
  <2>1. (reset \/ forceFinish = finished)'
    <3>1. CASE ~output \/ reset
      BY <1>1, <1>2, <3>1 DEF PortTypeOK
    <3>2. CASE output /\ ~reset
      <4>1. Port!Remaining(queue) = 1 <=> <<"flipCnt", 1>> \in queue
        BY <1>1, <3>2, FlipRemains
      <4>2. Port!Noted(unnoted) = line
        BY DEF PortIInv, LineKnown
      <4>3. Port!Finishes(Port!Noted(unnoted)) <=> Port!LineLow \/ Port!FlipComes
        BY <4>1, <4>2 DEF Port!Finishes, Port!LineLow, Port!FlipComes
      <4> QED BY <1>2, <4>3
    <3> QED BY <1>1, <3>1, <3>2 DEF PortTypeOK
  <2>2. (reset \/ flipDue \in StaleTimes)'
    <3>1. CASE ~reset
      <4>1. Port!Remaining(queue) \in {Port!Never, 1} \cup (IF output THEN {3} ELSE {}) /\ output \in BOOLEAN
        BY <1>1, <3>1, FlipCancelled DEF PortTypeOK
      <4>2. CASE output
        <5>1. Port!Remaining(queue) \in {-1, 1, 3} /\ ~output'
          BY <1>2, <4>1, <4>2 DEF Port!Never
        <5> QED BY <1>1, <1>2, <5>1 DEF StaleTimes, Port!Never
      <4>3. CASE ~output
        <5>1. Port!Remaining(queue) \in {-1, 1} /\ output'
          BY <1>2, <4>1, <4>3 DEF Port!Never
        <5> QED BY <1>1, <1>2, <5>1 DEF StaleTimes, Port!Never
      <4> QED BY <4>2, <4>3
    <3>2. CASE reset
      BY <1>2, <3>2
    <3> QED BY <3>1, <3>2
  <2> QED BY <1>1, <1>2, <1>6, <2>1, <2>2 DEF FlipKnown, PortTypeOK
<1> QED BY <1>6, <1>7, <1>8, <1>9, <1>10 DEF PortIInv

LEMMA PortNextKeeps == PortIInv /\ [Port!Next]_(Port!vars) => PortIInv'
<1> SUFFICES ASSUME PortIInv, [Port!Next]_(Port!vars)  PROVE PortIInv'
  OBVIOUS
<1>1. CASE UNCHANGED Port!vars
  BY <1>1 DEF Port!vars, PortIInv, PortTypeOK, Port!QueuedOnce, Shifting, Port!BytesAnnounced,
              LineKnown, Port!Noted, FlipKnown, StaleTimes
<1> QED BY <1>1, Phi1Keeps, IdleKeeps, WriteSdrKeeps, SwitchKeeps, PortResetKeeps
           DEF Port!Next, Port!Cycle

-----------------------------------------------------------------------------
(* The interrupt logic, for any set of flags.                              *)

Pends(e) == Irq!IsPending(e, events)

\* The parts that a read of the register before the last has not disturbed.
Alone == ~overlapped

\* An event is due in this cycle or the next in PHI1, and before the CPU has
\* used the bus not later than in the next.
Entry == [event : Irq!Events, left : 0 .. 2]
Times ==
  /\ events \in Seq(Entry)
  /\ \A i \in DOMAIN events :
       IF phase = "PHI1" THEN events[i].left \in {0, 1}
       ELSE events[i].left = 1 \/ (events[i].left = 2 /\ busUsed)

\* The distance of an event from the last read.
Ages ==
  /\ phase = "PHI1" /\ sinceClear = 0 => events = <<>> /\ icr = {} /\ ~asserted
  /\ \A i \in DOMAIN events :
       /\ events[i].event = "clearIrq" =>
            IF phase = "PHI1" THEN sinceClear = 1 /\ events[i].left = 0
            ELSE sinceClear = 0 /\ events[i].left = 1 /\ busUsed
       /\ events[i].event = "setIrq" =>
            /\ Model = "8521" /\ events[i].left < 2
            /\ IF phase = "PHI1" THEN sinceClear \in {1, 2 - events[i].left} ELSE sinceClear < 2
       /\ events[i].event = "updateIdr" /\ Alone => events[i].left + sinceClear = 2
       /\ events[i].event = "interrupt" /\ Alone /\ Model # "8521" /\ ~Pends("updateIdr") =>
            events[i].left + sinceClear >= 2

\* Which of two events comes first.
Order ==
  \A i, j \in DOMAIN events :
    /\ events[i].event = "setIrq" /\ events[j].event = "interrupt" => i < j
    /\ events[i].event = "updateIdr" /\ events[j].event = "interrupt" /\ Alone =>
         i < j \/ events[j].left < events[i].left

\* What a read will find once the last has taken effect.
Remains == IF Pends("updateIdr") THEN idrTemp ELSE idr

\* setIrq will bring to the line a request that can be seen.
Live(i) ==
  /\ events[i].event = "setIrq"
  /\ sinceClear = IF phase = "PHI1" /\ events[i].left = 0 THEN 2 ELSE 1
Delayed ==
  \A i \in DOMAIN events :
    /\ phase = "PHI1" /\ events[i].event = "setIrq" /\ events[i].left = 1 =>
         /\ "REQUEST" \in idr
         /\ \A j \in DOMAIN events :
              events[j].event = "updateIdr" /\ events[j].left = 0 => "REQUEST" \in idrTemp
    /\ Live(i) /\ Alone => "REQUEST" \in Remains

Flags ==
  Alone =>
    /\ Remains \ {"REQUEST"} = owed /\ owed \subseteq idr
    /\ "REQUEST" \in Remains => "REQUEST" \in idr
    /\ Pends("updateIdr") /\ sinceClear < 2 => owed \subseteq late

Line ==
  /\ sinceClear < 2 => Pends("clearIrq") \/ ~asserted
  /\ Alone /\ asserted /\ ~Pends("clearIrq") => "REQUEST" \in Remains
  /\ Alone /\ "REQUEST" \in Remains /\ (~asserted \/ Pends("clearIrq")) =>
       \E i \in DOMAIN events : Live(i)

Signal == Alone /\ (owed \ late) \cap icr # {} => scheduled \/ "REQUEST" \in Remains

LogicIInv == Irq!TypeOK /\ Irq!EventsOnce /\ Times /\ Ages /\ Order /\ Delayed /\ Flags /\ Line /\ Signal

-----------------------------------------------------------------------------
(* The event queue.                                                        *)

\* No event is on the queue twice.
Single(q) == \A i, j \in DOMAIN q : q[i].event = q[j].event => i = j

LEMMA EntryTypes ==
  ASSUME NEW q \in Seq(Entry)
  PROVE  \A i \in DOMAIN q : q[i].event \in Irq!Events /\ q[i].left \in 0 .. 2
<1>1. \A i \in DOMAIN q : q[i] \in Entry
  OBVIOUS
<1> QED BY <1>1 DEF Entry

\* An entry is put at the end.
LEMMA Added ==
  ASSUME NEW q \in Seq(Entry), NEW x \in Entry
  PROVE  LET r == Append(q, x)
         IN /\ r \in Seq(Entry) /\ DOMAIN r = 1 .. Len(q) + 1 /\ DOMAIN q = 1 .. Len(q)
            /\ Len(q) \in Nat
            /\ r[Len(q) + 1] = x /\ \A i \in 1 .. Len(q) : r[i] = q[i]
            /\ \A e : Irq!IsPending(e, r) <=> Irq!IsPending(e, q) \/ x.event = e
<1> DEFINE r == Append(q, x)
<1>1. /\ r \in Seq(Entry) /\ DOMAIN r = 1 .. Len(q) + 1 /\ DOMAIN q = 1 .. Len(q)
      /\ Len(q) \in Nat
      /\ r[Len(q) + 1] = x /\ \A i \in 1 .. Len(q) : r[i] = q[i]
  OBVIOUS
<1> HIDE DEF r
<1>2. ASSUME NEW e  PROVE Irq!IsPending(e, r) <=> Irq!IsPending(e, q) \/ x.event = e
  <2>1. ASSUME Irq!IsPending(e, r)  PROVE Irq!IsPending(e, q) \/ x.event = e
    <3>1. PICK i \in DOMAIN r : r[i].event = e
      BY <2>1 DEF Irq!IsPending
    <3>2. CASE i = Len(q) + 1
      BY <1>1, <3>1, <3>2
    <3>3. CASE i \in DOMAIN q
      BY <1>1, <3>1, <3>3 DEF Irq!IsPending
    <3> QED BY <1>1, <3>1, <3>2, <3>3
  <2>2. ASSUME Irq!IsPending(e, q)  PROVE Irq!IsPending(e, r)
    <3>1. PICK i \in DOMAIN q : q[i].event = e
      BY <2>2 DEF Irq!IsPending
    <3>2. i \in DOMAIN r /\ r[i].event = e
      BY <1>1, <3>1
    <3> QED BY <3>2 DEF Irq!IsPending
  <2>3. ASSUME x.event = e  PROVE Irq!IsPending(e, r)
    <3>1. Len(q) + 1 \in DOMAIN r /\ r[Len(q) + 1].event = e
      BY <1>1, <2>3
    <3> QED BY <3>1 DEF Irq!IsPending
  <2> QED BY <2>1, <2>2, <2>3
<1> QED BY <1>1, <1>2 DEF r

\* Where an entry was before the one at i was taken out.
Before(i, k) == IF k < i THEN k ELSE k + 1

\* The entry at i is taken out.
LEMMA Removed ==
  ASSUME NEW q \in Seq(Entry), NEW i \in DOMAIN q
  PROVE  LET r == Irq!RemoveAt(q, i)
         IN /\ r \in Seq(Entry) /\ Len(r) = Len(q) - 1 /\ Len(q) \in Nat \ {0}
            /\ DOMAIN r = 1 .. Len(q) - 1 /\ DOMAIN q = 1 .. Len(q)
            /\ \A k \in DOMAIN r : r[k] = q[Before(i, k)] /\ Before(i, k) \in DOMAIN q \ {i}
            /\ \A m \in DOMAIN q \ {i} : \E k \in DOMAIN r : Before(i, k) = m
            /\ Single(q) => /\ Single(r)
                            /\ \A e : Irq!IsPending(e, r) <=> Irq!IsPending(e, q) /\ e # q[i].event
<1> DEFINE r == Irq!RemoveAt(q, i)
           a == SubSeq(q, 1, i - 1)
           b == SubSeq(q, i + 1, Len(q))
<1>1. Len(q) \in Nat /\ DOMAIN q = 1 .. Len(q) /\ i \in 1 .. Len(q)
  OBVIOUS
<1>2. a \in Seq(Entry) /\ Len(a) = i - 1 /\ \A k \in 1 .. i - 1 : a[k] = q[k]
  BY <1>1, SubSeqProperties
<1>3. b \in Seq(Entry) /\ Len(b) = Len(q) - i /\ \A k \in 1 .. Len(q) - i : b[k] = q[i + k]
  BY <1>1, SubSeqProperties, SMTT(30)
<1>4. r = a \o b
  BY DEF Irq!RemoveAt
<1> HIDE DEF a, b, r
<1>9. /\ r \in Seq(Entry) /\ Len(r) = Len(a) + Len(b)
      /\ \A k \in 1 .. Len(a) + Len(b) : r[k] = IF k <= Len(a) THEN a[k] ELSE b[k - Len(a)]
  BY <1>2, <1>3, <1>4, ConcatProperties
<1>5. r \in Seq(Entry) /\ Len(r) = Len(q) - 1 /\ DOMAIN r = 1 .. Len(q) - 1
  BY <1>1, <1>2, <1>3, <1>9
<1>6. ASSUME NEW k \in DOMAIN r  PROVE r[k] = q[Before(i, k)] /\ Before(i, k) \in DOMAIN q \ {i}
  <2>1. CASE k < i
    BY <1>1, <1>2, <1>3, <1>5, <1>9, <2>1, SMTT(30) DEF Before
  <2>2. CASE k >= i
    <3>1. k - (i - 1) \in 1 .. Len(q) - i /\ i + (k - (i - 1)) = k + 1
      BY <1>1, <1>5, <2>2
    <3>3. k \in 1 .. Len(a) + Len(b) /\ ~(k <= Len(a)) /\ Len(a) = i - 1
      BY <1>1, <1>2, <1>3, <1>5, <2>2, SMTT(30)
    <3>2. r[k] = b[k - (i - 1)]
      BY <1>9, <3>3
    <3> QED BY <1>1, <1>3, <1>5, <2>2, <3>1, <3>2 DEF Before
  <2> QED BY <1>1, <1>5, <2>1, <2>2
<1>7. ASSUME NEW m \in DOMAIN q \ {i}  PROVE \E k \in DOMAIN r : Before(i, k) = m
  <2>1. CASE m < i
    BY <1>1, <1>5, <2>1 DEF Before
  <2>2. CASE m > i
    <3>1. m - 1 \in DOMAIN r /\ Before(i, m - 1) = m
      BY <1>1, <1>5, <2>2 DEF Before
    <3> QED BY <3>1
  <2> QED BY <1>1, <2>1, <2>2
<1>8. ASSUME Single(q)
      PROVE  Single(r) /\ \A e : Irq!IsPending(e, r) <=> Irq!IsPending(e, q) /\ e # q[i].event
  <2>1. Single(r)
    BY <1>1, <1>5, <1>6, <1>8, SMTT(30) DEF Single, Before
  <2>2. ASSUME NEW e, Irq!IsPending(e, r)  PROVE Irq!IsPending(e, q) /\ e # q[i].event
    <3>1. PICK k \in DOMAIN r : r[k].event = e
      BY <2>2 DEF Irq!IsPending
    <3> QED BY <1>6, <1>8, <3>1 DEF Irq!IsPending, Single
  <2>3. ASSUME NEW e, Irq!IsPending(e, q), e # q[i].event  PROVE Irq!IsPending(e, r)
    <3>1. PICK m \in DOMAIN q : q[m].event = e
      BY <2>3 DEF Irq!IsPending
    <3>2. PICK k \in DOMAIN r : Before(i, k) = m
      BY <1>7, <2>3, <3>1
    <3> QED BY <1>6, <3>1, <3>2 DEF Irq!IsPending
  <2> QED BY <2>1, <2>2, <2>3
<1> QED BY <1>1, <1>5, <1>6, <1>7, <1>8 DEF r

-----------------------------------------------------------------------------
(* The inductive invariant.                                                *)

\* Nothing is pending.
LEMMA EmptyQueue ==
  /\ <<>> \in Seq(Entry) /\ DOMAIN <<>> = {}
  /\ \A e : ~Irq!IsPending(e, <<>>)
<1>1. <<>> \in Seq(Entry) /\ DOMAIN <<>> = {}
  OBVIOUS
<1> QED BY <1>1 DEF Irq!IsPending

LEMMA Initially ==
  ASSUME Irq!Init  PROVE LogicIInv
<1>1. events \in Seq(Entry) /\ DOMAIN events = {} /\ \A e : ~Irq!IsPending(e, events)
  BY EmptyQueue DEF Irq!Init
<1>2. Irq!TypeOK /\ Irq!EventsOnce
  <2>1. Irq!TypeOK
    <3>1. ({busUsed, scheduled, asserted} \subseteq BOOLEAN)
      BY <1>1 DEF Irq!Init
    <3>2. (\A i \in DOMAIN events : events[i].event \in Irq!Events /\ events[i].left \in 0 .. 2)
      BY <1>1
    <3> QED BY ONLY <1>1, <3>1, <3>2, Irq!Init DEF Irq!Init, Irq!TypeOK
  <2>2. Irq!EventsOnce
    BY <1>1 DEF Irq!Init, Irq!EventsOnce
  <2> QED BY <2>1, <2>2
<1>4. Times /\ Order /\ Delayed
  BY <1>1 DEF Irq!Init, Times, Order, Delayed
<1>3. Ages /\ Flags /\ Line /\ Signal
  BY <1>1 DEF Irq!Init, Ages, Flags, Line, Signal, Remains, Pends
<1> QED BY <1>2, <1>3, <1>4 DEF LogicIInv

LEMMA ResetStep ==
  ASSUME LogicIInv, Irq!Reset \/ Irq!SetModel  PROVE LogicIInv'
<1>1. Model' \in Models /\ idrTemp' \subseteq Source \cup {"REQUEST"} /\ Irq!Cleared
  BY DEF LogicIInv, Irq!TypeOK, Irq!Reset, Irq!SetModel
<1>2. events' \in Seq(Entry) /\ DOMAIN events' = {} /\ \A e : ~Irq!IsPending(e, events')
  BY <1>1, EmptyQueue DEF Irq!Cleared
<1>3. Irq!TypeOK' /\ Irq!EventsOnce'
  <2>1. Irq!TypeOK'
    <3>1. ({busUsed, scheduled, asserted} \subseteq BOOLEAN)'
      BY <1>1 DEF Irq!Cleared
    <3>2. (\A i \in DOMAIN events : events[i].event \in Irq!Events /\ events[i].left \in 0 .. 2)'
      BY <1>2
    <3> QED BY ONLY <1>1, <3>1, <3>2 DEF Irq!Cleared, Irq!TypeOK
  <2>2. Irq!EventsOnce'
    BY <1>1, <1>2 DEF Irq!Cleared, Irq!EventsOnce
  <2> QED BY <2>1, <2>2
<1>5. Times' /\ Order' /\ Delayed'
  BY <1>1, <1>2 DEF Irq!Cleared, Times, Order, Delayed
<1>4. Ages' /\ Flags' /\ Line' /\ Signal'
  BY <1>1, <1>2 DEF Irq!Cleared, Ages, Flags, Line, Signal, Remains, Pends
<1> QED BY <1>3, <1>4, <1>5 DEF LogicIInv

\* The first half of the cycle has no event left.
LEMMA HalfCycleStep ==
  ASSUME LogicIInv, Irq!HalfCycle, UNCHANGED Model  PROVE LogicIInv'
<1> USE DEF LogicIInv
<1>1. Irq!TypeOK' /\ Irq!EventsOnce'
  BY DEF Irq!TypeOK, Irq!EventsOnce, Irq!HalfCycle
<1>2. Times'
  BY DEF Times, Irq!HalfCycle
<1>3. Ages'
  BY DEF Times, Ages, Irq!HalfCycle, Irq!history, Alone, Pends, Irq!TypeOK
<1>4. Order'
  BY DEF Order, Irq!HalfCycle, Irq!history, Alone
<1>5. Delayed'
  BY DEF Delayed, Irq!HalfCycle, Irq!history, Alone, Live, Remains, Pends, Ages, Times
<1>6. Flags'
  BY DEF Flags, Irq!HalfCycle, Irq!history, Alone, Remains, Pends
<1>7. Line' /\ Signal'
  BY DEF Line, Signal, Irq!HalfCycle, Irq!history, Alone, Live, Remains, Pends, Ages, Times
<1> QED BY <1>1, <1>2, <1>3, <1>4, <1>5, <1>6, <1>7

\* What becomes of the queue when the interrupt is scheduled, and of all else but it.
LEMMA InterruptScheduled ==
  ASSUME Irq!TypeOK, Irq!EventsOnce, Times, Ages, Order,
         events' = Irq!ScheduleInterrupt(Irq!Delay, events), scheduled' = TRUE,
         UNCHANGED <<Model, phase, sinceClear, overlapped, asserted>>,
         phase = "PHI1" => sinceClear # 0, phase = "PHI2" => busUsed', busUsed' \in BOOLEAN
  PROVE  /\ Irq!EventsOnce' /\ Times' /\ Ages' /\ Order'
         /\ \A i \in DOMAIN events : i \in DOMAIN events' /\ events'[i] = events[i]
         /\ \A i \in DOMAIN events' : events'[i].event # "interrupt" => i \in DOMAIN events
         /\ \A e : e # "interrupt" => (Irq!IsPending(e, events') <=> Irq!IsPending(e, events))
<1>1. CASE scheduled
  <2>1. events' = events
    BY <1>1 DEF Irq!ScheduleInterrupt
  <2>2. Irq!EventsOnce'
    BY <1>1, <2>1 DEF Irq!EventsOnce
  <2>0. phase \in {"PHI1", "PHI2"} /\ phase' = phase /\ (phase = "PHI2" => busUsed' = TRUE)
    BY DEF Irq!TypeOK
  <2>3. Times'
    BY <2>0, <2>1 DEF Times
  <2>4. Ages'
    BY <2>0, <2>1 DEF Ages, Alone, Pends
  <2>5. Order'
    BY <2>1 DEF Order, Alone
  <2> QED BY <2>1, <2>2, <2>3, <2>4, <2>5
<1>2. CASE ~scheduled
  <2> DEFINE x == [event |-> "interrupt", left |-> IF phase = "PHI1" THEN Irq!Delay ELSE Irq!Delay + 1]
             n == Len(events)
  <2>1. events' = Append(events, x)
    BY <1>2 DEF Irq!ScheduleInterrupt, Irq!Scheduled
  <2>2. /\ x \in Entry /\ x.event = "interrupt"
        /\ x.left = IF phase = "PHI1" THEN Irq!Delay ELSE Irq!Delay + 1
        /\ Irq!Delay = IF Model = "8521" THEN 0 ELSE 1
    BY DEF Entry, Irq!Events, Irq!Delay
  <2>3. ~Irq!IsPending("interrupt", events)
    BY <1>2 DEF Irq!EventsOnce
  <2> HIDE DEF x
  <2>4. /\ events' \in Seq(Entry) /\ DOMAIN events' = 1 .. n + 1 /\ DOMAIN events = 1 .. n
        /\ n \in Nat /\ events'[n + 1] = x /\ \A i \in 1 .. n : events'[i] = events[i]
        /\ \A e : Irq!IsPending(e, events') <=> Irq!IsPending(e, events) \/ x.event = e
    BY <2>1, <2>2, Added DEF Times
  <2> HIDE DEF n
  <2>5. \A i \in DOMAIN events : events[i].event # "interrupt"
    BY <2>3 DEF Irq!IsPending
  <2>6. Irq!EventsOnce'
    BY <2>2, <2>4, <2>5 DEF Irq!EventsOnce
  <2>7. Times'
    BY <2>2, <2>4 DEF Times, Irq!TypeOK
  <2>8. Order'
    BY <2>2, <2>4, <2>5 DEF Order, Alone
  <2>9. Ages'
    <3>1. ASSUME NEW i \in DOMAIN events'
          PROVE  /\ events'[i].event = "clearIrq" =>
                      IF phase = "PHI1" THEN sinceClear = 1 /\ events'[i].left = 0
                      ELSE sinceClear = 0 /\ events'[i].left = 1 /\ busUsed'
                 /\ events'[i].event = "setIrq" =>
                      /\ Model = "8521" /\ events'[i].left < 2
                      /\ IF phase = "PHI1" THEN sinceClear \in {1, 2 - events'[i].left}
                         ELSE sinceClear < 2
                 /\ events'[i].event = "updateIdr" /\ Alone => events'[i].left + sinceClear = 2
                 /\ events'[i].event = "interrupt" /\ Alone /\ Model # "8521" /\ ~Pends("updateIdr") =>
                      events'[i].left + sinceClear >= 2
      BY <2>2, <2>4, <2>5 DEF Ages, Irq!TypeOK
    <3>2. Pends("updateIdr")' <=> Pends("updateIdr")
      BY <2>2, <2>4 DEF Pends
    <3>3. Alone' <=> Alone
      BY DEF Alone
    <3> QED BY <3>1, <3>2, <3>3 DEF Ages
  <2>10. /\ \A i \in DOMAIN events : i \in DOMAIN events' /\ events'[i] = events[i]
         /\ \A i \in DOMAIN events' : events'[i].event # "interrupt" => i \in DOMAIN events
         /\ \A e : e # "interrupt" => (Irq!IsPending(e, events') <=> Irq!IsPending(e, events))
    BY <2>2, <2>4
  <2> QED BY <2>6, <2>7, <2>8, <2>9, <2>10
<1> QED BY <1>1, <1>2 DEF Irq!TypeOK

\* An entry is taken out: the distances and the order of those that remain.
LEMMA EntryRemoved ==
  ASSUME Irq!TypeOK, Irq!EventsOnce, Times, Ages, Order, NEW d \in DOMAIN events,
         events' = Irq!RemoveAt(events, d),
         UNCHANGED <<Model, phase, sinceClear, overlapped>>,
         busUsed' = busUsed \/ (phase = "PHI2" /\ busUsed' = TRUE),
         events[d].event = "updateIdr" => sinceClear = 2 \/ ~Alone
  PROVE  /\ Single(events') /\ Times' /\ Order' /\ Ages'
         /\ \A e : Irq!IsPending(e, events') <=> Irq!IsPending(e, events) /\ e # events[d].event
         /\ \A k \in DOMAIN events' :
              /\ Before(d, k) \in DOMAIN events \ {d} /\ events'[k] = events[Before(d, k)]
         /\ \A m \in DOMAIN events \ {d} : \E k \in DOMAIN events' : Before(d, k) = m
<1>1. /\ events' \in Seq(Entry) /\ Len(events) \in Nat \ {0}
      /\ DOMAIN events' = 1 .. Len(events) - 1 /\ DOMAIN events = 1 .. Len(events)
      /\ \A k \in DOMAIN events' :
           events'[k] = events[Before(d, k)] /\ Before(d, k) \in DOMAIN events \ {d}
      /\ \A m \in DOMAIN events \ {d} : \E k \in DOMAIN events' : Before(d, k) = m
      /\ Single(events) =>
           /\ Single(events')
           /\ \A e : Irq!IsPending(e, events') <=> Irq!IsPending(e, events) /\ e # events[d].event
  BY Removed DEF Times
<1>2. Single(events)
  BY DEF Irq!EventsOnce, Single
<1>3. Times'
  BY <1>1 DEF Times, Irq!TypeOK
<1>4. Order'
  <2>1. \A i, j \in DOMAIN events' : Before(d, i) < Before(d, j) => i < j
    BY <1>1 DEF Before
  <2> QED BY <1>1, <2>1 DEF Order, Alone
<1>5. Ages'
  <2>1. phase \in {"PHI1", "PHI2"} /\ (phase = "PHI2" /\ busUsed => busUsed')
    BY DEF Irq!TypeOK
  <2>2. phase = "PHI1" /\ sinceClear = 0 => events' = <<>> /\ icr' = {} /\ ~asserted'
    <3>1. ~(phase = "PHI1" /\ sinceClear = 0)
      BY <1>1 DEF Ages
    <3> QED BY <3>1
  <2>3. events[d].event # "updateIdr" => (Pends("updateIdr")' <=> Pends("updateIdr"))
    BY <1>1, <1>2 DEF Pends
  <2>4. Alone' <=> Alone
    BY DEF Alone
  <2>5. \A k \in DOMAIN events' : events'[k].left \in 0 .. 2
    BY <1>1, EntryTypes
  <2> QED BY <1>1, <2>1, <2>2, <2>3, <2>4, <2>5 DEF Ages
<1> QED BY <1>1, <1>2, <1>3, <1>4, <1>5

LEMMA SetStep ==
  ASSUME LogicIInv, NEW mask \in SUBSET Source, NEW on \in BOOLEAN, Irq!Set(mask, on), UNCHANGED Model
  PROVE  LogicIInv'
<1> DEFINE new == IF on THEN icr \cup mask ELSE icr \ mask
<1>1. /\ Irq!TypeOK /\ Irq!EventsOnce /\ Times /\ Ages /\ Order /\ Delayed /\ Flags /\ Line /\ Signal
  BY DEF LogicIInv
<1>2. /\ phase = "PHI2" /\ ~busUsed /\ icr' = new /\ sinceSet' = 0 /\ busUsed' = TRUE
      /\ late' = IF Irq!ack0 THEN owed ELSE late
      /\ UNCHANGED <<Model, phase, fired, idr, idrTemp, sinceClear, asserted, owed, overlapped>>
  BY DEF Irq!Set
<1>3. new \subseteq Source
  BY <1>1 DEF Irq!TypeOK
<1>4. \/ ~Irq!ack0 /\ idr \cap new # {}
         /\ events' = Irq!ScheduleInterrupt(Irq!Delay, events) /\ scheduled' = TRUE
      \/ ~Irq!ack0 /\ idr \cap new = {} /\ Irq!write0
         /\ events' = (IF scheduled THEN Irq!Cancelled("interrupt", events) ELSE events)
         /\ scheduled' = FALSE
      \/ (Irq!ack0 \/ (idr \cap new = {} /\ ~Irq!write0)) /\ UNCHANGED <<events, scheduled>>
  BY DEF Irq!Set
<1> HIDE DEF new
\* The queue has at most lost, or got, the interrupt.
<1>5. /\ Irq!EventsOnce' /\ Times' /\ Ages' /\ Order' /\ scheduled' \in BOOLEAN
      /\ \A e : e # "interrupt" => (Irq!IsPending(e, events') <=> Irq!IsPending(e, events))
      /\ \A k \in DOMAIN events' : events'[k].event # "interrupt" =>
           \E m \in DOMAIN events : events[m] = events'[k]
      /\ \A m \in DOMAIN events : events[m].event # "interrupt" =>
           \E k \in DOMAIN events' : events'[k] = events[m]
  <2>1. CASE events' = Irq!ScheduleInterrupt(Irq!Delay, events) /\ scheduled' = TRUE
    <3>1. /\ Irq!EventsOnce' /\ Times' /\ Ages' /\ Order'
          /\ \A i \in DOMAIN events : i \in DOMAIN events' /\ events'[i] = events[i]
          /\ \A i \in DOMAIN events' : events'[i].event # "interrupt" => i \in DOMAIN events
          /\ \A e : e # "interrupt" => (Irq!IsPending(e, events') <=> Irq!IsPending(e, events))
      BY <1>1, <1>2, <2>1, InterruptScheduled
    <3> QED BY <2>1, <3>1
  <2>2. CASE UNCHANGED <<events, scheduled>>
    <3>1. Irq!EventsOnce'
      BY <1>1, <2>2 DEF Irq!EventsOnce
    <3>2. Times'
      BY <1>1, <1>2, <2>2 DEF Times
    <3>3. Ages' /\ Order'
      BY <1>1, <1>2, <2>2 DEF Ages, Order, Alone, Pends
    <3> QED BY <1>1, <2>2, <3>1, <3>2, <3>3 DEF Irq!TypeOK
  <2>3. CASE events' = Irq!Cancelled("interrupt", events) /\ scheduled /\ scheduled' = FALSE
    <3>1. Irq!IsPending("interrupt", events) /\ Single(events)
      BY <1>1, <2>3 DEF Irq!EventsOnce, Single
    <3>2. PICK d \in DOMAIN events : events[d].event = "interrupt"
      BY <3>1 DEF Irq!IsPending
    <3>3. \A i \in DOMAIN events :
            events[i].event = "interrupt" /\ (\A j \in 1 .. i - 1 : events[j].event # "interrupt")
              <=> i = d
      <4>1. DOMAIN events = 1 .. Len(events) /\ Len(events) \in Nat
        BY <1>1 DEF Times
      <4> QED BY <3>1, <3>2, <4>1 DEF Single
    <3>4. events' = Irq!RemoveAt(events, d)
      BY <2>3, <3>1, <3>2, <3>3 DEF Irq!Cancelled
    <3>5. /\ Single(events') /\ Times' /\ Order' /\ Ages'
          /\ \A e : Irq!IsPending(e, events') <=> Irq!IsPending(e, events) /\ e # events[d].event
          /\ \A k \in DOMAIN events' :
               /\ Before(d, k) \in DOMAIN events \ {d} /\ events'[k] = events[Before(d, k)]
          /\ \A m \in DOMAIN events \ {d} : \E k \in DOMAIN events' : Before(d, k) = m
      BY <1>1, <1>2, <3>2, <3>4, EntryRemoved
    <3>6. Irq!EventsOnce'
      BY <2>3, <3>2, <3>5 DEF Irq!EventsOnce, Single
    <3>7. \A m \in DOMAIN events : events[m].event # "interrupt" =>
             \E k \in DOMAIN events' : events'[k] = events[m]
      BY <3>2, <3>5
    <3> QED BY <2>3, <3>2, <3>5, <3>6, <3>7
  <2>4. CASE events' = events /\ ~scheduled /\ scheduled' = FALSE
    BY <2>2, <2>4, <1>1 DEF Irq!TypeOK
  <2> QED BY <1>1, <1>4, <2>1, <2>2, <2>3, <2>4 DEF Irq!TypeOK
<1>6. Irq!TypeOK'
  <2>1. ({busUsed, scheduled, asserted} \subseteq BOOLEAN)'
    BY <1>1, <1>2, <1>5 DEF Irq!TypeOK
  <2>2. (\A i \in DOMAIN events : events[i].event \in Irq!Events /\ events[i].left \in 0 .. 2)'
    BY <1>5, EntryTypes DEF Times
  <2> QED BY <1>1, <1>2, <1>3, <2>1, <2>2 DEF Irq!TypeOK
<1>7. \A e : e # "interrupt" => (Pends(e)' <=> Pends(e))
  BY <1>5 DEF Pends
<1>8. Remains' = Remains /\ (Alone' <=> Alone)
  BY <1>2, <1>7 DEF Remains, Alone
<1>9. Delayed'
  BY <1>1, <1>2, <1>5, <1>8 DEF Delayed, Live
<1>10. Flags'
  BY <1>1, <1>2, <1>7, <1>8 DEF Flags, Irq!ack0, Irq!TypeOK
<1>11. Line'
  <2>1. ASSUME NEW i \in DOMAIN events, Live(i)  PROVE \E k \in DOMAIN events' : Live(k)'
    BY <1>2, <1>5, <2>1 DEF Live
  <2> QED BY <1>1, <1>2, <1>7, <1>8, <2>1 DEF Line
<1>12. Signal'
  <2>1. ASSUME Alone, (owed \ late') \cap new # {}, idr \cap new = {}  PROVE FALSE
    BY <1>1, <2>1 DEF Flags
  <2>2. ASSUME Irq!ack0  PROVE owed \ late' = {}
    BY <1>2, <2>2
  <2> QED BY <1>2, <1>4, <1>8, <2>1, <2>2 DEF Signal
<1> QED BY <1>5, <1>6, <1>9, <1>10, <1>11, <1>12 DEF LogicIInv

\* The read finds every event due in the next cycle, and puts its own behind them.
LEMMA ClearStep ==
  ASSUME LogicIInv, Irq!Clear, UNCHANGED Model  PROVE LogicIInv'
<1> DEFINE q == Irq!Scheduled("clearIrq", 0, events)
           n == Len(events)
           p == Pends("updateIdr")
           lineDown == [event |-> "clearIrq", left |-> 1]
           idrs == [event |-> "updateIdr", left |-> 2]
<1>1. Irq!TypeOK /\ Irq!EventsOnce /\ Times /\ Ages /\ Order
  BY DEF LogicIInv
<1>2. /\ phase = "PHI2" /\ ~busUsed /\ sinceClear' = 0 /\ busUsed' = TRUE
      /\ owed' = {} /\ late' = {}
      /\ idr' \subseteq idr
      /\ UNCHANGED <<Model, phase, fired, icr, sinceSet, scheduled, asserted>>
  BY DEF Irq!Clear
<1>3. lineDown \in Entry /\ idrs \in Entry
      /\ lineDown.event = "clearIrq" /\ lineDown.left = 1 /\ idrs.event = "updateIdr" /\ idrs.left = 2
  BY DEF Entry, Irq!Events
<1>4. q = Append(events, lineDown)
  BY <1>2 DEF Irq!Scheduled
<1> HIDE DEF lineDown
<1>5. /\ q \in Seq(Entry) /\ DOMAIN q = 1 .. n + 1 /\ DOMAIN events = 1 .. n
      /\ n \in Nat /\ q[n + 1] = lineDown /\ \A i \in 1 .. n : q[i] = events[i]
      /\ \A e : Irq!IsPending(e, q) <=> Irq!IsPending(e, events) \/ lineDown.event = e
  <2>1. events \in Seq(Entry)
    BY <1>1 DEF Times
  <2> HIDE DEF q, n
  <2>2. n = Len(events)
    BY DEF n
  <2> QED BY <1>3, <1>4, <2>1, <2>2, Added
<1>6. /\ Irq!IsPending("updateIdr", q) <=> p
      /\ \A i \in DOMAIN events : events[i].left = 1 /\ events[i].event # "clearIrq"
  BY <1>1, <1>2, <1>3, <1>5 DEF Pends, Times, Ages
<1>7. CASE p
  <2>1. events' = q /\ UNCHANGED idrTemp /\ overlapped' = TRUE
    BY <1>6, <1>7 DEF Irq!Clear, Pends
  <2> HIDE DEF q
  <2>2. Irq!EventsOnce'
    BY <1>1, <1>2, <1>3, <1>5, <1>6, <2>1 DEF Irq!EventsOnce
  <2>3. Times'
    BY <1>1, <1>2, <1>3, <1>5, <1>6, <2>1 DEF Times
  <2>4. ~Alone'
    BY <2>1 DEF Alone
  <2>5. Ages' /\ Order'
    BY <1>1, <1>2, <1>3, <1>5, <1>6, <2>1, <2>4, SMTT(30) DEF Ages, Order
  <2>6. Delayed' /\ Flags' /\ Signal'
    BY <1>2, <2>4 DEF Delayed, Flags, Signal
  <2>7. Pends("clearIrq")'
    BY <1>3, <1>5, <2>1 DEF Pends
  <2>8. Line'
    BY <2>4, <2>7 DEF Line
  <2>9. Irq!TypeOK'
    <3>1. ({busUsed, scheduled, asserted} \subseteq BOOLEAN)'
      BY <1>1, <1>2 DEF Irq!TypeOK
    <3>2. (\A i \in DOMAIN events : events[i].event \in Irq!Events /\ events[i].left \in 0 .. 2)'
      BY <2>3, EntryTypes DEF Times
    <3> QED BY <1>1, <1>2, <2>1, <3>1, <3>2 DEF Irq!TypeOK
  <2> QED BY <2>2, <2>3, <2>5, <2>6, <2>8, <2>9 DEF LogicIInv
<1>8. CASE ~p
  <2>1. events' = Append(q, idrs) /\ idrTemp' = {}
    BY <1>2, <1>6, <1>8 DEF Irq!Clear, Irq!Scheduled
  <2>2. Len(q) = n + 1
    BY <1>5
  <2> HIDE DEF q, idrs, n
  <2>3. /\ events' \in Seq(Entry) /\ DOMAIN events' = 1 .. n + 2
        /\ events'[n + 2] = idrs /\ \A i \in 1 .. n + 1 : events'[i] = q[i]
        /\ \A e : Irq!IsPending(e, events') <=> Irq!IsPending(e, q) \/ idrs.event = e
    BY <1>3, <1>5, <2>1, <2>2, Added
  <2>4. /\ events'[n + 2] = idrs /\ events'[n + 1] = lineDown
        /\ \A i \in 1 .. n : events'[i] = events[i]
        /\ \A i \in DOMAIN events' : i \in 1 .. n \/ i = n + 1 \/ i = n + 2
        /\ \A e : Irq!IsPending(e, events') <=> Irq!IsPending(e, events) \/ e \in {"clearIrq", "updateIdr"}
    BY <1>3, <1>5, <2>3
  <2>5. \A i \in DOMAIN events : events[i].event # "updateIdr"
    BY <1>8 DEF Pends, Irq!IsPending
  <2>6. Irq!EventsOnce'
    BY <1>1, <1>2, <1>3, <1>5, <1>6, <2>4, <2>5 DEF Irq!EventsOnce
  <2>7. Times'
    BY <1>1, <1>2, <1>3, <1>5, <1>6, <2>3, <2>4 DEF Times
  <2>8. Pends("clearIrq")' /\ Pends("updateIdr")'
    BY <2>4 DEF Pends
  <2>9. Ages'
    BY <1>1, <1>2, <1>3, <1>5, <1>6, <2>4, <2>5, <2>8 DEF Ages
  <2>10. Order'
    BY <1>1, <1>2, <1>3, <1>5, <1>6, <2>4, <2>5 DEF Order
  <2>11. Remains' = {}
    BY <2>1, <2>8 DEF Remains
  <2>12. Delayed' /\ Flags' /\ Signal' /\ Line'
    BY <1>2, <2>8, <2>11 DEF Delayed, Flags, Signal, Line, Live
  <2>13. Irq!TypeOK'
    <3>1. ({busUsed, scheduled, asserted} \subseteq BOOLEAN)'
      BY <1>1, <1>2 DEF Irq!TypeOK
    <3>2. (\A i \in DOMAIN events : events[i].event \in Irq!Events /\ events[i].left \in 0 .. 2)'
      BY <2>7, EntryTypes DEF Times
    <3> QED BY <1>1, <1>2, <2>1, <3>1, <3>2 DEF Irq!TypeOK
  <2> QED BY <2>6, <2>7, <2>9, <2>10, <2>12, <2>13 DEF LogicIInv
<1> QED BY <1>7, <1>8

\* The next cycle begins: every event is one cycle nearer.
LEMMA CycleStep ==
  ASSUME LogicIInv, Irq!Cycle, UNCHANGED Model  PROVE LogicIInv'
<1>1. /\ Irq!TypeOK /\ Irq!EventsOnce /\ Times /\ Ages /\ Order /\ Delayed /\ Flags /\ Line /\ Signal
  BY DEF LogicIInv
<1>2. /\ phase = "PHI2" /\ phase' = "PHI1" /\ busUsed' = FALSE /\ fired' = {}
      /\ sinceClear' = Irq!Older(sinceClear) /\ sinceSet' = Irq!Older(sinceSet)
      /\ UNCHANGED <<Model, icr, idr, idrTemp, scheduled, asserted, owed, late, overlapped>>
  BY DEF Irq!Cycle, Irq!history
<1>3. /\ DOMAIN events' = DOMAIN events
      /\ \A i \in DOMAIN events : events[i] \in Entry
      /\ \A i \in DOMAIN events : events'[i] = [events[i] EXCEPT !.left = @ - 1]
  BY <1>1 DEF Irq!Cycle, Times
<1>4. \A i \in DOMAIN events :
        events'[i].event = events[i].event /\ events'[i].left = events[i].left - 1
  BY <1>3 DEF Entry
<1>5. \A i \in DOMAIN events : events'[i] \in Entry /\ events'[i].left \in {0, 1}
  <2>1. \A i \in DOMAIN events : events[i].left \in {1, 2}
    BY <1>1, <1>2 DEF Times
  <2> QED BY <1>3, <1>4, <2>1 DEF Entry
<1>6. events' \in Seq(Entry)
  <2>1. DOMAIN events = 1 .. Len(events) /\ Len(events) \in Nat
    BY <1>1 DEF Times
  <2>2. events' = [i \in 1 .. Len(events) |-> events'[i]]
    BY <2>1, <1>3 DEF Irq!Cycle
  <2> QED BY <1>5, <2>1, <2>2
<1>7. Times'
  BY <1>2, <1>3, <1>5, <1>6 DEF Times
<1>8. \A e : Irq!IsPending(e, events') <=> Irq!IsPending(e, events)
  BY <1>3, <1>4 DEF Irq!IsPending
<1>9. Irq!EventsOnce'
  BY <1>1, <1>2, <1>3, <1>4, <1>8 DEF Irq!EventsOnce
<1>10. Irq!TypeOK'
  <2>1. ({busUsed, scheduled, asserted} \subseteq BOOLEAN)'
    BY <1>1, <1>2 DEF Irq!TypeOK
  <2>2. (\A i \in DOMAIN events : events[i].event \in Irq!Events /\ events[i].left \in 0 .. 2)'
    BY <1>7, EntryTypes DEF Times
  <2> QED BY <1>1, <1>2, <2>1, <2>2 DEF Irq!TypeOK, Irq!Older
<1>11. /\ \A e : Pends(e)' <=> Pends(e)
       /\ Remains' = Remains /\ (Alone' <=> Alone)
  BY <1>2, <1>8 DEF Pends, Remains, Alone
<1>12. sinceClear \in 0 .. 2 /\ sinceClear' \in 1 .. 2
       /\ (sinceClear = 0 <=> sinceClear' = 1)
  BY <1>1, <1>2 DEF Irq!TypeOK, Irq!Older
<1>13. Ages'
  BY <1>1, <1>2, <1>3, <1>4, <1>5, <1>11, <1>12 DEF Ages, Times
<1>14. Order'
  BY <1>1, <1>3, <1>4, <1>5, <1>11 DEF Order, Entry
<1>15. ASSUME NEW i \in DOMAIN events  PROVE Live(i)' <=> Live(i)
  BY <1>1, <1>2, <1>3, <1>4, <1>5, <1>12, <1>15 DEF Live, Ages, Times
<1>16. Delayed'
  <2>1. \A i \in DOMAIN events : events[i].event = "setIrq" => events'[i].left # 1
    BY <1>1, <1>3, <1>4 DEF Ages, Entry
  <2> QED BY <1>1, <1>3, <1>4, <1>11, <1>15, <2>1 DEF Delayed
<1>17. Flags' /\ Signal'
  BY <1>1, <1>2, <1>11, <1>12 DEF Flags, Signal
<1>18. Line'
  BY <1>1, <1>2, <1>3, <1>11, <1>12, <1>15 DEF Line
<1> QED BY <1>7, <1>9, <1>10, <1>13, <1>14, <1>16, <1>17, <1>18 DEF LogicIInv

LEMMA TriggerStep ==
  ASSUME "REQUEST" \notin Source,
         LogicIInv, NEW s \in Source, Irq!Trigger(s), UNCHANGED Model
  PROVE  LogicIInv'
<1> DEFINE lost == IF Model = "6526" /\ s = TimerB /\ Irq!ack0 THEN {TimerB} ELSE {}
<1>1. /\ Irq!TypeOK /\ Irq!EventsOnce /\ Times /\ Ages /\ Order /\ Delayed /\ Flags /\ Line /\ Signal
  BY DEF LogicIInv
<1>2. /\ phase = "PHI1" \/ ~busUsed
      /\ busUsed' = (phase = "PHI2") /\ fired' = fired \cup {s}
      /\ idr' = (idr \cup {s}) \ lost
      /\ idrTemp' = (idrTemp \cup {s}) \ lost
      /\ owed' = (owed \cup {s}) \ lost
      /\ late' = IF Irq!ack0 THEN late \cup {s} ELSE late
      /\ UNCHANGED <<Model, phase, icr, sinceClear, sinceSet, asserted, overlapped>>
  BY DEF Irq!Trigger, Irq!TriggerFlag
<1>3. \/ s \in icr /\ events' = Irq!ScheduleInterrupt(Irq!Delay, events) /\ scheduled' = TRUE
      \/ s \notin icr /\ UNCHANGED <<events, scheduled>>
  BY DEF Irq!Trigger, Irq!TriggerFlag
<1>4. lost \subseteq {s} /\ s # "REQUEST"
  OBVIOUS
<1> HIDE DEF lost
<1>5. /\ phase \in {"PHI1", "PHI2"} /\ sinceClear \in 0 .. 2
      /\ busUsed' \in BOOLEAN /\ (phase = "PHI2" => busUsed' = TRUE)
  BY <1>1, <1>2 DEF Irq!TypeOK
\* The queue has at most got the interrupt.
<1>6. /\ Irq!EventsOnce' /\ Times' /\ Ages' /\ Order' /\ scheduled' \in BOOLEAN
      /\ \A i \in DOMAIN events : i \in DOMAIN events' /\ events'[i] = events[i]
      /\ \A i \in DOMAIN events' : events'[i].event # "interrupt" => i \in DOMAIN events
      /\ \A e : e # "interrupt" => (Irq!IsPending(e, events') <=> Irq!IsPending(e, events))
  <2>1. CASE s \in icr /\ events' = Irq!ScheduleInterrupt(Irq!Delay, events) /\ scheduled' = TRUE
    <3>1. phase = "PHI1" => sinceClear # 0
      BY <1>1, <2>1 DEF Ages
    <3> QED BY <1>1, <1>2, <1>5, <2>1, <3>1, InterruptScheduled
  <2>2. CASE UNCHANGED <<events, scheduled>>
    <3>1. Irq!EventsOnce'
      BY <1>1, <2>2 DEF Irq!EventsOnce
    <3>2. Times'
      BY <1>1, <1>2, <1>5, <2>2 DEF Times
    <3>3. Ages'
      BY <1>1, <1>2, <1>5, <2>2 DEF Ages, Alone, Pends
    <3>4. Order'
      BY <1>1, <1>2, <2>2 DEF Order, Alone
    <3> QED BY <1>1, <2>2, <3>1, <3>2, <3>3, <3>4 DEF Irq!TypeOK
  <2> QED BY <1>3, <2>1, <2>2
<1>7. Irq!TypeOK'
  <2>1. ({busUsed, scheduled, asserted} \subseteq BOOLEAN)'
    BY <1>1, <1>2, <1>5, <1>6 DEF Irq!TypeOK
  <2>2. (\A i \in DOMAIN events : events[i].event \in Irq!Events /\ events[i].left \in 0 .. 2)'
    BY <1>6, EntryTypes DEF Times
  <2> QED BY <1>1, <1>2, <2>1, <2>2 DEF Irq!TypeOK
<1>8. /\ \A e : e # "interrupt" => (Pends(e)' <=> Pends(e))
      /\ Alone' <=> Alone
  BY <1>2, <1>6 DEF Pends, Alone
<1>9. /\ Remains' = (Remains \cup {s}) \ lost
      /\ "REQUEST" \in Remains' <=> "REQUEST" \in Remains
      /\ "REQUEST" \in idr' <=> "REQUEST" \in idr
      /\ "REQUEST" \in idrTemp' <=> "REQUEST" \in idrTemp
  BY <1>2, <1>4, <1>8 DEF Remains
<1>10. Delayed'
  BY <1>1, <1>2, <1>6, <1>8, <1>9 DEF Delayed, Live
<1>11. Flags'
  <2>1. ASSUME Alone, Pends("updateIdr"), sinceClear = 0  PROVE FALSE
    <3>1. PICK i \in DOMAIN events : events[i].event = "updateIdr"
      BY <2>1 DEF Pends, Irq!IsPending
    <3>2. events[i].left + sinceClear = 2 /\ phase # "PHI1"
      BY <1>1, <2>1, <3>1 DEF Ages
    <3> QED BY <1>1, <1>2, <1>5, <2>1, <3>2 DEF Times, Irq!TypeOK
  <2>2. Alone => Remains' \ {"REQUEST"} = owed' /\ owed' \subseteq idr'
    BY <1>1, <1>2, <1>4, <1>9 DEF Flags
  <2>3. Alone /\ Pends("updateIdr") /\ sinceClear < 2 => owed' \subseteq late'
    BY <1>1, <1>2, <1>5, <2>1 DEF Flags, Irq!ack0
  <2> QED BY <1>1, <1>2, <1>8, <1>9, <2>2, <2>3 DEF Flags
<1>12. Line'
  <2>1. \A i \in DOMAIN events : Live(i) => i \in DOMAIN events' /\ Live(i)'
    BY <1>2, <1>6 DEF Live
  <2> QED BY <1>1, <1>2, <1>8, <1>9, <2>1 DEF Line
<1>13. Signal'
  BY <1>1, <1>2, <1>3, <1>8, <1>9 DEF Signal
<1> QED BY <1>6, <1>7, <1>10, <1>11, <1>12, <1>13 DEF LogicIInv

\* The first event that is due, at d.
IsDue(d) == events[d].left = 0 /\ \A j \in 1 .. d - 1 : events[j].left > 0

\* What Fire leaves alone, whatever fires.
Frame == UNCHANGED <<Model, phase, busUsed, fired, icr, sinceClear, sinceSet, Irq!history>>

LEMMA DueFacts ==
  ASSUME LogicIInv, NEW d \in DOMAIN events, IsDue(d)
  PROVE  /\ phase = "PHI1" /\ sinceClear \in {1, 2}
         /\ DOMAIN events = 1 .. Len(events) /\ Len(events) \in Nat
         /\ \A i \in DOMAIN events : events[i].left \in {0, 1} /\ (i < d => events[i].left = 1)
         /\ Single(events)
<1>1. Irq!TypeOK /\ Irq!EventsOnce /\ Times /\ Ages
  BY DEF LogicIInv
<1>2. DOMAIN events = 1 .. Len(events) /\ Len(events) \in Nat
  BY <1>1 DEF Times
<1>3. phase = "PHI1"
  BY <1>1 DEF Times, Irq!TypeOK, IsDue
<1>4. sinceClear \in {1, 2}
  BY <1>1, <1>2, <1>3 DEF Ages, Irq!TypeOK
<1>5. \A i \in DOMAIN events : events[i].left \in {0, 1} /\ (i < d => events[i].left = 1)
  BY <1>1, <1>2, <1>3 DEF Times, IsDue
<1> QED BY <1>1, <1>2, <1>3, <1>4, <1>5 DEF Irq!EventsOnce, Single

\* The event at d fires and schedules none.
LEMMA DueRemoved ==
  ASSUME LogicIInv, NEW d \in DOMAIN events, IsDue(d), Frame, events' = Irq!RemoveAt(events, d),
         events[d].event = "interrupt" => scheduled' = FALSE,
         events[d].event # "interrupt" => UNCHANGED scheduled,
         events[d].event = "updateIdr" => sinceClear = 2 \/ ~Alone
  PROVE  /\ Irq!EventsOnce' /\ Times' /\ Ages' /\ Order' /\ scheduled' \in BOOLEAN
         /\ \A e : Pends(e)' <=> Pends(e) /\ e # events[d].event
         /\ \A k \in DOMAIN events' : \E m \in DOMAIN events \ {d} : events'[k] = events[m]
         /\ \A m \in DOMAIN events \ {d} : \E k \in DOMAIN events' : events'[k] = events[m]
<1>1. Irq!TypeOK /\ Irq!EventsOnce /\ Times /\ Ages /\ Order
  BY DEF LogicIInv
<1>2. phase = "PHI1"
  BY DueFacts
<1>3. UNCHANGED <<Model, phase, sinceClear, overlapped, busUsed>>
  BY DEF Frame, Irq!history
<1>4. /\ Single(events') /\ Times' /\ Order' /\ Ages'
      /\ \A e : Irq!IsPending(e, events') <=> Irq!IsPending(e, events) /\ e # events[d].event
      /\ \A k \in DOMAIN events' :
           /\ Before(d, k) \in DOMAIN events \ {d} /\ events'[k] = events[Before(d, k)]
      /\ \A m \in DOMAIN events \ {d} : \E k \in DOMAIN events' : Before(d, k) = m
  <2>1. busUsed' = busUsed \/ (phase = "PHI2" /\ busUsed' = TRUE)
    BY <1>3
  <2> QED BY <1>1, <1>3, <2>1, EntryRemoved
<1>5. Irq!EventsOnce' /\ scheduled' \in BOOLEAN
  <2>1. \A i, j \in DOMAIN events' : events'[i].event = events'[j].event => i = j
    BY <1>4 DEF Single
  <2>2. (scheduled' <=> Irq!IsPending("interrupt", events')) /\ scheduled' \in BOOLEAN
    <3>1. scheduled \in BOOLEAN /\ (scheduled <=> Irq!IsPending("interrupt", events))
      BY <1>1 DEF Irq!EventsOnce, Irq!TypeOK
    <3>2. CASE events[d].event = "interrupt"
      BY <1>4, <3>2
    <3>3. CASE events[d].event # "interrupt"
      BY <1>4, <3>1, <3>3
    <3> QED BY <3>2, <3>3
  <2> QED BY <2>1, <2>2 DEF Irq!EventsOnce
<1>6. \A e : Pends(e)' <=> Pends(e) /\ e # events[d].event
  BY <1>4 DEF Pends
<1>7. /\ \A k \in DOMAIN events' : \E m \in DOMAIN events \ {d} : events'[k] = events[m]
      /\ \A m \in DOMAIN events \ {d} : \E k \in DOMAIN events' : events'[k] = events[m]
  <2>1. ASSUME NEW k \in DOMAIN events'
        PROVE  \E m \in DOMAIN events \ {d} : events'[k] = events[m]
    BY <1>4
  <2>2. ASSUME NEW m \in DOMAIN events \ {d}
        PROVE  \E k \in DOMAIN events' : events'[k] = events[m]
    <3>1. PICK k \in DOMAIN events' : Before(d, k) = m
      BY <1>4
    <3> QED BY <1>4, <3>1
  <2> QED BY <2>1, <2>2
<1> QED BY <1>4, <1>5, <1>6, <1>7

\* The event at d fires and schedules another for the next cycle.
LEMMA DueReplaced ==
  ASSUME LogicIInv, NEW d \in DOMAIN events, IsDue(d), Frame, NEW e \in {"setIrq", "updateIdr"},
         events' = Irq!Scheduled(e, 1, Irq!RemoveAt(events, d)),
         ~Pends(e) \/ events[d].event = e,
         e = "setIrq" => events[d].event = "interrupt" /\ Model = "8521" /\ sinceClear = 1,
         e = "updateIdr" => events[d].event = "updateIdr" /\ ~Alone,
         events[d].event = "interrupt" => scheduled' = FALSE,
         events[d].event # "interrupt" => UNCHANGED scheduled
  PROVE  /\ Irq!EventsOnce' /\ Times' /\ Ages' /\ Order' /\ scheduled' \in BOOLEAN
         /\ \A f : Pends(f)' <=> f = e \/ (Pends(f) /\ f # events[d].event)
         /\ \A k \in DOMAIN events' :
              \/ events'[k].event = e /\ events'[k].left = 1
              \/ \E m \in DOMAIN events \ {d} : events'[k] = events[m]
         /\ \A m \in DOMAIN events \ {d} : \E k \in DOMAIN events' : events'[k] = events[m]
         /\ \E k \in DOMAIN events' : events'[k].event = e /\ events'[k].left = 1
<1> DEFINE q == Irq!RemoveAt(events, d)
           x == [event |-> e, left |-> 1]
           n == Len(events) - 1
<1>1. Irq!TypeOK /\ Irq!EventsOnce /\ Times /\ Ages /\ Order
  BY DEF LogicIInv
<1>2. /\ phase = "PHI1" /\ sinceClear \in {1, 2}
      /\ \A i \in DOMAIN events : events[i].left \in {0, 1} /\ (i < d => events[i].left = 1)
      /\ Single(events)
  BY DueFacts
<1>3. UNCHANGED <<Model, phase, sinceClear, overlapped, busUsed>>
  BY DEF Frame, Irq!history
<1>4. /\ q \in Seq(Entry) /\ Len(q) = n /\ n \in Nat
      /\ DOMAIN q = 1 .. n /\ DOMAIN events = 1 .. n + 1
      /\ \A k \in DOMAIN q : q[k] = events[Before(d, k)] /\ Before(d, k) \in DOMAIN events \ {d}
      /\ \A m \in DOMAIN events \ {d} : \E k \in DOMAIN q : Before(d, k) = m
      /\ Single(q)
      /\ \A f : Irq!IsPending(f, q) <=> Irq!IsPending(f, events) /\ f # events[d].event
  <2>1. /\ q \in Seq(Entry) /\ Len(q) = Len(events) - 1 /\ Len(events) \in Nat \ {0}
        /\ DOMAIN q = 1 .. Len(events) - 1 /\ DOMAIN events = 1 .. Len(events)
        /\ \A k \in DOMAIN q : q[k] = events[Before(d, k)] /\ Before(d, k) \in DOMAIN events \ {d}
        /\ \A m \in DOMAIN events \ {d} : \E k \in DOMAIN q : Before(d, k) = m
        /\ Single(events) =>
             /\ Single(q)
             /\ \A f : Irq!IsPending(f, q) <=> Irq!IsPending(f, events) /\ f # events[d].event
    BY <1>1, Removed DEF Times
  <2> HIDE DEF q
  <2> QED BY <1>2, <2>1
<1>5. events' = Append(q, x)
  BY <1>2 DEF Irq!Scheduled
<1>6. x \in Entry /\ x.event = e /\ x.left = 1
  BY DEF Entry, Irq!Events
<1> HIDE DEF q, x, n
<1>7. /\ events' \in Seq(Entry) /\ DOMAIN events' = 1 .. n + 1
      /\ events'[n + 1] = x /\ \A i \in 1 .. n : events'[i] = q[i]
      /\ \A f : Irq!IsPending(f, events') <=> Irq!IsPending(f, q) \/ x.event = f
  <2>1. /\ events' \in Seq(Entry) /\ DOMAIN events' = 1 .. Len(q) + 1
        /\ events'[Len(q) + 1] = x /\ \A i \in 1 .. Len(q) : events'[i] = q[i]
        /\ \A f : Irq!IsPending(f, events') <=> Irq!IsPending(f, q) \/ x.event = f
    <3>1. q \in Seq(Entry) /\ x \in Entry
      BY <1>4, <1>6
    <3> QED BY ONLY <3>1, <1>5, Added
  <2> QED BY <1>4, <2>1
<1>8. /\ \A k \in DOMAIN events' :
           \/ k = n + 1
           \/ /\ k \in 1 .. n /\ Before(d, k) \in DOMAIN events \ {d}
              /\ events'[k] = events[Before(d, k)]
      /\ \A k \in 1 .. n : Before(d, k) \in DOMAIN events \ {d} /\ events'[k] = events[Before(d, k)]
      /\ \A m \in DOMAIN events \ {d} : \E k \in 1 .. n : Before(d, k) = m
  <2>1. \A k \in 1 .. n : Before(d, k) \in DOMAIN events \ {d} /\ events'[k] = events[Before(d, k)]
    <3>1. /\ DOMAIN q = 1 .. n
          /\ \A k \in DOMAIN q : q[k] = events[Before(d, k)] /\ Before(d, k) \in DOMAIN events \ {d}
      BY <1>4
    <3>2. \A i \in 1 .. n : events'[i] = q[i]
      BY <1>7
    <3> QED BY ONLY <3>1, <3>2
  <2>2. \A m \in DOMAIN events \ {d} : \E k \in 1 .. n : Before(d, k) = m
    <3>1. /\ DOMAIN q = 1 .. n
          /\ \A m \in DOMAIN events \ {d} : \E k \in DOMAIN q : Before(d, k) = m
      BY <1>4
    <3> QED BY ONLY <3>1
  <2>3. \A k \in DOMAIN events' : k = n + 1 \/ k \in 1 .. n
    <3>1. DOMAIN events' = 1 .. n + 1 /\ n \in Nat
      BY <1>4, <1>7
    <3> QED BY ONLY <3>1
  <2> QED BY ONLY <2>1, <2>2, <2>3
<1>9. \A f : Pends(f)' <=> f = e \/ (Pends(f) /\ f # events[d].event)
  BY <1>4, <1>6, <1>7 DEF Pends
<1>10. \A i \in DOMAIN q : q[i].event # e
  <2>1. ~Irq!IsPending(e, q)
    BY <1>4 DEF Pends
  <2> QED BY <2>1 DEF Irq!IsPending
<1>11. Irq!EventsOnce' /\ scheduled' \in BOOLEAN
  <2>1. \A i, j \in DOMAIN events' : events'[i].event = events'[j].event => i = j
    <3>1. \A i, j \in 1 .. n : events'[i].event = events'[j].event => i = j
      <4>1. Single(q) /\ DOMAIN q = 1 .. n
        BY <1>4
      <4>2. \A i \in 1 .. n : events'[i] = q[i]
        BY <1>7
      <4> QED BY ONLY <4>1, <4>2 DEF Single
    <3>2. \A i \in 1 .. n : events'[i].event # events'[n + 1].event
      BY <1>4, <1>6, <1>7, <1>10
    <3> QED BY <1>4, <1>7, <3>1, <3>2
  <2>2. (scheduled' <=> Irq!IsPending("interrupt", events')) /\ scheduled' \in BOOLEAN
    <3>1. scheduled \in BOOLEAN /\ (scheduled <=> Irq!IsPending("interrupt", events))
      BY <1>1 DEF Irq!EventsOnce, Irq!TypeOK
    <3>2. CASE events[d].event = "interrupt"
      BY <1>9, <3>2 DEF Pends
    <3>3. CASE events[d].event # "interrupt"
      BY <1>9, <3>1, <3>3 DEF Pends
    <3> QED BY <3>2, <3>3
  <2> QED BY <2>1, <2>2 DEF Irq!EventsOnce
<1>12. Times'
  BY <1>1, <1>2, <1>3, <1>6, <1>7, <1>8 DEF Times
<1>13. Ages'
  <2>1. Alone' <=> Alone
    BY <1>3 DEF Alone
  <2>2. e = "setIrq" => (Pends("updateIdr")' <=> Pends("updateIdr"))
    BY <1>9
  <2>3. ASSUME NEW k \in 1 .. n
        PROVE  /\ events'[k].event = "clearIrq" => sinceClear = 1 /\ events'[k].left = 0
               /\ events'[k].event = "setIrq" =>
                    /\ Model = "8521" /\ events'[k].left < 2
                    /\ sinceClear \in {1, 2 - events'[k].left}
               /\ events'[k].event = "updateIdr" /\ Alone => events'[k].left + sinceClear = 2
               /\ events'[k].event = "interrupt" /\ Alone /\ Model # "8521" /\ ~Pends("updateIdr")' =>
                    events'[k].left + sinceClear >= 2
    <3>1. Before(d, k) \in DOMAIN events /\ events'[k] = events[Before(d, k)]
      BY <1>8
    <3> QED BY <1>1, <1>2, <2>1, <2>2, <3>1 DEF Ages
  <2>4. /\ e = "setIrq" => Model = "8521" /\ sinceClear = 1
        /\ e = "updateIdr" => ~Alone
    OBVIOUS
  <2> QED BY <1>2, <1>3, <1>6, <1>7, <1>8, <2>1, <2>3, <2>4 DEF Ages
<1>14. Order'
  <2>1. \A i, j \in 1 .. n : Before(d, i) < Before(d, j) => i < j
    BY <1>4 DEF Before
  <2>2. Alone' <=> Alone
    BY <1>3 DEF Alone
  <2>3. e = "setIrq" => \A i \in DOMAIN q : q[i].event # "interrupt"
    BY <1>4, <1>9 DEF Irq!IsPending
  <2>4. e = "updateIdr" => ~Alone
    OBVIOUS
  <2>5. ASSUME NEW i \in DOMAIN events', NEW j \in DOMAIN events'
        PROVE  /\ events'[i].event = "setIrq" /\ events'[j].event = "interrupt" => i < j
               /\ events'[i].event = "updateIdr" /\ events'[j].event = "interrupt" /\ Alone =>
                    i < j \/ events'[j].left < events'[i].left
    <3>0. /\ n \in Nat /\ DOMAIN events' = 1 .. n + 1 /\ DOMAIN q = 1 .. n
          /\ events'[n + 1].event = e
          /\ \A k \in 1 .. n : events'[k] = q[k]
      BY <1>4, <1>6, <1>7
    <3>1. CASE i \in 1 .. n /\ j \in 1 .. n
      <4>1. /\ Before(d, i) \in DOMAIN events /\ events'[i] = events[Before(d, i)]
            /\ Before(d, j) \in DOMAIN events /\ events'[j] = events[Before(d, j)]
        BY <1>8, <3>1
      <4>2. /\ events'[i].event = "setIrq" /\ events'[j].event = "interrupt" =>
                 Before(d, i) < Before(d, j)
            /\ events'[i].event = "updateIdr" /\ events'[j].event = "interrupt" /\ Alone =>
                 Before(d, i) < Before(d, j) \/ events'[j].left < events'[i].left
        BY <1>1, <4>1 DEF Order
      <4> QED BY ONLY <2>1, <3>1, <4>2
    <3>2. CASE i = n + 1
      <4>1. CASE e = "setIrq"
        <5>1. events'[j].event # "interrupt"
          BY ONLY <2>3, <3>0, <4>1, j \in DOMAIN events'
        <5> QED BY ONLY <3>0, <3>2, <4>1, <5>1
      <4>2. CASE e # "setIrq"
        BY ONLY <2>4, <3>0, <3>2, <4>2
      <4> QED BY ONLY <4>1, <4>2
    <3>3. CASE i \in 1 .. n /\ j = n + 1
      BY ONLY <3>0, <3>3
    <3> QED BY ONLY <3>0, <3>1, <3>2, <3>3, i \in DOMAIN events', j \in DOMAIN events'
  <2> QED BY <2>2, <2>5 DEF Order
<1>15. \E k \in DOMAIN events' : events'[k].event = e /\ events'[k].left = 1
  BY <1>4, <1>6, <1>7
<1>16. /\ \A k \in DOMAIN events' :
            \/ events'[k].event = e /\ events'[k].left = 1
            \/ \E m \in DOMAIN events \ {d} : events'[k] = events[m]
       /\ \A m \in DOMAIN events \ {d} : \E k \in DOMAIN events' : events'[k] = events[m]
  <2>1. ASSUME NEW k \in DOMAIN events'
        PROVE  \/ events'[k].event = e /\ events'[k].left = 1
               \/ \E m \in DOMAIN events \ {d} : events'[k] = events[m]
    BY <1>6, <1>7, <1>8
  <2>2. ASSUME NEW m \in DOMAIN events \ {d}
        PROVE  \E k \in DOMAIN events' : events'[k] = events[m]
    <3>1. PICK k \in 1 .. n : Before(d, k) = m
      BY <1>8
    <3>2. k \in DOMAIN events' /\ events'[k] = events[m]
      BY <1>4, <1>7, <1>8, <3>1
    <3> QED BY <3>2
  <2> QED BY <2>1, <2>2
<1> QED BY <1>9, <1>11, <1>12, <1>13, <1>14, <1>15, <1>16

LEMMA FrameTypes ==
  ASSUME Irq!TypeOK, Frame, scheduled' \in BOOLEAN, asserted' \in BOOLEAN, Times',
         idr' \subseteq Source \cup {"REQUEST"}, idrTemp' \subseteq Source \cup {"REQUEST"}
  PROVE  Irq!TypeOK'
<1>1. ({busUsed, scheduled, asserted} \subseteq BOOLEAN)'
  BY DEF Irq!TypeOK, Frame
<1>2. (\A i \in DOMAIN events : events[i].event \in Irq!Events /\ events[i].left \in 0 .. 2)'
  BY EntryTypes DEF Times
<1> QED BY <1>1, <1>2 DEF Irq!TypeOK, Frame

\* A read is about to take effect: while it is the last one, in the cycle after it.
LEMMA DueRead ==
  ASSUME LogicIInv, NEW d \in DOMAIN events, IsDue(d), events[d].event = "interrupt",
         Alone, Pends("updateIdr")
  PROVE  sinceClear = 1 /\ owed \subseteq late
<1>1. Order /\ Ages /\ Flags
  BY DEF LogicIInv
<1>2. PICK i \in DOMAIN events : events[i].event = "updateIdr"
  BY DEF Pends, Irq!IsPending
<1>3. events[i].left + sinceClear = 2 /\ (i < d \/ events[d].left < events[i].left)
  BY <1>1, <1>2 DEF Ages, Order
<1>4. sinceClear = 1
  BY <1>2, <1>3, DueFacts DEF IsDue
<1> QED BY <1>1, <1>4 DEF Flags

LEMMA FireSetIrq ==
  ASSUME LogicIInv, NEW d \in DOMAIN events, IsDue(d), Frame,
         events[d].event = "setIrq", Irq!SetIrq, events' = Irq!RemoveAt(events, d),
         UNCHANGED <<idr, idrTemp, scheduled>>
  PROVE  LogicIInv'
<1>1. /\ Irq!TypeOK /\ Irq!EventsOnce /\ Times /\ Ages /\ Order /\ Delayed /\ Flags /\ Line /\ Signal
  BY DEF LogicIInv
<1>2. /\ Irq!EventsOnce' /\ Times' /\ Ages' /\ Order' /\ scheduled' \in BOOLEAN
      /\ \A e : Pends(e)' <=> Pends(e) /\ e # "setIrq"
      /\ \A k \in DOMAIN events' : \E m \in DOMAIN events \ {d} : events'[k] = events[m]
      /\ \A m \in DOMAIN events \ {d} : \E k \in DOMAIN events' : events'[k] = events[m]
  BY DueRemoved, ZenonT(60)
<1>3. /\ UNCHANGED <<Model, phase, icr, sinceClear, owed, late, overlapped, idr, idrTemp>>
      /\ phase = "PHI1" /\ sinceClear \in {1, 2} /\ Single(events)
  BY DueFacts DEF Frame, Irq!history
<1>4. asserted' = (asserted \/ sinceClear = 2) /\ asserted \in BOOLEAN
  BY <1>1, <1>3 DEF Irq!SetIrq, Irq!ack0, Irq!TypeOK
<1>5. Remains' = Remains /\ (Alone' <=> Alone)
  BY <1>2, <1>3 DEF Remains, Alone
<1>6. Delayed'
  BY <1>1, <1>2, <1>3, <1>5 DEF Delayed, Live
<1>7. Flags' /\ Signal'
  BY <1>1, <1>2, <1>3, <1>5 DEF Flags, Signal
<1>8. Line'
  <2>1. sinceClear = 2 => ~Pends("clearIrq")
    BY <1>1, <1>3 DEF Ages, Pends, Irq!IsPending
  <2>2. sinceClear = 2 => Live(d)
    BY <1>3 DEF Live, IsDue
  <2>3. Alone /\ sinceClear = 2 => "REQUEST" \in Remains
    BY <1>1, <2>2 DEF Delayed
  <2>4. ASSUME NEW i \in DOMAIN events, Live(i), sinceClear = 1
        PROVE  \E k \in DOMAIN events' : Live(k)'
    <3>1. i # d
      BY <1>3, <2>4 DEF Live, IsDue
    <3> QED BY <1>2, <1>3, <2>4, <3>1 DEF Live
  <2>5. (sinceClear < 2 => Pends("clearIrq") \/ ~asserted)'
    BY <1>1, <1>2, <1>3, <1>4 DEF Line
  <2>6. (Alone /\ asserted /\ ~Pends("clearIrq") => "REQUEST" \in Remains)'
    BY <1>1, <1>2, <1>4, <1>5, <2>3 DEF Line
  <2>7. (Alone /\ "REQUEST" \in Remains /\ (~asserted \/ Pends("clearIrq")) =>
           \E i \in DOMAIN events : Live(i))'
    BY <1>1, <1>2, <1>3, <1>4, <1>5, <2>1, <2>4 DEF Line
  <2> QED BY <2>5, <2>6, <2>7 DEF Line
<1>9. Irq!TypeOK'
  BY <1>1, <1>2, <1>3, <1>4, FrameTypes DEF Irq!TypeOK
<1> QED BY <1>2, <1>6, <1>7, <1>8, <1>9 DEF LogicIInv

LEMMA FireClearIrq ==
  ASSUME LogicIInv, NEW d \in DOMAIN events, IsDue(d), Frame,
         events[d].event = "clearIrq", asserted' = FALSE, events' = Irq!RemoveAt(events, d),
         UNCHANGED <<idr, idrTemp, scheduled>>
  PROVE  LogicIInv'
<1>1. /\ Irq!TypeOK /\ Irq!EventsOnce /\ Times /\ Ages /\ Order /\ Delayed /\ Flags /\ Line /\ Signal
  BY DEF LogicIInv
<1>2. /\ Irq!EventsOnce' /\ Times' /\ Ages' /\ Order' /\ scheduled' \in BOOLEAN
      /\ \A e : Pends(e)' <=> Pends(e) /\ e # "clearIrq"
      /\ \A k \in DOMAIN events' : \E m \in DOMAIN events \ {d} : events'[k] = events[m]
      /\ \A m \in DOMAIN events \ {d} : \E k \in DOMAIN events' : events'[k] = events[m]
  BY DueRemoved, ZenonT(60)
<1>3. UNCHANGED <<Model, phase, icr, sinceClear, owed, late, overlapped, idr, idrTemp>>
  BY DEF Frame, Irq!history
<1>4. Remains' = Remains /\ (Alone' <=> Alone)
  BY <1>2, <1>3 DEF Remains, Alone
<1>5. Delayed'
  BY <1>1, <1>2, <1>3, <1>4 DEF Delayed, Live
<1>6. Flags' /\ Signal'
  BY <1>1, <1>2, <1>3, <1>4 DEF Flags, Signal
<1>7. Line'
  <2>1. Pends("clearIrq")
    BY DEF Pends, Irq!IsPending
  <2>2. ASSUME NEW i \in DOMAIN events, Live(i)  PROVE \E k \in DOMAIN events' : Live(k)'
    <3>1. i # d
      BY <2>2 DEF Live
    <3> QED BY <1>2, <1>3, <2>2, <3>1 DEF Live
  <2> QED BY <1>1, <1>4, <2>1, <2>2 DEF Line
<1>8. Irq!TypeOK'
  BY <1>1, <1>2, <1>3, FrameTypes DEF Irq!TypeOK
<1> QED BY <1>2, <1>5, <1>6, <1>7, <1>8 DEF LogicIInv

LEMMA FireUpdateIdr ==
  ASSUME LogicIInv, NEW d \in DOMAIN events, IsDue(d), Frame,
         events[d].event = "updateIdr", Irq!UpdateIdr(Irq!RemoveAt(events, d))
  PROVE  LogicIInv'
<1>1. /\ Irq!TypeOK /\ Irq!EventsOnce /\ Times /\ Ages /\ Order /\ Delayed /\ Flags /\ Line /\ Signal
  BY DEF LogicIInv
<1>2. /\ UNCHANGED <<Model, phase, icr, sinceClear, owed, late, overlapped, scheduled, asserted>>
      /\ phase = "PHI1" /\ sinceClear \in {1, 2} /\ Single(events) /\ idr' = idrTemp
      /\ events[d].left = 0
  BY DueFacts DEF Frame, Irq!history, Irq!UpdateIdr, IsDue
<1>3. CASE sinceClear = 2
  <2>1. events' = Irq!RemoveAt(events, d) /\ UNCHANGED idrTemp
    BY <1>3 DEF Irq!UpdateIdr, Irq!ack0
  <2>2. /\ Irq!EventsOnce' /\ Times' /\ Ages' /\ Order' /\ scheduled' \in BOOLEAN
        /\ \A e : Pends(e)' <=> Pends(e) /\ e # "updateIdr"
        /\ \A k \in DOMAIN events' : \E m \in DOMAIN events \ {d} : events'[k] = events[m]
        /\ \A m \in DOMAIN events \ {d} : \E k \in DOMAIN events' : events'[k] = events[m]
    BY <1>2, <1>3, <2>1, DueRemoved, ZenonT(60)
  <2>3. Pends("updateIdr")
    BY DEF Pends, Irq!IsPending
  <2>4. Remains' = idrTemp /\ Remains = idrTemp /\ (Alone' <=> Alone)
    BY <1>2, <2>2, <2>3 DEF Remains, Alone
  <2>5. Delayed'
    <3>1. \A k \in DOMAIN events' : events'[k].event # "updateIdr"
      <4>1. ~Irq!IsPending("updateIdr", events')
        BY <2>2 DEF Pends
      <4> QED BY <4>1 DEF Irq!IsPending
    <3>2. \A i \in DOMAIN events : events[i].event = "setIrq" /\ events[i].left = 1 =>
             "REQUEST" \in idrTemp
      BY <1>1, <1>2 DEF Delayed
    <3> QED BY <1>1, <1>2, <2>2, <2>4, <3>1, <3>2 DEF Delayed, Live
  <2>6. Flags' /\ Signal'
    BY <1>1, <1>2, <2>2, <2>4 DEF Flags, Signal
  <2>7. Line'
    <3>1. ASSUME NEW i \in DOMAIN events, Live(i)  PROVE \E k \in DOMAIN events' : Live(k)'
      <4>1. i # d
        BY <3>1 DEF Live
      <4> QED BY <1>2, <2>2, <3>1, <4>1 DEF Live
    <3> QED BY <1>1, <1>2, <2>2, <2>4, <3>1 DEF Line
  <2>8. Irq!TypeOK'
    BY <1>1, <1>2, <2>1, <2>2, FrameTypes DEF Irq!TypeOK
  <2> QED BY <2>2, <2>5, <2>6, <2>7, <2>8 DEF LogicIInv
<1>4. CASE sinceClear = 1
  <2>1. events' = Irq!Scheduled("updateIdr", 1, Irq!RemoveAt(events, d)) /\ idrTemp' = {}
    BY <1>4 DEF Irq!UpdateIdr, Irq!ack0
  <2>2. ~Alone /\ ~Alone'
    BY <1>1, <1>2, <1>4 DEF Ages, Alone
  <2>3. /\ Irq!EventsOnce' /\ Times' /\ Ages' /\ Order' /\ scheduled' \in BOOLEAN
        /\ \A f : Pends(f)' <=> f = "updateIdr" \/ (Pends(f) /\ f # events[d].event)
        /\ \A k \in DOMAIN events' :
             \/ events'[k].event = "updateIdr" /\ events'[k].left = 1
             \/ \E m \in DOMAIN events \ {d} : events'[k] = events[m]
    BY <1>2, <2>1, <2>2, DueReplaced
  <2>4. Delayed'
    <3>1. \A i \in DOMAIN events : events[i].event = "setIrq" /\ events[i].left = 1 =>
             "REQUEST" \in idrTemp
      BY <1>1, <1>2 DEF Delayed
    <3>2. \A k \in DOMAIN events' : events'[k].event = "updateIdr" => events'[k].left = 1
      BY <1>2, <2>3 DEF Single
    <3> QED BY <1>2, <2>2, <2>3, <3>1, <3>2 DEF Delayed
  <2>5. Flags' /\ Signal'
    BY <2>2 DEF Flags, Signal
  <2>6. Line'
    BY <1>1, <1>2, <2>2, <2>3 DEF Line
  <2>7. Irq!TypeOK'
    BY <1>1, <1>2, <2>1, <2>3, FrameTypes DEF Irq!TypeOK
  <2> QED BY <2>3, <2>4, <2>5, <2>6, <2>7 DEF LogicIInv
<1> QED BY <1>2, <1>3, <1>4

\* The request is there already: nothing but the queue changes.
LEMMA FireInterruptAgain ==
  ASSUME LogicIInv, NEW d \in DOMAIN events, IsDue(d), Frame,
         events[d].event = "interrupt", "REQUEST" \in idr, Irq!Interrupt(Irq!RemoveAt(events, d))
  PROVE  LogicIInv'
<1>1. /\ Irq!TypeOK /\ Irq!EventsOnce /\ Times /\ Ages /\ Order /\ Delayed /\ Flags /\ Line /\ Signal
  BY DEF LogicIInv
<1>2. /\ UNCHANGED <<Model, phase, icr, sinceClear, owed, late, overlapped, idr, idrTemp, asserted>>
      /\ events' = Irq!RemoveAt(events, d) /\ scheduled' = FALSE
  BY DEF Frame, Irq!history, Irq!Interrupt
<1>3. /\ Irq!EventsOnce' /\ Times' /\ Ages' /\ Order' /\ scheduled' \in BOOLEAN
      /\ \A e : Pends(e)' <=> Pends(e) /\ e # "interrupt"
      /\ \A k \in DOMAIN events' : \E m \in DOMAIN events \ {d} : events'[k] = events[m]
      /\ \A m \in DOMAIN events \ {d} : \E k \in DOMAIN events' : events'[k] = events[m]
  BY <1>2, DueRemoved, ZenonT(60)
<1>4. Remains' = Remains /\ (Alone' <=> Alone)
  BY <1>2, <1>3 DEF Remains, Alone
<1>5. Delayed'
  BY <1>1, <1>2, <1>3, <1>4 DEF Delayed, Live
<1>6. Flags'
  BY <1>1, <1>2, <1>3, <1>4 DEF Flags
<1>7. Line'
  <2>1. ASSUME NEW i \in DOMAIN events, Live(i)  PROVE \E k \in DOMAIN events' : Live(k)'
    <3>1. i # d
      BY <2>1 DEF Live
    <3> QED BY <1>2, <1>3, <2>1, <3>1 DEF Live
  <2> QED BY <1>1, <1>2, <1>3, <1>4, <2>1 DEF Line
<1>8. Signal'
  <2>1. CASE Alone /\ Pends("updateIdr")
    BY <1>2, <1>4, <2>1, DueRead DEF Signal
  <2>2. CASE ~Pends("updateIdr")
    BY <1>2, <1>4, <2>2 DEF Signal, Remains
  <2> QED BY <1>4, <2>1, <2>2 DEF Signal
<1>9. Irq!TypeOK'
  BY <1>1, <1>2, <1>3, FrameTypes DEF Irq!TypeOK
<1> QED BY <1>3, <1>5, <1>6, <1>7, <1>8, <1>9 DEF LogicIInv

LEMMA FireInterrupt ==
  ASSUME LogicIInv, NEW d \in DOMAIN events, IsDue(d), Frame,
         events[d].event = "interrupt", "REQUEST" \notin idr, Irq!Interrupt(Irq!RemoveAt(events, d))
  PROVE  LogicIInv'
<1> DEFINE new == Model = "8521" /\ Irq!ack0
<1>1. /\ Irq!TypeOK /\ Irq!EventsOnce /\ Times /\ Ages /\ Order /\ Delayed /\ Flags /\ Line /\ Signal
  BY DEF LogicIInv
<1>2. /\ UNCHANGED <<Model, phase, icr, sinceClear, owed, late, overlapped>>
      /\ scheduled' = FALSE
      /\ idr' = idr \cup {"REQUEST"}
      /\ idrTemp' = IF Model = "8521" THEN idrTemp \cup {"REQUEST"} ELSE idrTemp
      /\ events' = IF new THEN Irq!Scheduled("setIrq", 1, Irq!RemoveAt(events, d)) ELSE Irq!RemoveAt(events, d)
  BY DEF Frame, Irq!history, Irq!Interrupt
<1>3. /\ phase = "PHI1" /\ sinceClear \in {1, 2} /\ Single(events) /\ events[d].left = 0
      /\ \A i \in DOMAIN events : i < d => events[i].left = 1
  BY DueFacts DEF IsDue
<1>4. asserted' = (asserted \/ sinceClear = 2) /\ asserted \in BOOLEAN
      /\ (new <=> Model = "8521" /\ sinceClear = 1)
  BY <1>1, <1>3 DEF Irq!Interrupt, Irq!SetIrq, Irq!ack0, Irq!TypeOK
<1> HIDE DEF new
\* setIrq would have come before, and have found the request.
<1>5. \A i \in DOMAIN events : events[i].event # "setIrq"
  <2>1. ASSUME NEW i \in DOMAIN events, events[i].event = "setIrq"  PROVE FALSE
    <3>1. i < d
      BY <1>1, <2>1 DEF Order
    <3>2. "REQUEST" \in idr
      BY <1>1, <1>3, <2>1, <3>1 DEF Delayed
    <3> QED BY <3>2
  <2> QED BY <2>1
<1>6. /\ Irq!EventsOnce' /\ Times' /\ Ages' /\ Order' /\ scheduled' \in BOOLEAN
      /\ \A e : Pends(e)' <=> (new /\ e = "setIrq") \/ (Pends(e) /\ e # "interrupt")
      /\ \A k \in DOMAIN events' :
           \/ new /\ events'[k].event = "setIrq" /\ events'[k].left = 1
           \/ \E m \in DOMAIN events \ {d} : events'[k] = events[m]
      /\ new => \E k \in DOMAIN events' : events'[k].event = "setIrq" /\ events'[k].left = 1
  <2>1. CASE new
    <3>1. ~Pends("setIrq")
      BY <1>5 DEF Pends, Irq!IsPending
    <3>2. events' = Irq!Scheduled("setIrq", 1, Irq!RemoveAt(events, d))
      BY <1>2, <2>1
    <3>3. /\ Irq!EventsOnce' /\ Times' /\ Ages' /\ Order' /\ scheduled' \in BOOLEAN
          /\ \A f : Pends(f)' <=> f = "setIrq" \/ (Pends(f) /\ f # events[d].event)
          /\ \A k \in DOMAIN events' :
               \/ events'[k].event = "setIrq" /\ events'[k].left = 1
               \/ \E m \in DOMAIN events \ {d} : events'[k] = events[m]
          /\ \E k \in DOMAIN events' : events'[k].event = "setIrq" /\ events'[k].left = 1
      BY <1>2, <1>4, <2>1, <3>1, <3>2, DueReplaced
    <3> QED BY <2>1, <3>3
  <2>2. CASE ~new
    <3>1. events' = Irq!RemoveAt(events, d)
      BY <1>2, <2>2
    <3>2. /\ Irq!EventsOnce' /\ Times' /\ Ages' /\ Order' /\ scheduled' \in BOOLEAN
          /\ \A e : Pends(e)' <=> Pends(e) /\ e # "interrupt"
          /\ \A k \in DOMAIN events' : \E m \in DOMAIN events \ {d} : events'[k] = events[m]
      BY <1>2, <3>1, DueRemoved
    <3> QED BY <2>2, <3>2
  <2> QED BY <2>1, <2>2
<1>7. /\ Pends("updateIdr")' <=> Pends("updateIdr")
      /\ Pends("clearIrq")' <=> Pends("clearIrq")
      /\ Alone' <=> Alone
  BY <1>2, <1>6 DEF Alone
\* What a read will find: the request, unless one is about to take effect without it.
<1>8. /\ Alone => "REQUEST" \notin Remains
      /\ Remains' \ {"REQUEST"} = Remains \ {"REQUEST"}
      /\ "REQUEST" \in Remains' <=>
           "REQUEST" \in Remains \/ ~Pends("updateIdr") \/ Model = "8521"
  BY <1>1, <1>2, <1>7 DEF Flags, Remains
<1>9. Alone /\ Pends("updateIdr") => sinceClear = 1 /\ owed \subseteq late
  BY DueRead
<1>10. sinceClear = 2 => ~Pends("clearIrq")
  BY <1>1, <1>3 DEF Ages, Pends, Irq!IsPending
<1>11. Delayed'
  <2>1. \A k \in DOMAIN events' : events'[k].event = "setIrq" => new /\ events'[k].left = 1
    BY <1>5, <1>6
  <2>2. new => Model = "8521" /\ "REQUEST" \in idr' /\ "REQUEST" \in idrTemp'
    BY <1>2, <1>4
  <2>3. new => "REQUEST" \in Remains'
    BY <1>8, <2>2
  <2> QED BY <2>1, <2>2, <2>3, <1>2 DEF Delayed, Live
<1>12. Flags'
  BY <1>1, <1>2, <1>7, <1>8 DEF Flags
<1>13. Signal'
  BY <1>2, <1>7, <1>8, <1>9 DEF Signal
<1>14. Line'
  <2>1. (sinceClear < 2 => Pends("clearIrq") \/ ~asserted)'
    BY <1>1, <1>2, <1>3, <1>4, <1>7 DEF Line
  <2>2. (Alone /\ asserted /\ ~Pends("clearIrq") => "REQUEST" \in Remains)'
    BY <1>1, <1>3, <1>4, <1>7, <1>8, <1>9 DEF Line
  <2>3. ASSUME Alone, "REQUEST" \in Remains', ~asserted' \/ Pends("clearIrq")
        PROVE  \E k \in DOMAIN events' : Live(k)'
    <3>1. sinceClear = 1
      BY <1>3, <1>4, <1>10, <2>3
    <3>2. Model = "8521"
      <4>1. ASSUME Model # "8521"  PROVE FALSE
        <5>1. ~Pends("updateIdr")
          BY <1>8, <2>3, <4>1
        <5>2. events[d].left + sinceClear >= 2
          BY <1>1, <2>3, <4>1, <5>1 DEF Ages
        <5> QED BY <1>3, <3>1, <5>2
      <4> QED BY <4>1
    <3>3. PICK k \in DOMAIN events' : events'[k].event = "setIrq" /\ events'[k].left = 1
      BY <1>4, <1>6, <3>1, <3>2
    <3> QED BY <1>2, <3>1, <3>3 DEF Live
  <2> QED BY <1>7, <2>1, <2>2, <2>3 DEF Line
<1>15. Irq!TypeOK'
  <2>1. idr' \subseteq Source \cup {"REQUEST"} /\ idrTemp' \subseteq Source \cup {"REQUEST"}
    BY <1>1, <1>2 DEF Irq!TypeOK
  <2> QED BY <1>1, <1>4, <1>6, <2>1, FrameTypes
<1> QED BY <1>6, <1>11, <1>12, <1>13, <1>14, <1>15 DEF LogicIInv

LEMMA FireStep ==
  ASSUME LogicIInv, Irq!Fire, UNCHANGED Model  PROVE LogicIInv'
<1>1. PICK d \in DOMAIN events :
        /\ IsDue(d)
        /\ \/ events[d].event = "interrupt" /\ Irq!Interrupt(Irq!RemoveAt(events, d))
           \/ events[d].event = "updateIdr" /\ Irq!UpdateIdr(Irq!RemoveAt(events, d))
           \/ /\ events[d].event = "setIrq"
              /\ Irq!SetIrq
              /\ events' = Irq!RemoveAt(events, d)
              /\ UNCHANGED <<idr, idrTemp, scheduled>>
           \/ /\ events[d].event = "clearIrq"
              /\ asserted' = FALSE
              /\ events' = Irq!RemoveAt(events, d)
              /\ UNCHANGED <<idr, idrTemp, scheduled>>
  BY DEF Irq!Fire, IsDue
<1>2. Frame
  BY DEF Irq!Fire, Frame
<1> QED BY <1>1, <1>2, FireInterrupt, FireInterruptAgain, FireUpdateIdr, FireSetIrq, FireClearIrq

LEMMA Stuttering ==
  ASSUME LogicIInv, UNCHANGED Irq!vars  PROVE LogicIInv'
BY DEF Irq!vars, Irq!history, LogicIInv, Irq!TypeOK, Irq!EventsOnce, Times, Ages, Order, Delayed, Flags, Line, Signal,
       Remains, Live, Alone, Pends

LEMMA LogicNextKeeps ==
  ASSUME LogicIInv, [Irq!Next]_(Irq!vars)  PROVE LogicIInv'
<1>1. ASSUME Irq!Run, UNCHANGED Model  PROVE LogicIInv'
  <2>1. CASE \E s \in Source : Irq!Trigger(s)
    BY <1>1, <2>1, TriggerStep, SourceAssumption
  <2>2. CASE \E mask \in SUBSET Source, on \in BOOLEAN : Irq!Set(mask, on)
    BY <1>1, <2>2, SetStep
  <2> QED BY <1>1, <2>1, <2>2, FireStep, HalfCycleStep, ClearStep, CycleStep DEF Irq!Run
<1> QED BY <1>1, ResetStep, Stuttering DEF Irq!Next

-----------------------------------------------------------------------------
(* The chip.                                                               *)

chip == <<vars, logic, port, tod>>

LEMMA TimerSteps == CiaSpec => Init /\ [][Next]_vars
<1>1. CiaInit => Init
  BY DEF CiaInit
<1>2. [CiaNext]_chip => [Next]_vars
  BY DEF CiaNext, chip
<1> QED BY <1>1, <1>2, PTL DEF CiaSpec, chip

LEMMA LogicSteps == CiaSpec => []LogicIInv
<1>1. CiaInit => LogicIInv
  BY Initially DEF CiaInit
<1>2. [CiaNext]_chip => [Irq!Next]_(Irq!vars)
  BY DEF CiaNext, chip, logic, Irq!vars, Irq!history
<1> QED BY <1>1, <1>2, LogicNextKeeps, PTL DEF CiaSpec, chip

LEMMA PortSteps == CiaSpec => []PortIInv
<1>1. CiaInit => PortIInv
  BY PortInitKeeps DEF CiaInit
<1>2. [CiaNext]_chip => [Port!Next]_(Port!vars)
  BY DEF CiaNext, chip, port, Port!vars, Port!environment
<1> QED BY <1>1, <1>2, PortNextKeeps, PTL DEF CiaSpec, chip

LEMMA DayAlways == CiaSpec => []DayInv /\ [][Day!Next]_(Day!vars)
<1>1. CiaInit => DayInv
  BY DayInit DEF CiaInit
<1>2. [CiaNext]_chip => [Day!Next]_(Day!vars)
  BY DEF CiaNext, chip, tod, Day!vars, Day!settings
<1> QED BY <1>1, <1>2, DaySteps, PTL DEF CiaSpec, chip

\* A running timer has exactly one event queued and a stopped one has none; the
\* logic and the port queue none of theirs that is pending. The event list
\* needs it, and most of the calls are made without a test.
THEOREM QueuedOnceCorrect == CiaSpec => []QueuedOnce
<1>1. IInv => OneEvent
  BY DEF IInv
<1>2. LogicIInv => Irq!EventsOnce
  BY DEF LogicIInv
<1>3. PortIInv => Port!QueuedOnce
  BY DEF PortIInv
<1> QED BY <1>1, <1>2, <1>3, TimerSteps, LogicSteps, PortSteps, Invariance, PTL
           DEF QueuedOnce

\* Sleeping and stopping are invisible, for a counter of any width and every
\* sequence of register accesses: the timer an access finds and the cycles in
\* which it underflows are those of a timer clocked on every cycle.
THEOREM AgreeCorrect == CiaSpec => []Agree
<1>1. IInv => Agree
  <2> SUFFICES ASSUME IInv PROVE Agree
    OBVIOUS
  <2>1. Synced \in Timer /\ ref \in Timer /\ Same(Synced, ref)
    BY SyncedSame DEF IInv, TypeOK
  <2>2. ASSUME NEW c \in Timer, NEW d \in Timer, Same(c, d) PROVE Seen(c) = Seen(d)
    <3>1. c.flags \ {"ONESHOT"} = d.flags \ {"ONESHOT"}
      BY <2>2 DEF Same, Timer
    <3> QED BY <2>2, <3>1 DEF Seen, Same, Timer
  <2> QED BY <2>1, <2>2 DEF Agree, IInv, Follows
<1> QED BY <1>1, TimerSteps, Invariance, PTL

\* A read returns each flag that was set since the last one, and no other,
\* wherever in the delay of a read the flag is set.
THEOREM FlagsOwedCorrect == CiaSpec => []FlagsOwed
<1>1. ASSUME LogicIInv  PROVE Irq!FlagsOwed
  <2>1. Irq!TypeOK /\ Ages /\ Flags /\ Times
    BY <1>1 DEF LogicIInv
  <2>2. ASSUME Alone, phase = "PHI2", sinceClear = 2  PROVE ~Pends("updateIdr")
    BY <2>1, <2>2 DEF Ages, Times, Pends, Irq!IsPending
  <2> QED BY <2>1, <2>2 DEF Irq!FlagsOwed, Flags, Alone, Remains
<1> QED BY <1>1, LogicSteps, PTL DEF FlagsOwed

\* A read takes the line down in the next cycle, and after that the line and
\* the request bit say the same.
THEOREM LineExplainedCorrect == CiaSpec => []LineExplained
<1>1. ASSUME LogicIInv  PROVE Irq!LineExplained
  <2>1. Irq!TypeOK /\ Ages /\ Flags /\ Times /\ Line
    BY <1>1 DEF LogicIInv
  <2>2. CASE phase = "PHI2"
    <3>1. Pends("clearIrq") => sinceClear = 0
      BY <2>1, <2>2 DEF Ages, Pends, Irq!IsPending
    <3>2. Irq!ack0 => ~asserted
      BY <2>1, <3>1 DEF Line, Irq!ack0
    <3>3. ASSUME Alone, asserted, sinceClear > 0  PROVE "REQUEST" \in idr
      BY <2>1, <3>1, <3>3 DEF Line, Flags
    <3>4. ASSUME Alone, "REQUEST" \in idr, sinceClear = 2  PROVE asserted
      <4>1. ~Pends("updateIdr")
        BY <2>1, <2>2, <3>4 DEF Ages, Times, Pends, Irq!IsPending
      <4>2. \A i \in DOMAIN events : ~Live(i)
        BY <2>2, <3>4 DEF Live
      <4> QED BY <2>1, <3>4, <4>1, <4>2 DEF Line, Remains
    <3> QED BY <3>2, <3>3, <3>4 DEF Irq!LineExplained, Alone
  <2> QED BY <2>2 DEF Irq!LineExplained
<1> QED BY <1>1, LogicSteps, PTL DEF LineExplained

\* An enabled flag has set the request or has an interrupt on its way, whatever
\* the order of flags, reads and writes of the mask.
THEOREM SignalledCorrect == CiaSpec => []Signalled
<1>1. LogicIInv => Irq!Signalled
  BY DEF LogicIInv, Irq!Signalled, Signal, Flags, Alone
<1> QED BY <1>1, LogicSteps, PTL DEF Signalled

\* No interrupt of the serial port is lost or given twice, however bytes,
\* underflows, switches of the direction and resets follow upon each other.
THEOREM BytesCorrect == CiaSpec => []BytesAnnounced
<1>1. PortIInv => BytesAnnounced
  BY DEF PortIInv, BytesAnnounced
<1> QED BY <1>1, PortSteps, PTL

\* The line noted only when something happens is the line as it was in each
\* cycle, and the decision whether a byte cut off is finished is right, but
\* for a trigger time that a reset left behind.
THEOREM CutOffCorrect == CiaSpec => []CutOffRightly
<1>1. PortIInv => CutOffRightly
  BY DEF PortIInv, CutOffRightly, Port!CutOffRightly, LineKnown, FlipKnown
<1> QED BY <1>1, PortSteps, PTL

\* What is read from the hours down to the tenths is one moment, while the clock
\* runs or is written.
THEOREM OneMomentCorrect == CiaSpec => OneMoment
<1> DEFINE Shows == \A reg \in Day!Register :
                      Day!Read(reg) => latch'[reg] = IF shown = <<>> THEN clock[reg] ELSE shown[reg]
<1>1. ASSUME DayInv, NEW reg \in Day!Register, Day!Read(reg)
      PROVE  latch'[reg] = IF shown = <<>> THEN clock[reg] ELSE shown[reg]
  <2>1. latch' = IF isLatched THEN latch ELSE clock
    BY <1>1 DEF Day!Read, Day!Latch
  <2>2. isLatched => shown # <<>>
    BY <1>1, ClockShown DEF DayInv
  <2> QED BY <1>1, <2>1, <2>2 DEF DayInv
<1>2. DayInv /\ [Day!Next]_(Day!vars) => [Shows]_(Day!vars)
  BY <1>1
<1>3. CiaSpec => [][Shows]_(Day!vars)
  BY <1>2, DayAlways, PTL
<1> QED BY <1>3 DEF OneMoment, Day!OneMoment

\* The alarm goes off when clock and alarm become the same, whichever of the
\* two moved, and not again while they stay so.
THEOREM AlarmOnceCorrect == CiaSpec => AlarmOnce
<1> DEFINE Rings == alarmed' <=> alarm' = clock' /\ alarm # clock
<1>1. DayInv /\ [Day!Next]_(Day!vars) => [Rings]_(Day!vars)
  <2> SUFFICES ASSUME DayInv, Day!Next  PROVE Rings
    OBVIOUS
  <2>1. CASE Day!Tick
    <3>1. Day!UpdateCounters(clock) # clock
      BY ClockAdvances DEF DayInv
    <3> QED BY <2>1, <3>1 DEF Day!Tick, Day!CheckAlarm
  <2>2. ASSUME NEW reg \in Day!Register, Day!Read(reg)  PROVE Rings
    BY <2>2 DEF Day!Read
  <2>3. ASSUME NEW reg \in Day!Register, NEW data \in program.writes[reg], Day!Write(reg, data)  PROVE Rings
    <3>1. CASE crb7 = 1
      <4>1. clock' = clock /\ (alarmed' <=> alarm' # alarm /\ alarm' = clock)
        BY <2>3, <3>1 DEF Day!Write, Day!WriteAlarm, Day!CheckAlarm
      <4> QED BY <4>1
    <3>2. CASE crb7 # 1
      <4>1. alarm' = alarm /\ (alarmed' <=> clock' # clock /\ alarm = clock')
        BY <2>3, <3>2 DEF Day!Write, Day!WriteClock, Day!CheckAlarm
      <4> QED BY <4>1
    <3> QED BY <3>1, <3>2
  <2>4. CASE Day!WriteControlA \/ Day!WriteControlB
    BY <2>4 DEF Day!WriteControlA, Day!WriteControlB, Day!times
  <2>5. CASE Day!Reset
    BY <2>5, StartIsClock DEF Day!Reset
  <2> QED BY <2>1, <2>2, <2>3, <2>4, <2>5 DEF Day!Next
<1>2. CiaSpec => [][Rings]_(Day!vars)
  BY <1>1, DayAlways, PTL
<1> QED BY <1>2 DEF AlarmOnce, Day!AlarmOnce

\* Every tenth comes after five ticks at 50 Hz and six at 60 Hz of an undisturbed
\* divider, and from a time that a clock shows leads to the next one.
THEOREM KeepsTimeCorrect == CiaSpec => KeepsTime
<1> DEFINE Keeps ==
      Day!Advances =>
        /\ ticks \in {-1, 5 - cra7}
        /\ Day!IsTime(clock) =>
             /\ Day!IsTime(clock')
             /\ Day!SinceMidnight(clock') = (Day!SinceMidnight(clock) + 1) % 864000
<1>1. DayInv /\ [Day!Next]_(Day!vars) => [Keeps]_(Day!vars)
  <2> SUFFICES ASSUME DayInv, Day!Next, Day!Advances
               PROVE  /\ ticks \in {-1, 5 - cra7}
                      /\ Day!IsTime(clock) =>
                           /\ Day!IsTime(clock')
                           /\ Day!SinceMidnight(clock') = (Day!SinceMidnight(clock) + 1) % 864000
    OBVIOUS
  <2>1. tenths \in Nat /\ tenths' = tenths + 1 /\ IsClock(clock)
    BY DEF DayInv, Day!Advances
  <2>2. CASE Day!Tick
    <3>1. ring = Day!Match /\ clock' = Day!UpdateCounters(clock)
      BY <2>1, <2>2, SMT DEF Day!Tick
    <3>2. ticks \in {-1, 5 - cra7}
      <4>1. ticks = -1 \/ ticks >= 0
        BY SMT DEF DayInv
      <4> QED BY <3>1, <4>1, RingTurns, SMT
    <3> QED BY <2>1, <3>1, <3>2, ClockAdvances, SMT
  <2>3. ASSUME NEW reg \in Day!Register, Day!Read(reg)  PROVE FALSE
    BY <2>1, <2>3, SMT DEF Day!Read
  <2>4. ASSUME NEW reg \in Day!Register, NEW data \in program.writes[reg], Day!Write(reg, data)  PROVE FALSE
    BY <2>1, <2>4, SMT DEF Day!Write
  <2>5. ~Day!WriteControlA /\ ~Day!WriteControlB /\ ~Day!Reset
    BY <2>1, SMT DEF Day!WriteControlA, Day!WriteControlB, Day!Reset
  <2> QED BY <2>2, <2>3, <2>4, <2>5, SMT DEF Day!Next
<1>2. CiaSpec => [][Keeps]_(Day!vars)
  BY <1>1, DayAlways, PTL
<1> QED BY <1>2, PTL DEF KeepsTime, Day!KeepsTime
=============================================================================

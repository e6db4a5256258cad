------------------------------ MODULE TimerOps ------------------------------
(***************************************************************************)
(* One interval timer of a CIA as a value, and what a clock of it and a    *)
(* register access make of it (src/c64/CIA/timer.h, timer.cpp).            *)
(*                                                                         *)
(* The bits of m_state are a set of names.  The control register is the    *)
(* set of its bits that matter to the timer: TOGGLE stands for the two     *)
(* bits 0x06 of PB6/PB7 toggling, INMODE for bit 5 (count something else   *)
(* than the clock), which m_state keeps inverted as PHI2IN.                *)
(***************************************************************************)
EXTENDS Integers

CONSTANT Byte  \* number of values of a byte: 256; fewer in the models

ASSUME ByteAssumption == Byte \in Nat /\ Byte > 1

Word == 0 .. Byte * Byte - 1

ControlBit == {"START", "TOGGLE", "ONESHOT", "FLOAD", "INMODE"}

Flag == {"START", "STEP", "CR_ONESHOT", "CR_FLOAD", "PHI2IN", "COUNT2", "COUNT3",
         "ONESHOT0", "ONESHOT", "LOAD1", "LOAD", "OUT"}

Timer == [timer : Word, latch : Word, flags : SUBSET Flag, pb : BOOLEAN, ctrl : SUBSET ControlBit]

\* The control register's bits in m_state.
CrMask == {"START", "CR_ONESHOT", "CR_FLOAD", "PHI2IN"}

Given(test, S) == IF test THEN S ELSE {}

\* The flags one clock later, before the effect of an underflow.
Shifted(f) ==
  (f \cap {"START", "CR_ONESHOT", "PHI2IN"})
    \cup Given({"START", "PHI2IN"} \subseteq f, {"COUNT2"})
    \cup Given("COUNT2" \in f \/ {"STEP", "START"} \subseteq f, {"COUNT3"})
    \cup Given("CR_FLOAD" \in f, {"LOAD1"})
    \cup Given("LOAD1" \in f, {"LOAD"})
    \cup Given("CR_ONESHOT" \in f, {"ONESHOT0"})
    \cup Given("ONESHOT0" \in f, {"ONESHOT"})

\* The counter after the decrement of this clock: a 16-bit word, it wraps.
Counted(t) == IF "COUNT3" \in t.flags THEN (t.timer - 1) % (Byte * Byte) ELSE t.timer

\* This clock calls underFlow().
Underflows(t) == Counted(t) = 0 /\ "COUNT3" \in Shifted(t.flags)

\* The flags after this clock.
NextFlags(t) ==
  LET s == Shifted(t.flags)
      stop == Given({"ONESHOT", "ONESHOT0"} \cap s # {}, {"START", "COUNT2"})
  IN IF Underflows(t) THEN (s \cup {"LOAD", "OUT"}) \ (stop \cup {"COUNT3"})
     ELSE s \ Given("LOAD1" \in t.flags, {"COUNT3"})

\* Timer::clock().
Clock(t) ==
  LET flags == NextFlags(t)
  IN [t EXCEPT !.timer = IF "LOAD" \in flags THEN t.latch ELSE Counted(t),
               !.flags = flags,
               !.pb = IF Underflows(t) THEN "TOGGLE" \in t.ctrl /\ ~@ ELSE @]

\* setControlRegister(cr), and setPbToggle(true) by MOS652X::write when the
\* register's start bit rises.
SetControl(t, cr) ==
  [t EXCEPT !.flags = (@ \ CrMask)
                        \cup Given("START" \in cr, {"START"})
                        \cup Given("ONESHOT" \in cr, {"CR_ONESHOT"})
                        \cup Given("FLOAD" \in cr, {"CR_FLOAD"})
                        \cup Given("INMODE" \notin cr, {"PHI2IN"}),
            !.pb = @ \/ ("START" \in cr /\ "START" \notin t.ctrl),
            !.ctrl = cr]

\* latchLo(data).
LatchLo(t, data) ==
  LET latch == ((t.latch \div Byte) * Byte) + data
  IN [t EXCEPT !.latch = latch,
               !.timer = IF "LOAD" \in t.flags THEN latch ELSE @]

\* latchHi(data): a stopped timer is reloaded.
LatchHi(t, data) ==
  LET latch == (data * Byte) + (t.latch % Byte)
  IN [t EXCEPT !.latch = latch,
               !.timer = IF "LOAD" \in t.flags THEN latch ELSE @,
               !.flags = @ \cup Given({"LOAD", "START"} \cap t.flags = {}, {"LOAD1"})]

\* TimerB::cascade(), between the two calls that synchronise the timer.
Step(t) == [t EXCEPT !.flags = @ \cup {"STEP"}]

\* The fields reset() sets.
ResetTimer ==
  [timer |-> Byte * Byte - 1, latch |-> Byte * Byte - 1, flags |-> {}, pb |-> FALSE, ctrl |-> {}]

=============================================================================

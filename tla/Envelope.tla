------------------------------ MODULE Envelope ------------------------------
(***************************************************************************)
(* The envelope of one voice (sidlite/ADSR.cpp) and the writes of the      *)
(* program that drive it, through the mutes of sidemu.cpp. The rate        *)
(* counter is clocked by several cycles at a time and is reset only where  *)
(* it meets the period in force: a period below it has to wait for the     *)
(* counter to wrap.                                                        *)
(*                                                                         *)
(* The program may end its writes with the gate off. The sizes are         *)
(* constants; what matters of the real ones, in parentheses, is that a     *)
(* period is longer than the cycles clocked at once and shorter than the   *)
(* counter's range.                                                        *)
(***************************************************************************)
EXTENDS Integers

CONSTANTS
  Periods,          \* of ADSRprescalePeriods (9..31251)
  ExponentPeriods,  \* a function of the envelope (1..30)
  RateRange,        \* (0x8000)
  Chunks,           \* the cycles of a call of clock() (1..7)
  Top,              \* (0xFF)
  SustainLevels

VARIABLES
  attack, decay, release, sustain, gate,   \* the registers
  muted,
  state,            \* the set of ADSRstate's bits
  RateCounter, EnvelopeCounter, ExponentCounter,
  quiet             \* the program has made its last write

regs == <<attack, decay, release, sustain, gate, muted, quiet>>
vars == <<regs, state, RateCounter, EnvelopeCounter, ExponentCounter>>

Byte == Top + 1

Init ==
  /\ attack \in Periods /\ decay \in Periods /\ release \in Periods
  /\ sustain \in SustainLevels
  /\ gate = FALSE /\ muted = FALSE /\ quiet = FALSE
  /\ state = {} /\ RateCounter = 0 /\ EnvelopeCounter = 0 /\ ExponentCounter = 0

-----------------------------------------------------------------------------
(* The control register of a muted voice keeps its gate off.               *)
Gate(g) == g /\ ~muted

WriteControl ==
  /\ ~quiet
  /\ \E g \in BOOLEAN : gate' = Gate(g)
  /\ UNCHANGED <<attack, decay, release, sustain, muted, quiet>>

WritePeriods ==
  /\ ~quiet
  /\ attack' \in Periods /\ decay' \in Periods /\ release' \in Periods
  /\ sustain' \in SustainLevels
  /\ UNCHANGED <<gate, muted, quiet>>

(* Player::mute: the gate is left as it is until the next write.           *)
Mute ==
  /\ muted' = ~muted
  /\ UNCHANGED <<attack, decay, release, sustain, gate, quiet>>

LastWrite ==
  /\ gate' = FALSE /\ quiet' = TRUE
  /\ UNCHANGED <<attack, decay, release, sustain, muted>>

Write == (WriteControl \/ WritePeriods \/ Mute \/ LastWrite)
           /\ UNCHANGED <<state, RateCounter, EnvelopeCounter, ExponentCounter>>

-----------------------------------------------------------------------------
(* A change of the gate, seen when the channel is next clocked.            *)
Edge ==
  IF gate = ("GATE" \in state) THEN state
  ELSE IF gate THEN {"GATE", "ATTACK", "DECAYSUSTAIN", "HOLDZEROn"}
  ELSE state \ {"GATE", "ATTACK", "DECAYSUSTAIN"}

PrescalePeriod(bits) ==
  IF "ATTACK" \in bits THEN attack
  ELSE IF "DECAYSUSTAIN" \in bits THEN decay ELSE release

CountUnwrapped(cycles) ==  \* as if the counter stayed at its end
  IF RateCounter + cycles >= RateRange THEN RateRange - 1 ELSE RateCounter + cycles
Count(cycles) ==
  IF RateCounter + cycles >= RateRange THEN RateCounter + cycles - RateRange
  ELSE RateCounter + cycles

(* The period was met within the cycles just counted.                      *)
Met(count, period, cycles) == period <= count /\ count < period + cycles

StepUp(bits) ==
  LET env == (EnvelopeCounter + 1) % Byte
  IN  /\ EnvelopeCounter' = env
      /\ state' = IF env = Top THEN bits \ {"ATTACK"} ELSE bits

StepDown(bits) ==
  LET env == (EnvelopeCounter - 1) % Byte
  IN  /\ EnvelopeCounter' = env
      /\ state' = IF env = 0 THEN bits \ {"HOLDZEROn"} ELSE bits

Hold(bits) == state' = bits /\ UNCHANGED EnvelopeCounter

(* The exponential counter, which slows down all but the attack, counts    *)
(* this step in full.                                                      *)
Step(bits) ==
  LET exponent == (ExponentCounter + 1) % Byte
      full == "ATTACK" \in bits \/ exponent = ExponentPeriods[EnvelopeCounter]
  IN  /\ ExponentCounter' = IF full THEN 0 ELSE exponent
      /\ \/ full /\ "HOLDZEROn" \in bits /\ "ATTACK" \in bits /\ StepUp(bits)
         \/ /\ full /\ "HOLDZEROn" \in bits /\ "ATTACK" \notin bits
            /\ "DECAYSUSTAIN" \notin bits \/ EnvelopeCounter # sustain
            /\ StepDown(bits)
         \/ /\ \/ ~full \/ "HOLDZEROn" \notin bits
               \/ "ATTACK" \notin bits /\ "DECAYSUSTAIN" \in bits /\ EnvelopeCounter = sustain
            /\ Hold(bits)

Clock(cycles) ==
  LET bits == Edge
      count == Count(cycles)
      period == PrescalePeriod(bits)
  IN  /\ UNCHANGED regs
      /\ IF Met(count, period, cycles)
         THEN RateCounter' = count - period /\ Step(bits)
         ELSE RateCounter' = count /\ Hold(bits) /\ UNCHANGED ExponentCounter

Clocks == \E cycles \in Chunks : Clock(cycles)

Next == Write \/ Clocks

(* The machine clocks the chip whatever the program does.                  *)
Fairness == WF_vars(Clocks)

-----------------------------------------------------------------------------
(* After the last write the envelope reaches zero for good, wherever the   *)
(* counters stood and whichever periods were last exchanged: no match is   *)
(* jumped over, no exponential count is missed and zero is held, also      *)
(* where an attack broken off before its first step has turned 0 into the  *)
(* top.                                                                    *)
EnvelopeEnds == [](quiet => <>[](EnvelopeCounter = 0))
=============================================================================

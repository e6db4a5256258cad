------------------------------- MODULE Noise -------------------------------
(***************************************************************************)
(* The noise of one channel as WavGen::clock() makes it for every sample   *)
(* (sidlite/WavGen.cpp). The channel steps its phase, unless its test bit  *)
(* or the sync from the channel before sets it to zero, and the noise      *)
(* waveform shifts its register when one bit of the phase has changed.     *)
(* Noise mixed with another waveform writes zeros into the register.       *)
(*                                                                         *)
(* Of a phase its four upper bits matter, and the finer ones that Phases   *)
(* leaves it. A register is the set of its bits that are one. The other    *)
(* channel's phase may rise in any sample.                                 *)
(***************************************************************************)
EXTENDS Integers, FiniteSets

CONSTANTS
  Phases,        \* PHASEACCU_RANGE, a multiple of 16
  Top,           \* the highest bit of NoiseLFSR (22)
  Tap,           \* the bit fed back with it (17)
  NoiseBits,     \* NOISE_MASK, the bits that make the output
  Steps          \* phase increments per sample

Waves == {"noise", "mixed", "other"}
Register == 0..Top

VARIABLES
  wave, test, sync, step,   \* the registers
  PhaseAccu, NoiseLFSR      \* between samples PrevPhaseAccu is PhaseAccu

program == <<wave, test, sync, step>>
vars == <<program, PhaseAccu, NoiseLFSR>>

Init ==
  /\ PhaseAccu = 0 /\ NoiseLFSR = Register
  /\ wave = "other" /\ step = 0 /\ test = FALSE /\ sync = FALSE

Reset ==
  /\ PhaseAccu' = 0 /\ NoiseLFSR' = Register
  /\ wave' = "other" /\ step' = 0 /\ test' = FALSE /\ sync' = FALSE

(* The program writes the frequency or the control register.               *)
Write ==
  /\ \/ step' \in Steps /\ UNCHANGED <<wave, test, sync>>
     \/ wave' \in Waves /\ test' \in BOOLEAN /\ sync' \in BOOLEAN /\ UNCHANGED step
  /\ UNCHANGED <<PhaseAccu, NoiseLFSR>>

-----------------------------------------------------------------------------
(* rise: the source's most significant bit has risen.                      *)
Stepped(rise) ==
  IF test \/ (sync /\ rise) THEN 0 ELSE (PhaseAccu + step) % Phases

NoiseClock == Phases \div 16
NoisePhase(phase) == (phase \div NoiseClock) % 2

(* The phase has passed the register's clock, or runs too fast to tell.    *)
Clocked(phase) == NoisePhase(phase) # NoisePhase(PhaseAccu) \/ step >= NoiseClock

Shifted(bits, in) ==
  {b + 1 : b \in bits \ {Top}} \union (IF in THEN {0} ELSE {})

FeedbackOfTop == Top \in NoiseLFSR /\ Tap \in NoiseLFSR  \* as if the bits were combined by AND
Feedback == (Top \in NoiseLFSR) # (Tap \in NoiseLFSR)

Noise(phase) ==
  IF Clocked(phase) THEN Shifted(NoiseLFSR, Feedback \/ test) ELSE NoiseLFSR

(* The waveforms write zeros back where the register stands still.         *)
Mixed(phase) ==
  IF Clocked(phase) \/ test THEN Shifted(NoiseLFSR, test) ELSE NoiseLFSR \ NoiseBits

Sample ==
  \E rise \in BOOLEAN :
    LET phase == Stepped(rise)
    IN  /\ PhaseAccu' = phase
        /\ NoiseLFSR' = CASE wave = "noise" -> Noise(phase)
                          [] wave = "mixed" -> Mixed(phase)
                          [] wave = "other" -> NoiseLFSR
        /\ UNCHANGED program

Next == Reset \/ Write \/ Sample

-----------------------------------------------------------------------------
(* The register is emptied, and the noise locked, only by a mixed          *)
(* waveform without the test bit; only that bit, or a reset, starts it     *)
(* again.                                                                  *)
NoiseKept ==
  [][/\ NoiseLFSR # {} /\ NoiseLFSR' = {} => wave = "mixed" /\ ~test
     /\ NoiseLFSR = {} /\ NoiseLFSR' # {} => test \/ Reset]_vars
=============================================================================

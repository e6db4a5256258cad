------------------------------ MODULE MCSound ------------------------------
(* A run is of one part of the sound, the others stay at their first       *)
(* state.                                                                  *)
(*                                                                         *)
(* The envelope has six levels, and periods just above the cycles clocked  *)
(* at once; the noise a register of five bits with a full cycle of 31, and *)
(* phases that pass its clock in one, several or no samples; two chips run *)
(* at 7.5 cycles per sample, more than the seven clocked at once as at     *)
(* every rate the emulation accepts. The mixer's samples are the ends of   *)
(* what TLC can square and values around a change of rounding. The         *)
(* hardware is an exSID and two USBSIDs, whose period is longer than two   *)
(* commands.                                                               *)
EXTENDS Sound, TLC

VARIABLE part

SlowAtTheEnd == <<3, 2, 2, 1, 1>> @@ (0 :> 1)

Loudest(n) == CASE n = 1 -> 32767 [] n = 2 -> 15433 [] n = 3 -> 9260
Levels(n) == {-Loudest(n) - 1, -9000, -257, -1, 0, 1, 2, 255, 256, 3000, Loudest(n)}

Rest == attack = 3 /\ decay = 3 /\ release = 3 /\ sustain = 0

MCInit == SoundInit /\
  \/ part = "sampling" /\ Rest /\ ~stereo /\ chips = 1
  \/ part = "envelope" /\ ~stereo /\ chips = 1
  \/ part = "noise" /\ Rest /\ ~stereo /\ chips = 1
  \/ part = "mixer" /\ Rest
  \/ part = "hardware" /\ Rest /\ ~stereo /\ chips = 1

MCNext ==
  /\ UNCHANGED part
  /\ \/ part = "sampling" /\ SamplingStep
     \/ part = "envelope" /\ EnvelopeStep
     \/ part = "noise" /\ NoiseStep
     \/ part = "mixer" /\ MixerStep
     \/ part = "hardware" /\ HardwareStep

\* The machine's time goes on: see Envelope.Fairness.
MCSpec ==
  /\ MCInit
  /\ [][MCNext]_<<part, sound>>
  /\ WF_envelope(part = "envelope" /\ Env!Clocks)

(* A released envelope reaches zero for good: see Envelope.EnvelopeEnds.   *)
EnvelopeEnds == part = "envelope" => Env!EnvelopeEnds
=============================================================================

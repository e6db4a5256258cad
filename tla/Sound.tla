------------------------------- MODULE Sound -------------------------------
(***************************************************************************)
(* The ways of a sample from the chips' registers to the client's buffer:  *)
(* the envelope and the noise of a voice, the clock that makes samples of  *)
(* them, the mixer, and the chips that are hardware. They share no state:  *)
(* a step is one of any of them.                                           *)
(***************************************************************************)
EXTENDS Sampling

CONSTANTS
  Periods, ExponentPeriods, RateRange, Chunks, EnvelopeTop, SustainLevels,  \* Envelope
  Phases, Top, Tap, NoiseBits, Steps,                                       \* Noise
  Samples(_),                                                               \* Mixer
  ExSids, UsbSids, Limit, raster_rate, LastCycle                            \* Device

VARIABLES
  attack, decay, release, sustain, gate, muted, state,
  RateCounter, EnvelopeCounter, ExponentCounter, quiet,
  wave, test, sync, step, PhaseAccu, NoiseLFSR,
  stereo, chips, m_iSamples, out,
  now, m_accessClk, readflag, m_delayClk, queued, passed, commands, written

envelope == <<attack, decay, release, sustain, gate, muted, state,
              RateCounter, EnvelopeCounter, ExponentCounter, quiet>>
noise == <<wave, test, sync, step, PhaseAccu, NoiseLFSR>>
mixer == <<stereo, chips, m_iSamples, out>>
hardware == <<now, m_accessClk, readflag, m_delayClk, queued, passed, commands, written>>
sound == <<vars, envelope, noise, mixer, hardware>>

Env == INSTANCE Envelope WITH Top <- EnvelopeTop
Lfsr == INSTANCE Noise
Mix == INSTANCE Mixer
Hardware == INSTANCE Device

(* The fastest rate of 48 kHz has 328 sixteenths of a cycle per sample.    *)
ASSUME RatioAssumption == SampleClockRatio \in Nat /\ SampleClockRatio > 7 * Fraction

(* The power-on loop runs at least once.                                   *)
ASSUME TimeAssumption == MaxTime \in Nat /\ PowerOnDelay \in Nat \ {0}

(* The register is as long as its highest bit, and fed back from another.  *)
ASSUME TapAssumption == Top \in Nat /\ Tap \in 0..Top /\ Tap # Top

(* What a chip's buffer may hold is a short.                               *)
ASSUME SamplesAssumption ==
  \A n \in 1..3 : \A level \in Samples(n) : level \in Int /\ Mix!Between(level, -32768, 32767)

(* A chip is of one kind, and of none the program's own name for its time. *)
ASSUME ChipAssumption == ExSids \intersect UsbSids = {} /\ Hardware!Waiting \notin ExSids

ASSUME LimitAssumption == Limit \in Nat \ {0} /\ raster_rate \in Nat \ {0} /\ LastCycle \in Nat

-----------------------------------------------------------------------------
SoundInit == Init /\ Env!Init /\ Lfsr!Init /\ Mix!Init /\ Hardware!Init

SamplingStep == Next /\ UNCHANGED <<envelope, noise, mixer, hardware>>
EnvelopeStep == Env!Next /\ UNCHANGED <<vars, noise, mixer, hardware>>
NoiseStep == Lfsr!Next /\ UNCHANGED <<vars, envelope, mixer, hardware>>
MixerStep == Mix!Next /\ UNCHANGED <<vars, envelope, noise, hardware>>
HardwareStep == Hardware!Next /\ UNCHANGED <<vars, envelope, noise, mixer>>

SoundNext == SamplingStep \/ EnvelopeStep \/ NoiseStep \/ MixerStep \/ HardwareStep

SoundSpec == SoundInit /\ [][SoundNext]_sound

-----------------------------------------------------------------------------
(* A chip keeps the time of the machine, be it an emulation or hardware:   *)
(* see Sampling.KeepsRate and Device.InStep.                               *)
KeepsPace == [][KeepsRate /\ Hardware!InStep]_<<vars, hardware>>

(* Only a mixed waveform locks the noise: see Noise.NoiseKept.             *)
NoiseKept == Lfsr!NoiseKept

(* A mixed sample is the weighted sum of the chips: see                    *)
(* Mixer.SamplesMixed.                                                     *)
SamplesMixed == Mix!SamplesMixed
=============================================================================

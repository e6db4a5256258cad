---------------------------- MODULE Sound_proof ----------------------------
(***************************************************************************)
(* Proofs about Sound: what locks the noise (Noise), how near the mixer's  *)
(* integers are to the weighted sum (Mixer), and that emulations and       *)
(* hardware keep the machine's time (Sampling, Device). The parts share no *)
(* state, so each has an invariant of its own, which the steps of the      *)
(* others leave.                                                           *)
(***************************************************************************)
EXTENDS Sound, SequenceTheorems, FiniteSetTheorems, WellFoundedInduction, TLAPS

-----------------------------------------------------------------------------
(* The noise.                                                              *)

WaveOK == wave \in Lfsr!Waves

LEMMA WaveOKInductive == SoundSpec => []WaveOK
<1>1. SoundInit => WaveOK
  BY DEF SoundInit, Lfsr!Init, WaveOK, Lfsr!Waves
<1>2. WaveOK /\ [SoundNext]_sound => WaveOK'
  <2> SUFFICES ASSUME WaveOK, [SoundNext]_sound PROVE WaveOK'
    OBVIOUS
  <2>1. CASE UNCHANGED noise
    BY <2>1 DEF WaveOK, noise
  <2>2. CASE NoiseStep
    BY <2>2 DEF WaveOK, NoiseStep, Lfsr!Next, Lfsr!Reset, Lfsr!Write, Lfsr!Sample, Lfsr!program,
                Lfsr!Waves
  <2>3. QED
    BY <2>1, <2>2 DEF SoundNext, SamplingStep, EnvelopeStep, MixerStep, HardwareStep, sound
<1>3. QED
  BY <1>1, <1>2, PTL DEF SoundSpec

(* The shift loses one bit only and the feedback makes up for it.          *)
LEMMA ShiftKeeps ==
  ASSUME NEW in \in BOOLEAN, Lfsr!Shifted(NoiseLFSR, in) = {}
  PROVE  in = FALSE /\ NoiseLFSR \subseteq {Top}
<1>1. in = FALSE
  BY DEF Lfsr!Shifted
<1>2. ASSUME NEW b \in NoiseLFSR \ {Top} PROVE FALSE
  <2>1. b + 1 \in Lfsr!Shifted(NoiseLFSR, in)
    BY <1>2 DEF Lfsr!Shifted
  <2>2. QED
    BY <2>1
<1>3. QED
  BY <1>1, <1>2

LEMMA FeedbackOfOne ==
  ASSUME NoiseLFSR # {}, NoiseLFSR \subseteq {Top}
  PROVE  Lfsr!Feedback
BY TapAssumption DEF Lfsr!Feedback

(* What a sample does to a register that is empty, and to one that is not. *)
LEMMA SampleKeeps ==
  ASSUME WaveOK, Lfsr!Sample
  PROVE  /\ NoiseLFSR # {} /\ NoiseLFSR' = {} => wave = "mixed" /\ ~test
         /\ NoiseLFSR = {} /\ NoiseLFSR' # {} => test
<1>1. PICK rise \in BOOLEAN :
        NoiseLFSR' = CASE wave = "noise" -> Lfsr!Noise(Lfsr!Stepped(rise))
                       [] wave = "mixed" -> Lfsr!Mixed(Lfsr!Stepped(rise))
                       [] wave = "other" -> NoiseLFSR
  BY DEF Lfsr!Sample
<1> DEFINE phase == Lfsr!Stepped(rise)
<1>2. CASE wave = "other"
  BY <1>1, <1>2
<1>3. CASE wave = "noise"
  <2>1. NoiseLFSR' = IF Lfsr!Clocked(phase)
                     THEN Lfsr!Shifted(NoiseLFSR, Lfsr!Feedback \/ test) ELSE NoiseLFSR
    BY <1>1, <1>3 DEF Lfsr!Noise
  <2>2. (Lfsr!Feedback \/ test) \in BOOLEAN
    OBVIOUS
  <2>3. NoiseLFSR # {} => NoiseLFSR' # {}
    BY <2>1, <2>2, ShiftKeeps, FeedbackOfOne
  <2>4. NoiseLFSR = {} /\ NoiseLFSR' # {} => test
    <3>1. NoiseLFSR = {} => ~Lfsr!Feedback
      BY DEF Lfsr!Feedback
    <3>2. NoiseLFSR = {} /\ ~test => Lfsr!Shifted(NoiseLFSR, Lfsr!Feedback \/ test) = {}
      BY <3>1 DEF Lfsr!Shifted
    <3>3. QED
      BY <2>1, <3>2
  <2>5. QED
    BY <2>3, <2>4
<1>4. CASE wave = "mixed"
  <2>1. NoiseLFSR' = IF Lfsr!Clocked(phase) \/ test
                     THEN Lfsr!Shifted(NoiseLFSR, test) ELSE NoiseLFSR \ NoiseBits
    BY <1>1, <1>4 DEF Lfsr!Mixed
  <2>2. test => NoiseLFSR' # {}
    BY <2>1 DEF Lfsr!Shifted
  <2>3. NoiseLFSR = {} /\ ~test => NoiseLFSR' = {}
    BY <2>1 DEF Lfsr!Shifted
  <2>4. QED
    BY <1>4, <2>2, <2>3
<1>5. QED
  BY <1>2, <1>3, <1>4 DEF WaveOK, Lfsr!Waves

LEMMA NoiseStepKeeps ==
  ASSUME WaveOK, Lfsr!Next
  PROVE  /\ NoiseLFSR # {} /\ NoiseLFSR' = {} => wave = "mixed" /\ ~test
         /\ NoiseLFSR = {} /\ NoiseLFSR' # {} => test \/ Lfsr!Reset
<1>1. CASE Lfsr!Reset
  <2>1. 0 \in NoiseLFSR'
    BY <1>1, TapAssumption DEF Lfsr!Reset, Lfsr!Register
  <2>2. QED
    BY <1>1, <2>1
<1>2. CASE Lfsr!Write
  BY <1>2 DEF Lfsr!Write
<1>3. CASE Lfsr!Sample
  BY <1>3, SampleKeeps
<1>4. QED
  BY <1>1, <1>2, <1>3 DEF Lfsr!Next

(* The register is emptied, and the noise locked, only by a mixed waveform *)
(* without the test bit, and only that bit or a reset starts it again      *)
(* (sidlite/WavGen.cpp), for a register of any length.                     *)
THEOREM NoiseKeptCorrect == SoundSpec => NoiseKept
<1>1. WaveOK /\ [SoundNext]_sound =>
        [/\ NoiseLFSR # {} /\ NoiseLFSR' = {} => wave = "mixed" /\ ~test
         /\ NoiseLFSR = {} /\ NoiseLFSR' # {} => test \/ Lfsr!Reset]_Lfsr!vars
  <2> SUFFICES ASSUME WaveOK, [SoundNext]_sound
               PROVE  [/\ NoiseLFSR # {} /\ NoiseLFSR' = {} => wave = "mixed" /\ ~test
                       /\ NoiseLFSR = {} /\ NoiseLFSR' # {} => test \/ Lfsr!Reset]_Lfsr!vars
    OBVIOUS
  <2>1. CASE UNCHANGED noise
    BY <2>1 DEF noise, Lfsr!vars, Lfsr!program
  <2>2. CASE NoiseStep
    BY <2>2, NoiseStepKeeps DEF NoiseStep
  <2>3. QED
    BY <2>1, <2>2 DEF SoundNext, SamplingStep, EnvelopeStep, MixerStep, HardwareStep, sound
<1>2. QED
  BY <1>1, WaveOKInductive, PTL DEF SoundSpec, NoiseKept, Lfsr!NoiseKept

-----------------------------------------------------------------------------
(* The mixer: the 32-bit multiplication and the rounding are exact, and    *)
(* the scale is just below 2^16 by the root of the number of chips.        *)

Scales == {65536, 46340, 37837}

LEMMA ProductIs ==
  ASSUME NEW n \in Int, NEW scale \in Scales
  PROVE  /\ Mix!Product(n, scale)[1] \in Int
         /\ Mix!Product(n, scale)[2] \in Int
         /\ 0 <= Mix!Product(n, scale)[2] /\ Mix!Product(n, scale)[2] < 65536
         /\ Mix!Product(n, scale)[1] * 65536 + Mix!Product(n, scale)[2] = n * scale
<1> DEFINE b == n * (scale % 256)
           y == n * (scale \div 256) + (b \div 256)
<1>1. Mix!Product(n, scale) = <<y \div 256, (y % 256) * 256 + (b % 256)>>
  BY DEF Mix!Product
<1>2. CASE scale = 65536
  <2>1. b = 0 /\ y = n * 256
    BY <1>2
  <2>2. QED
    BY <1>1, <1>2, <2>1
<1>3. CASE scale = 46340
  <2>1. b = n * 4 /\ y = n * 181 + (b \div 256)
    BY <1>3
  <2>2. QED
    BY <1>1, <1>3, <2>1
<1>4. CASE scale = 37837
  <2>1. b = n * 205 /\ y = n * 147 + (b \div 256)
    BY <1>4
  <2>2. QED
    BY <1>1, <1>4, <2>1
<1>5. QED
  BY <1>2, <1>3, <1>4 DEF Scales

(* x is v / unit, rounded toward zero.                                     *)
Truncated(x, v, unit) ==
  /\ v >= 0 => x >= 0 /\ unit * x <= v /\ v < unit * (x + 1)
  /\ v < 0 => x <= 0 /\ unit * (-x) <= -v /\ -v < unit * (1 - x)

LEMMA TowardZeroTruncates ==
  ASSUME NEW high \in Int, NEW low \in Int, 0 <= low, low < 65536
  PROVE  /\ Mix!TowardZero(high, low) \in Int
         /\ Truncated(Mix!TowardZero(high, low), high * 65536 + low, 65536)
BY DEF Mix!TowardZero, Truncated

LEMMA SignedIs ==
  ASSUME NEW n \in Int, Mix!Between(n, -32768, 32767)
  PROVE  Mix!Signed16(n) = n
BY DEF Mix!Signed16, Mix!Between

Halved(high, low) == Mix!TowardZero(high \div 2, (high % 2) + low)

LEMMA HalvingTruncates ==
  ASSUME NEW high \in Int, NEW low \in Int, 0 <= low, low < 65536
  PROVE  Halved(high, low) \in Int /\ Truncated(Halved(high, low), high * 65536 + low, 131072)
<1>1. PICK h \in Int, odd \in {0, 1} : high \div 2 = h /\ high % 2 = odd /\ high = 2 * h + odd
  OBVIOUS
<1>2. Halved(high, low) = IF h < 0 /\ odd + low # 0 THEN h + 1 ELSE h
  BY <1>1 DEF Halved, Mix!TowardZero
<1>3. CASE odd = 0
  BY ONLY <1>1, <1>2, <1>3, 0 <= low, low < 65536, low \in Int, h \in Int DEF Truncated
<1>4. CASE odd = 1
  BY ONLY <1>1, <1>2, <1>4, 0 <= low, low < 65536, low \in Int, h \in Int DEF Truncated
<1>5. QED
  BY <1>3, <1>4

LEMMA HalfTruncates ==
  ASSUME NEW d \in Int, NEW n \in 1..3
  PROVE  /\ Mix!Half(d, n) \in Int
         /\ Truncated(Mix!Half(d, n), d * Mix!SCALE[n], 131072)
<1> DEFINE p == Mix!Product(d, Mix!SCALE[n])
<1>1. Mix!SCALE[n] \in Scales
  BY DEF Mix!SCALE, Scales
<1>2. /\ p[1] \in Int /\ p[2] \in Int /\ 0 <= p[2] /\ p[2] < 65536
      /\ p[1] * 65536 + p[2] = d * Mix!SCALE[n]
  BY <1>1, ProductIs
<1>3. Mix!Half(d, n) = Mix!TowardZero(p[1] \div 2, (p[1] % 2) + p[2])
  BY DEF Mix!Half
<1>4. PICK high \in Int, low \in Int :
        /\ p[1] = high /\ p[2] = low /\ 0 <= low /\ low < 65536
        /\ high * 65536 + low = d * Mix!SCALE[n]
  BY <1>2
<1>5. Mix!Half(d, n) = Halved(high, low)
  BY <1>3, <1>4 DEF Halved
<1>6. Halved(high, low) \in Int /\ Truncated(Halved(high, low), high * 65536 + low, 131072)
  <2>1. 0 <= low /\ low < 65536
    BY <1>4
  <2>2. QED
    BY ONLY <2>1, high \in Int, low \in Int, HalvingTruncates
<1>7. QED
  BY ONLY <1>4, <1>5, <1>6

LEMMA SquareGrows ==
  ASSUME NEW a \in Nat, NEW b \in Nat
  PROVE  /\ a <= b => a * a <= b * b
         /\ a < b => a * a < b * b
<1>1. a <= b => a * a <= a * b /\ a * b <= b * b
  OBVIOUS
<1>2. a < b => a * a < b * b
  <2>1. a < b => (a + 1) * (a + 1) <= b * b
    <3>1. a < b => (a + 1) * (a + 1) <= (a + 1) * b /\ (a + 1) * b <= b * b
      OBVIOUS
    <3>2. QED
      BY <3>1
  <2>2. (a + 1) * (a + 1) = a * a + 2 * a + 1
    OBVIOUS
  <2>3. QED
    BY <2>1, <2>2
<1>3. QED
  BY <1>1, <1>2

(* What is scaled and truncated is close, where the root of the number of  *)
(* chips times the scale is just below the unit and the result not large.  *)
LEMMA SquaresBetween ==
  ASSUME NEW x \in Nat, NEW a \in Nat, NEW scale \in Nat, NEW unit \in Nat,
         unit * x <= a * scale, a * scale < unit * (x + 1)
  PROVE  /\ (unit * x) * (unit * x) <= (a * scale) * (a * scale)
         /\ (a * scale) * (a * scale) < (unit * (x + 1)) * (unit * (x + 1))
<1>1. unit * x \in Nat /\ a * scale \in Nat /\ unit * (x + 1) \in Nat
  OBVIOUS
<1>2. QED
  BY <1>1, SquareGrows

LEMMA SquareApart ==
  ASSUME NEW n \in Int, NEW b \in Int
  PROVE  n * b * b = n * (b * b)
OBVIOUS

Weights == {<<1, 65536, 65536>>, <<2, 46340, 65536>>, <<3, 37837, 65536>>,
            <<8, 46340, 131072>>, <<12, 37837, 131072>>}

LEMMA SizeClose ==
  ASSUME NEW x \in Nat, NEW a \in Nat, NEW w \in Weights, x <= 32768,
         w[3] * x <= a * w[2], a * w[2] < w[3] * (x + 1)
  PROVE  w[1] * x * x <= a * a /\ a * a < w[1] * (x + 2) * (x + 2)
<1> DEFINE P == x * x
           Q == a * a
           V == (x + 1) * (x + 1)
           W == (x + 2) * (x + 2)
<1>1. P \in Nat /\ Q \in Nat /\ V \in Nat /\ W \in Nat
  OBVIOUS
<1>2. W = V + 2 * x + 3
  OBVIOUS
<1>3. W <= 32770 * (x + 2)
  OBVIOUS
<1>4. w[1] * x * x = w[1] * P /\ w[1] * (x + 2) * (x + 2) = w[1] * W
  <2>1. w[1] \in Int /\ x \in Int /\ x + 2 \in Int
    BY DEF Weights
  <2>2. QED
    BY ONLY <2>1, SquareApart
<1>5. CASE w = <<1, 65536, 65536>>
  <2>1. 4294967296 * P <= 4294967296 * Q /\ 4294967296 * Q < 4294967296 * V
    BY <1>5, SquaresBetween
  <2> HIDE DEF P, Q, V, W
  <2>2. QED
    BY <1>1, <1>2, <1>4, <1>5, <2>1
<1>6. CASE w = <<2, 46340, 65536>>
  <2>1. 4294967296 * P <= 2147395600 * Q /\ 2147395600 * Q < 4294967296 * V
    BY <1>6, SquaresBetween
  <2> HIDE DEF P, Q, V, W
  <2>2. QED
    BY <1>1, <1>2, <1>3, <1>4, <1>6, <2>1
<1>7. CASE w = <<3, 37837, 65536>>
  <2>1. 4294967296 * P <= 1431638569 * Q /\ 1431638569 * Q < 4294967296 * V
    BY <1>7, SquaresBetween
  <2> HIDE DEF P, Q, V, W
  <2>2. QED
    BY <1>1, <1>2, <1>3, <1>4, <1>7, <2>1
<1>8. CASE w = <<8, 46340, 131072>>
  <2>1. 17179869184 * P <= 2147395600 * Q /\ 2147395600 * Q < 17179869184 * V
    BY <1>8, SquaresBetween
  <2> HIDE DEF P, Q, V, W
  <2>2. QED
    BY <1>1, <1>2, <1>3, <1>4, <1>8, <2>1
<1>9. CASE w = <<12, 37837, 131072>>
  <2>1. 17179869184 * P <= 1431638569 * Q /\ 1431638569 * Q < 17179869184 * V
    BY <1>9, SquaresBetween
  <2> HIDE DEF P, Q, V, W
  <2>2. QED
    BY <1>1, <1>2, <1>3, <1>4, <1>9, <2>1
<1>10. QED
  BY <1>5, <1>6, <1>7, <1>8, <1>9 DEF Weights

(* The size of a sum that the weights allow for: its sample is a short.    *)
LEMMA TruncatedClose ==
  ASSUME NEW x \in Int, NEW sum \in Int, NEW w \in Weights,
         Mix!Between(x, -32768, 32767), Truncated(x, sum * w[2], w[3])
  PROVE  Mix!Close(x, sum, w[1])
<1>1. w[2] \in Nat \ {0} /\ w[1] \in Nat /\ w[3] \in Nat
  BY DEF Weights
<1>2. CASE sum >= 0
  <2>1. x >= 0 /\ w[3] * x <= sum * w[2] /\ sum * w[2] < w[3] * (x + 1)
    BY <1>1, <1>2 DEF Truncated
  <2>2. w[1] * x * x <= sum * sum /\ sum * sum < w[1] * (x + 2) * (x + 2)
    BY <1>2, <2>1, SizeClose DEF Mix!Between
  <2>3. QED
    BY <1>2, <2>1, <2>2 DEF Mix!Close
<1>3. CASE sum < 0
  <2> DEFINE a == -sum
             y == -x
  <2>1. sum * w[2] < 0 /\ -(sum * w[2]) = a * w[2]
    BY <1>1, <1>3
  <2>2. x <= 0 /\ w[3] * y <= a * w[2] /\ a * w[2] < w[3] * (y + 1)
    BY <2>1 DEF Truncated
  <2>3. a \in Nat /\ y \in Nat /\ y <= 32768
    BY <1>3, <2>2 DEF Mix!Between
  <2>4. w[1] * y * y <= a * a /\ a * a < w[1] * (y + 2) * (y + 2)
    BY <2>2, <2>3, SizeClose
  <2>5. a * a = sum * sum
    OBVIOUS
  <2>6. (IF x < 0 THEN -x ELSE x) = y
    BY <2>2
  <2>7. QED
    BY <1>3, <2>2, <2>4, <2>5, <2>6 DEF Mix!Close
<1>4. QED
  BY <1>2, <1>3

LEMMA MonoClose ==
  ASSUME NEW n \in 1..3, NEW sum \in Int,
         Mix!Between(sum, -(n * Mix!Loudness(n)), n * Mix!Loudness(n)),
         n = 1 => sum <= 32767
  PROVE  /\ Mix!Mono(sum, n) \in Int
         /\ Mix!Between(Mix!Mono(sum, n), -32768, 32767)
         /\ Mix!Close(Mix!Mono(sum, n), sum, n)
<1> DEFINE p == Mix!Product(sum, Mix!SCALE[n])
<1>1. PICK scale \in Scales : scale = Mix!SCALE[n] /\ <<n, scale, 65536>> \in Weights
  BY DEF Mix!SCALE, Weights, Scales
<1>2. /\ p[1] \in Int /\ p[2] \in Int /\ 0 <= p[2] /\ p[2] < 65536
      /\ p[1] * 65536 + p[2] = sum * scale
  BY <1>1, ProductIs
<1>3. PICK high \in Int, low \in Int :
        /\ p[1] = high /\ p[2] = low /\ 0 <= low /\ low < 65536
        /\ high * 65536 + low = sum * scale
  BY <1>2
<1>4. Mix!Between(high, -32768, 32767)
  <2>1. CASE n = 1
    <3>1. scale = 65536 /\ -32768 <= sum /\ sum <= 32767
      BY <1>1, <2>1 DEF Mix!SCALE, Mix!Between, Mix!Loudness
    <3>2. QED
      BY <1>3, <3>1 DEF Mix!Between
  <2>2. CASE n = 2
    <3>1. scale = 46340 /\ -46340 <= sum /\ sum <= 46340
      BY <1>1, <2>2 DEF Mix!SCALE, Mix!Between, Mix!Loudness
    <3>2. QED
      BY <1>3, <3>1 DEF Mix!Between
  <2>3. CASE n = 3
    <3>1. scale = 37837 /\ -56754 <= sum /\ sum <= 56754
      BY <1>1, <2>3 DEF Mix!SCALE, Mix!Between, Mix!Loudness
    <3>2. QED
      BY <1>3, <3>1 DEF Mix!Between
  <2>4. QED
    BY <2>1, <2>2, <2>3
<1>5. Mix!Mono(sum, n) = Mix!TowardZero(high, low)
  BY <1>3, <1>4, SignedIs DEF Mix!Mono
<1>6. PICK x \in Int : /\ x = Mix!Mono(sum, n) /\ x = Mix!TowardZero(high, low)
                       /\ Truncated(x, sum * scale, 65536)
  <2>1. /\ Mix!TowardZero(high, low) \in Int
        /\ Truncated(Mix!TowardZero(high, low), high * 65536 + low, 65536)
    <3>1. 0 <= low /\ low < 65536
      BY <1>3
    <3>2. QED
      BY ONLY <3>1, high \in Int, low \in Int, TowardZeroTruncates
  <2>2. QED
    BY ONLY <1>3, <1>5, <2>1
<1>7. Mix!Between(x, -32768, 32767)
  BY <1>3, <1>4, <1>6 DEF Mix!TowardZero, Mix!Between
<1>8. Mix!Close(x, sum, n)
  BY <1>1, <1>6, <1>7, TruncatedClose
<1>9. QED
  BY <1>6, <1>7, <1>8

LEMMA HalfClose ==
  ASSUME NEW n \in 2..3, NEW sum \in Int,
         Mix!Between(sum, -((2 * n - 1) * Mix!Loudness(n)), (2 * n - 1) * Mix!Loudness(n))
  PROVE  /\ Mix!Half(sum, n) \in Int
         /\ Mix!Between(Mix!Half(sum, n), -32768, 32767)
         /\ Mix!Close(Mix!Half(sum, n), sum, 4 * n)
<1>1. PICK scale \in Int : scale = Mix!SCALE[n] /\ <<4 * n, scale, 131072>> \in Weights
  BY DEF Mix!SCALE, Weights
<1>2. PICK x \in Int : x = Mix!Half(sum, n) /\ Truncated(x, sum * scale, 131072)
  BY <1>1, HalfTruncates
<1>3. Mix!Between(x, -32768, 32767)
  <2>1. CASE n = 2
    <3>1. scale = 46340 /\ -69510 <= sum /\ sum <= 69510
      BY <1>1, <2>1 DEF Mix!SCALE, Mix!Between, Mix!Loudness
    <3>2. QED
      BY <1>2, <3>1 DEF Truncated, Mix!Between
  <2>2. CASE n = 3
    <3>1. scale = 37837 /\ -94590 <= sum /\ sum <= 94590
      BY <1>1, <2>2 DEF Mix!SCALE, Mix!Between, Mix!Loudness
    <3>2. QED
      BY <1>2, <3>1 DEF Truncated, Mix!Between
  <2>3. QED
    BY <2>1, <2>2
<1>4. Mix!Close(x, sum, 4 * n)
  BY <1>1, <1>2, <1>3, TruncatedClose
<1>5. QED
  BY <1>2, <1>3, <1>4

(* The mixer's invariant: the arguments, one short for every chip, and the *)
(* property itself.                                                        *)
LevelsOK ==
  /\ stereo \in BOOLEAN /\ chips \in 1..3
  /\ m_iSamples \in Seq(Int) /\ Len(m_iSamples) = chips
  /\ \A i \in 1..chips : Mix!Between(m_iSamples[i], -32768, 32767)

LEMMA LevelsStay ==
  ASSUME LevelsOK, Mix!DoMix
  PROVE  LevelsOK'
<1>1. stereo' = stereo /\ chips' = chips /\ chips \in 1..3 /\ stereo \in BOOLEAN
  BY DEF LevelsOK, Mix!DoMix
<1>2. m_iSamples' \in [1..chips -> Samples(chips)]
  BY DEF Mix!DoMix
<1>3. \A level \in Samples(chips) : level \in Int /\ Mix!Between(level, -32768, 32767)
  BY <1>1, SamplesAssumption
<1>4. m_iSamples' \in [1..chips -> Int]
  BY <1>2, <1>3
<1>5. \A i \in 1..chips : Mix!Between(m_iSamples'[i], -32768, 32767)
  BY <1>2, <1>3
<1>6. m_iSamples' \in Seq(Int)
  BY <1>1, <1>4, SeqDef
<1>7. Len(m_iSamples') = chips
  BY <1>1, <1>4, <1>6, LenProperties
<1>8. QED
  BY <1>1, <1>5, <1>6, <1>7, SMTT(30) DEF LevelsOK

LEMMA MixedIsClose ==
  ASSUME LevelsOK, Mix!DoMix
  PROVE  Mix!SamplesMixed'
<1>0. LevelsOK'
  BY LevelsStay
<1>1. LevelsOK' /\ stereo' = stereo /\ chips' = chips /\ stereo \in BOOLEAN
  BY <1>0 DEF Mix!DoMix, LevelsOK
<1>2. PICK s \in Seq(Int) : s = m_iSamples' /\ Len(s) = chips
  BY <1>1 DEF LevelsOK
<1>3. out' = Mix!Mixed(s)
  BY <1>2 DEF Mix!DoMix
<1>4. SUFFICES ASSUME Mix!Quiet' PROVE Mix!InRange' /\
        IF ~stereo THEN Mix!Close(out'[1], Mix!Total(s), chips)
        ELSE IF chips = 1 THEN out'[1] = s[1] /\ out'[2] = s[1]
        ELSE /\ Mix!Close(out'[1], Mix!LeftSum(s), 4 * chips)
             /\ Mix!Close(out'[2], Mix!RightSum(s), 4 * chips)
  BY <1>1, <1>2 DEF Mix!SamplesMixed
<1> DEFINE top == Mix!Loudness(chips)
<1>5. chips \in 1..3 /\ top \in Nat
  BY <1>1 DEF LevelsOK, Mix!Loudness
<1>6. \A i \in 1..chips : s[i] \in Int /\ -top <= s[i] /\ s[i] <= top /\ s[i] <= 32767
  BY <1>1, <1>2, <1>4, LenProperties DEF Mix!Quiet, Mix!Between, LevelsOK
<1> HIDE DEF top
<1>7. CASE ~stereo
  <2>1. /\ Mix!Total(s) \in Int /\ -(chips * top) <= Mix!Total(s) /\ Mix!Total(s) <= chips * top
        /\ chips = 1 => Mix!Total(s) <= 32767
    BY <1>2, <1>5, <1>6, SMTT(30) DEF Mix!Total
  <2>2. out' = <<Mix!Mono(Mix!Total(s), chips)>>
    BY <1>2, <1>3, <1>7 DEF Mix!Mixed
  <2>3. /\ Mix!Between(Mix!Mono(Mix!Total(s), chips), -32768, 32767)
        /\ Mix!Close(Mix!Mono(Mix!Total(s), chips), Mix!Total(s), chips)
    BY <1>5, <2>1, MonoClose DEF top, Mix!Between
  <2>4. out'[1] = Mix!Mono(Mix!Total(s), chips) /\ DOMAIN out' = {1}
    BY <2>2
  <2>5. QED
    BY <1>7, <2>3, <2>4 DEF Mix!InRange
<1>8. CASE stereo /\ chips = 1
  <2>1. out' = <<s[1], s[1]>>
    BY <1>2, <1>3, <1>8 DEF Mix!Mixed
  <2>2. out'[1] = s[1] /\ out'[2] = s[1] /\ DOMAIN out' = {1, 2}
    BY <2>1
  <2>3. Mix!Between(s[1], -32768, 32767)
    BY <1>1, <1>2, <1>5 DEF LevelsOK
  <2>4. QED
    BY <1>8, <2>2, <2>3 DEF Mix!InRange
<1>9. CASE stereo /\ chips # 1
  <2>1. chips \in 2..3
    BY <1>5, <1>9
  <2>2. /\ Mix!LeftSum(s) \in Int /\ -((2 * chips - 1) * top) <= Mix!LeftSum(s)
        /\ Mix!LeftSum(s) <= (2 * chips - 1) * top
    BY <1>2, <1>5, <1>6, <2>1, SMTT(30) DEF Mix!LeftSum
  <2>3. /\ Mix!RightSum(s) \in Int /\ -((2 * chips - 1) * top) <= Mix!RightSum(s)
        /\ Mix!RightSum(s) <= (2 * chips - 1) * top
    BY <1>2, <1>5, <1>6, <2>1, SMTT(30) DEF Mix!RightSum
  <2>4. out' = <<Mix!Half(Mix!LeftSum(s), chips), Mix!Half(Mix!RightSum(s), chips)>>
    BY <1>2, <1>3, <1>9 DEF Mix!Mixed
  <2>5. /\ out'[1] = Mix!Half(Mix!LeftSum(s), chips)
        /\ out'[2] = Mix!Half(Mix!RightSum(s), chips)
        /\ DOMAIN out' = {1, 2}
    BY <2>4
  <2>6. /\ Mix!Between(out'[1], -32768, 32767)
        /\ Mix!Close(out'[1], Mix!LeftSum(s), 4 * chips)
    BY <2>1, <2>2, <2>5, HalfClose DEF top, Mix!Between
  <2>7. /\ Mix!Between(out'[2], -32768, 32767)
        /\ Mix!Close(out'[2], Mix!RightSum(s), 4 * chips)
    BY <2>1, <2>3, <2>5, HalfClose DEF top, Mix!Between
  <2>8. Mix!InRange'
    BY <2>5, <2>6, <2>7 DEF Mix!InRange
  <2>9. QED
    BY <1>9, <2>6, <2>7, <2>8
<1>10. QED
  BY <1>1, <1>7, <1>8, <1>9

LEMMA SilenceMixed == SoundInit => LevelsOK /\ Mix!SamplesMixed
<1> SUFFICES ASSUME SoundInit PROVE LevelsOK /\ Mix!SamplesMixed
  OBVIOUS
<1>1. /\ stereo \in BOOLEAN /\ chips \in 1..3
      /\ m_iSamples = [i \in 1..chips |-> 0]
      /\ out = [i \in 1..(IF stereo THEN 2 ELSE 1) |-> 0]
  BY DEF SoundInit, Mix!Init
<1>2. m_iSamples \in Seq(Int) /\ Len(m_iSamples) = chips
  <2>1. m_iSamples \in [1..chips -> Int] /\ chips \in Nat
    BY <1>1
  <2>2. m_iSamples \in Seq(Int)
    BY <2>1, SeqDef
  <2>3. QED
    BY <2>1, <2>2, LenProperties
<1>3. LevelsOK
  BY <1>1, <1>2 DEF LevelsOK, Mix!Between
<1>4. /\ chips = 1 => m_iSamples[1] = 0
      /\ chips = 2 => m_iSamples[1] = 0 /\ m_iSamples[2] = 0
      /\ chips = 3 => m_iSamples[1] = 0 /\ m_iSamples[2] = 0 /\ m_iSamples[3] = 0
  BY <1>1
<1>5. /\ Mix!Total(m_iSamples) = 0
      /\ chips # 1 => Mix!LeftSum(m_iSamples) = 0 /\ Mix!RightSum(m_iSamples) = 0
  BY <1>1, <1>2, <1>4 DEF Mix!Total, Mix!LeftSum, Mix!RightSum
<1>6. \A n \in Nat \ {0} : Mix!Close(0, 0, n)
  BY DEF Mix!Close
<1>7. out[1] = 0 /\ (stereo => out[2] = 0) /\ \A i \in DOMAIN out : out[i] = 0
  BY <1>1
<1>8. Mix!InRange
  BY <1>7 DEF Mix!InRange, Mix!Between
<1>9. QED
  BY <1>1, <1>3, <1>4, <1>5, <1>6, <1>7, <1>8 DEF Mix!SamplesMixed

(* While no chip is louder than the weights allow for, a mixed sample is a *)
(* short and the weighted sum of the chips, rounded toward zero: the 32-bit*)
(* product neither wraps nor changes its sign (simpleMixer.h).             *)
THEOREM SamplesMixedCorrect == SoundSpec => []SamplesMixed
<1>1. LevelsOK /\ Mix!SamplesMixed /\ [SoundNext]_sound => (LevelsOK /\ Mix!SamplesMixed)'
  <2> SUFFICES ASSUME LevelsOK, Mix!SamplesMixed, [SoundNext]_sound
               PROVE  (LevelsOK /\ Mix!SamplesMixed)'
    OBVIOUS
  <2>1. CASE UNCHANGED mixer
    BY <2>1 DEF mixer, LevelsOK, Mix!SamplesMixed, Mix!Quiet, Mix!InRange
  <2>2. CASE MixerStep
    BY <2>2, LevelsStay, MixedIsClose DEF MixerStep, Mix!Next
  <2>3. QED
    BY <2>1, <2>2 DEF SoundNext, SamplingStep, EnvelopeStep, NoiseStep, HardwareStep, sound
<1>2. QED
  BY <1>1, SilenceMixed, PTL DEF SoundSpec, SamplesMixed

-----------------------------------------------------------------------------
(* Division by a constant that has no value yet.                           *)

LEMMA Quotient ==
  ASSUME NEW a \in Int, NEW b \in Nat \ {0}
  PROVE  a \div b \in Int /\ b * (a \div b) <= a /\ a < b * (a \div b) + b
OBVIOUS

LEMMA QuotientIs ==
  ASSUME NEW a \in Int, NEW b \in Nat \ {0}, NEW q \in Int, b * q <= a, a < b * q + b
  PROVE  a \div b = q
<1> DEFINE r == a \div b
<1>1. r \in Int /\ b * r <= a /\ a < b * r + b
  BY Quotient
<1> HIDE DEF r
<1>2. CASE r < q
  <2>1. b * (r + 1) <= b * q
    BY <1>1, <1>2
  <2>2. QED
    BY <1>1, <2>1
<1>3. CASE q < r
  <2>1. b * (q + 1) <= b * r
    BY <1>1, <1>3
  <2>2. QED
    BY <1>1, <2>1
<1>4. QED
  BY <1>1, <1>2, <1>3 DEF r

(* One divisor less, one less in the quotient.                             *)
LEMMA QuotientLess ==
  ASSUME NEW a \in Int, NEW b \in Nat \ {0}, NEW k \in Int
  PROVE  (a - b * k) \div b = (a \div b) - k
<1> DEFINE r == a \div b
<1>1. r \in Int /\ b * r <= a /\ a < b * r + b
  BY Quotient
<1> HIDE DEF r
<1>2. b * (r - k) = b * r - b * k
  BY <1>1
<1>3. b * k \in Int /\ r - k \in Int
  BY <1>1
<1>4. b * (r - k) <= a - b * k /\ a - b * k < b * (r - k) + b
  BY <1>1, <1>2, <1>3
<1>5. QED
  BY <1>3, <1>4, QuotientIs DEF r

-----------------------------------------------------------------------------
(* The emulations: what SidClock's recursion computes.                     *)

Runs == (0..MaxTime) \X Counts

(* The cycles of a run, and its count, make this many samples.             *)
Made(cycles, count) == (count + Fraction * cycles - 1) \div SampleClockRatio

RunOf(cycles, count) ==
  IF cycles = 0 THEN [cycleCnt |-> count, samples |-> 0]
  ELSE [cycleCnt |-> count + Fraction * cycles - SampleClockRatio * Made(cycles, count),
        samples |-> Made(cycles, count)]

(* The definition's right side: a chunk of cycles, then the rest.          *)
ChunkOf(cycles, count) == IF count > SampleClockRatio THEN 0 ELSE Chunk(cycles)
SumOf(cycles, count) == count + ChunkOf(cycles, count) * Fraction
FullOf(cycles, count) == IF SumOf(cycles, count) > SampleClockRatio THEN 1 ELSE 0
CountAfter(cycles, count) == SumOf(cycles, count) - SampleClockRatio * FullOf(cycles, count)

Turn(f, cycles, count) ==
  IF cycles = 0 THEN [cycleCnt |-> count, samples |-> 0]
  ELSE [cycleCnt |-> f[<<cycles - ChunkOf(cycles, count), CountAfter(cycles, count)>>].cycleCnt,
        samples |-> f[<<cycles - ChunkOf(cycles, count), CountAfter(cycles, count)>>].samples
                      + FullOf(cycles, count)]

LEMMA CountIsNat == SampleClockRatio \in Nat \ {0} /\ \A count \in Counts : count \in Nat
BY RatioAssumption DEF Counts, Fraction

LEMMA ChunkFits ==
  ASSUME NEW cycles \in Nat \ {0}, NEW count \in Counts
  PROVE  /\ ChunkOf(cycles, count) \in 0..7 /\ ChunkOf(cycles, count) <= cycles
         /\ ChunkOf(cycles, count) = 0 <=> count > SampleClockRatio
BY DEF ChunkOf, Chunk

LEMMA CountFits ==
  ASSUME NEW cycles \in Nat \ {0}, NEW count \in Counts
  PROVE  /\ CountAfter(cycles, count) \in Counts
         /\ FullOf(cycles, count) \in {0, 1}
         /\ SumOf(cycles, count) \in Int
         /\ FullOf(cycles, count) = 1 <=> SumOf(cycles, count) > SampleClockRatio
         /\ 0 < SumOf(cycles, count) /\ SumOf(cycles, count) < 2 * SampleClockRatio
<1> DEFINE n == ChunkOf(cycles, count)
<1>1. n \in 0..7 /\ (n = 0 <=> count > SampleClockRatio)
  BY ChunkFits
<1>2. count \in Nat /\ count <= SampleClockRatio + 112 /\ SampleClockRatio \in Nat
      /\ SampleClockRatio > 112
  BY RatioAssumption DEF Counts, Fraction
<1>3. SumOf(cycles, count) = count + n * 16
  BY DEF SumOf, Fraction
<1> HIDE DEF n
<1>4. CASE n = 0
  BY <1>1, <1>2, <1>3, <1>4 DEF CountAfter, FullOf, Counts, Fraction
<1>5. CASE n # 0
  BY <1>1, <1>2, <1>3, <1>5 DEF CountAfter, FullOf, Counts, Fraction
<1>6. QED
  BY <1>4, <1>5

(* The samples of a run are those of its first chunk and of the rest.      *)
LEMMA RunTurns ==
  ASSUME NEW cycles \in Nat \ {0}, NEW count \in Counts
  PROVE  LET rest == RunOf(cycles - ChunkOf(cycles, count), CountAfter(cycles, count))
         IN  /\ rest.cycleCnt = RunOf(cycles, count).cycleCnt
             /\ rest.samples + FullOf(cycles, count) = RunOf(cycles, count).samples
<1> DEFINE left == cycles - ChunkOf(cycles, count)
           after == CountAfter(cycles, count)
           full == FullOf(cycles, count)
           sum == SumOf(cycles, count)
<1>1. /\ ChunkOf(cycles, count) \in 0..7 /\ left \in Nat
      /\ left + ChunkOf(cycles, count) = cycles
  BY ChunkFits
<1>2. after \in Int /\ count \in Int /\ sum \in Int /\ full \in {0, 1}
  BY CountFits, CountIsNat
<1>3. sum = count + 16 * ChunkOf(cycles, count) /\ after = sum - SampleClockRatio * full
  BY <1>1 DEF SumOf, CountAfter, Fraction, Counts
<1>4. SampleClockRatio \in Nat \ {0}
  BY RatioAssumption DEF Fraction
<1>5. RunOf(cycles, count) =
        [cycleCnt |-> count + Fraction * cycles - SampleClockRatio * Made(cycles, count),
         samples |-> Made(cycles, count)]
  BY DEF RunOf
<1>6. CASE left = 0
  <2>1. count + 16 * cycles = sum
    BY <1>1, <1>2, <1>3, <1>6
  <2>2. Made(cycles, count) = (sum - 1) \div SampleClockRatio
    <3>1. count + Fraction * cycles - 1 = sum - 1
      BY <1>2, <2>1 DEF Fraction
    <3>2. QED
      BY ONLY <3>1 DEF Made
  <2>3. 0 < sum /\ sum < 2 * SampleClockRatio /\ (full = 1 <=> sum > SampleClockRatio)
    BY CountFits
  <2>4. SampleClockRatio * full <= sum - 1 /\ sum - 1 < SampleClockRatio * full + SampleClockRatio
    BY <1>2, <1>4, <2>3
  <2>5. Made(cycles, count) = full
    BY <1>2, <1>4, <2>2, <2>4, QuotientIs
  <2>6. RunOf(left, after) = [cycleCnt |-> after, samples |-> 0]
    BY <1>6 DEF RunOf
  <2> HIDE DEF left, after, full, sum
  <2>7. RunOf(cycles, count).cycleCnt = after
    <3>1. RunOf(cycles, count).cycleCnt = count + 16 * cycles - SampleClockRatio * full
      BY <1>5, <2>5 DEF Fraction
    <3>2. QED
      BY <1>2, <1>3, <1>4, <2>1, <3>1
  <2>8. QED
    BY <1>2, <1>5, <2>5, <2>6, <2>7 DEF left, after, full
<1>7. CASE left # 0
  <2>1. after + 16 * left = count + 16 * cycles - SampleClockRatio * full
    BY <1>1, <1>2, <1>3, <1>4
  <2>2. PICK a \in Int, k \in Int :
          /\ a = count + Fraction * cycles - 1 /\ k = full
          /\ after + Fraction * left - 1 = a - SampleClockRatio * k
    BY <1>1, <1>2, <1>4, <2>1 DEF Fraction
  <2>3. Made(left, after) = (a - SampleClockRatio * k) \div SampleClockRatio
    BY <2>2 DEF Made
  <2>4. Made(left, after) = Made(cycles, count) - full
    <3>1. Made(cycles, count) = a \div SampleClockRatio
      BY <2>2 DEF Made
    <3>2. (a - SampleClockRatio * k) \div SampleClockRatio = (a \div SampleClockRatio) - k
      BY <1>4, QuotientLess
    <3>3. QED
      BY ONLY <2>2, <2>3, <3>1, <3>2
  <2>5. Made(cycles, count) \in Int
    BY <1>4, <2>2, Quotient DEF Made
  <2>6. RunOf(left, after) =
          [cycleCnt |-> after + Fraction * left - SampleClockRatio * Made(left, after),
           samples |-> Made(left, after)]
    BY <1>7 DEF RunOf
  <2> HIDE DEF left, after, full, sum
  <2>7. PICK m \in Int : m = Made(cycles, count)
    BY <2>5
  <2>8. PICK p \in Int, q \in Int :
          /\ p = SampleClockRatio * m /\ q = SampleClockRatio * full
          /\ SampleClockRatio * (m - full) = p - q
    <3>1. /\ SampleClockRatio * m \in Int /\ SampleClockRatio * full \in Int
          /\ SampleClockRatio * (m - full) = SampleClockRatio * m - SampleClockRatio * full
      BY <1>2, <1>4, <2>7
    <3>2. QED
      BY <3>1
  <2>9. RunOf(left, after).cycleCnt = RunOf(cycles, count).cycleCnt
    <3>1. RunOf(left, after).cycleCnt = after + 16 * left - SampleClockRatio * (m - full)
      BY <2>4, <2>6, <2>7 DEF Fraction
    <3>2. RunOf(cycles, count).cycleCnt = count + 16 * cycles - SampleClockRatio * m
      BY <1>5, <2>7 DEF Fraction
    <3>3. RunOf(left, after).cycleCnt = after + 16 * left - (p - q)
      BY ONLY <2>8, <3>1
    <3>4. RunOf(cycles, count).cycleCnt = count + 16 * cycles - p
      BY ONLY <2>8, <3>2
    <3>5. after + 16 * left = count + 16 * cycles - q
      BY ONLY <2>1, <2>8
    <3>6. QED
      BY ONLY <1>1, <1>2, <3>3, <3>4, <3>5, p \in Int, q \in Int, cycles \in Nat
  <2>10. QED
    BY <1>2, <1>5, <2>4, <2>5, <2>6, <2>9 DEF left, after, full
<1>8. QED
  BY <1>6, <1>7

(* The recursion has a solution, the one that RunOf describes, and it is   *)
(* the only one: a run that differs would have a least number of cycles.   *)
IsSidClock(f) ==
  f = [run \in (0..MaxTime) \X Counts |->
         LET cycles == run[1]
             n == IF run[2] > SampleClockRatio THEN 0 ELSE Chunk(cycles)
             sum == run[2] + n * Fraction
             full == sum > SampleClockRatio
             rest == f[<<cycles - n, IF full THEN Carry(sum) ELSE sum>>]
         IN  IF cycles = 0 THEN [cycleCnt |-> run[2], samples |-> 0]
             ELSE [cycleCnt |-> rest.cycleCnt, samples |-> rest.samples + (IF full THEN 1 ELSE 0)]]

LEMMA SidClockChosen == SidClock = CHOOSE f : IsSidClock(f)
BY DEF SidClock, IsSidClock

LEMMA IsSidClockTurns ==
  ASSUME NEW f
  PROVE  IsSidClock(f) <=> f = [run \in Runs |-> Turn(f, run[1], run[2])]
<1>1. ASSUME NEW run \in Runs
      PROVE  Turn(f, run[1], run[2]) =
               LET cycles == run[1]
                   n == IF run[2] > SampleClockRatio THEN 0 ELSE Chunk(cycles)
                   sum == run[2] + n * Fraction
                   full == sum > SampleClockRatio
                   rest == f[<<cycles - n, IF full THEN Carry(sum) ELSE sum>>]
               IN  IF cycles = 0 THEN [cycleCnt |-> run[2], samples |-> 0]
                   ELSE [cycleCnt |-> rest.cycleCnt,
                         samples |-> rest.samples + (IF full THEN 1 ELSE 0)]
  <2>1. run[1] \in Nat /\ run[2] \in Nat /\ SampleClockRatio \in Nat
    BY CountIsNat, TimeAssumption DEF Runs
  <2> DEFINE n == ChunkOf(run[1], run[2])
             sum == SumOf(run[1], run[2])
  <2>2. /\ n = IF run[2] > SampleClockRatio THEN 0 ELSE Chunk(run[1])
        /\ sum = run[2] + n * Fraction
        /\ n \in Nat /\ sum \in Nat
    BY <2>1 DEF ChunkOf, SumOf, Chunk, Fraction
  <2>3. CountAfter(run[1], run[2]) = IF sum > SampleClockRatio THEN Carry(sum) ELSE sum
    BY <2>1, <2>2 DEF CountAfter, FullOf, Carry
  <2> HIDE DEF n, sum
  <2>4. QED
    BY <2>2, <2>3 DEF Turn, FullOf, n, sum
<1>2. QED
  BY <1>1, ZenonT(60) DEF IsSidClock, Runs

(* Of the cycles of some runs there is a least number.                     *)
LEMMA LeastCycles ==
  ASSUME NEW n \in Nat, NEW T \in SUBSET (0..n), T # {}
  PROVE  \E x \in T : \A y \in T : x <= y
<1> DEFINE Upto(x) == {i \in T : i <= x}
           S == 0..n
           D == {Upto(x) : x \in T}
<1>1. IsFiniteSet(S)
  BY FS_Interval
<1>2. D \subseteq SUBSET S /\ D # {}
  OBVIOUS
<1>3. IsWellFoundedOn(StrictSubsetOrdering(S), SUBSET S)
  <2> HIDE DEF S
  <2> QED BY <1>1, FS_StrictSubsetOrderingWellFounded, FS_FiniteSubsetsOfFinite
<1>4. PICK d \in D : \A c \in D : ~ (<<c, d>> \in StrictSubsetOrdering(S))
  <2> HIDE DEF D, S
  <2> QED BY <1>2, <1>3, WFMin
<1>5. PICK x \in T : d = Upto(x)
  OBVIOUS
<1>6. ASSUME NEW y \in T, ~ (x <= y)  PROVE FALSE
  <2>1. x \in Int /\ y \in Int /\ y < x /\ T \subseteq Int
    BY <1>6
  <2>2. \A i \in T : i <= y => i <= x
    BY <2>1
  <2>3. Upto(y) \subseteq Upto(x)
    BY <2>2
  <2>4. x \notin Upto(y)
    BY <1>6
  <2>5. x \in Upto(x)
    <3>1. x <= x BY <2>1
    <3> QED BY <3>1
  <2>6. Upto(y) \in SUBSET S /\ d \in SUBSET S /\ Upto(y) # d /\ Upto(y) \subseteq d /\ Upto(y) \in D
    BY <2>3, <2>4, <2>5, <1>5, <1>2
  <2>7. <<Upto(y), d>> \in StrictSubsetOrdering(S)
    <3> HIDE DEF S, Upto, D
    <3> QED BY <2>6 DEF StrictSubsetOrdering
  <2> QED BY <2>6, <2>7, <1>4
<1> QED BY <1>6

RunsOf == [run \in Runs |-> RunOf(run[1], run[2])]

LEMMA RunsOfTurns == \A run \in Runs : Turn(RunsOf, run[1], run[2]) = RunOf(run[1], run[2])
<1> SUFFICES ASSUME NEW cycles \in 0..MaxTime, NEW count \in Counts
             PROVE  Turn(RunsOf, cycles, count) = RunOf(cycles, count)
  BY DEF Runs
<1>1. CASE cycles = 0
  BY <1>1 DEF Turn, RunOf
<1>2. CASE cycles # 0
  <2> DEFINE left == cycles - ChunkOf(cycles, count)
             after == CountAfter(cycles, count)
  <2>1. cycles \in Nat \ {0} /\ cycles <= MaxTime
    BY <1>2, TimeAssumption
  <2>2. left \in 0..MaxTime /\ after \in Counts
    BY <2>1, ChunkFits, CountFits, TimeAssumption
  <2>3. RunsOf[<<left, after>>] = RunOf(left, after)
    BY <2>2 DEF RunsOf, Runs
  <2>4. /\ RunOf(left, after).cycleCnt = RunOf(cycles, count).cycleCnt
        /\ RunOf(left, after).samples + FullOf(cycles, count) = RunOf(cycles, count).samples
    BY <2>1, RunTurns
  <2>5. Turn(RunsOf, cycles, count) =
          [cycleCnt |-> RunOf(cycles, count).cycleCnt, samples |-> RunOf(cycles, count).samples]
    BY <1>2, <2>3, <2>4 DEF Turn
  <2>6. QED
    BY <1>2, <2>5 DEF RunOf
<1>3. QED
  BY <1>1, <1>2

LEMMA SidClockTurns ==
  ASSUME NEW cycles \in 0..MaxTime, NEW count \in Counts
  PROVE  SidClock[<<cycles, count>>] = Turn(SidClock, cycles, count)
<1>1. IsSidClock(RunsOf)
  BY RunsOfTurns, IsSidClockTurns DEF RunsOf
<1>2. IsSidClock(SidClock)
  BY <1>1, SidClockChosen
<1>3. SidClock = [run \in Runs |-> Turn(SidClock, run[1], run[2])]
  BY <1>2, IsSidClockTurns
<1>4. <<cycles, count>> \in Runs
  BY DEF Runs
<1>5. QED
  BY <1>3, <1>4

(* What follows a chunk is right, if all runs of fewer cycles are.         *)
LEMMA SidClockFollows ==
  ASSUME NEW cycles \in 0..MaxTime, NEW count \in Counts, cycles # 0,
         SidClock[<<cycles - ChunkOf(cycles, count), CountAfter(cycles, count)>>] =
           RunOf(cycles - ChunkOf(cycles, count), CountAfter(cycles, count))
  PROVE  SidClock[<<cycles, count>>] = RunOf(cycles, count)
<1>1. cycles \in Nat \ {0}
  OBVIOUS
<1>2. SidClock[<<cycles, count>>] =
        [cycleCnt |-> RunOf(cycles, count).cycleCnt, samples |-> RunOf(cycles, count).samples]
  <2>1. SidClock[<<cycles, count>>] = Turn(SidClock, cycles, count)
    BY SidClockTurns
  <2> DEFINE rest == RunOf(cycles - ChunkOf(cycles, count), CountAfter(cycles, count))
  <2>2. /\ rest.cycleCnt = RunOf(cycles, count).cycleCnt
        /\ rest.samples + FullOf(cycles, count) = RunOf(cycles, count).samples
    BY <1>1, RunTurns
  <2>3. Turn(SidClock, cycles, count) =
          [cycleCnt |-> rest.cycleCnt, samples |-> rest.samples + FullOf(cycles, count)]
    BY <1>1 DEF Turn
  <2> HIDE DEF rest
  <2>4. QED
    BY <2>1, <2>2, <2>3
<1>3. QED
  BY <1>2 DEF RunOf

LEMMA SidClockIs ==
  \A cycles \in 0..MaxTime : \A count \in Counts : SidClock[<<cycles, count>>] = RunOf(cycles, count)
<1> DEFINE Right(cycles) == \A count \in Counts : SidClock[<<cycles, count>>] = RunOf(cycles, count)
           Wrong == {cycles \in 0..MaxTime : ~Right(cycles)}
<1>1. Wrong = {}
  <2> SUFFICES ASSUME Wrong # {} PROVE FALSE
    OBVIOUS
  <2>1. PICK cycles \in Wrong : \A less \in Wrong : cycles <= less
    <3>1. Wrong \in SUBSET (0..MaxTime)
      OBVIOUS
    <3> HIDE DEF Wrong
    <3>2. QED
      BY <3>1, LeastCycles, TimeAssumption
  <2>2. cycles \in 0..MaxTime /\ ~Right(cycles)
    OBVIOUS
  <2>3. \A less \in 0..MaxTime : less < cycles => Right(less)
    <3> SUFFICES ASSUME NEW less \in 0..MaxTime, less < cycles, ~Right(less) PROVE FALSE
      OBVIOUS
    <3>1. less \in Wrong
      OBVIOUS
    <3>2. QED
      BY <2>1, <2>2, <3>1, TimeAssumption
  <2>4. cycles # 0
    <3> SUFFICES ASSUME cycles = 0 PROVE Right(cycles)
      BY <2>2
    <3>1. QED
      BY SidClockTurns, <2>2 DEF Turn, RunOf
  <2>5. ASSUME NEW count \in Counts, ~(count > SampleClockRatio)
        PROVE  SidClock[<<cycles, count>>] = RunOf(cycles, count)
    <3> DEFINE left == cycles - ChunkOf(cycles, count)
    <3>1. cycles \in Nat \ {0} /\ cycles <= MaxTime
      BY <2>2, <2>4, TimeAssumption
    <3>2. left \in 0..MaxTime /\ left < cycles
      BY <2>5, <3>1, ChunkFits, TimeAssumption
    <3>3. CountAfter(cycles, count) \in Counts
      BY <3>1, CountFits
    <3>4. SidClock[<<left, CountAfter(cycles, count)>>] = RunOf(left, CountAfter(cycles, count))
      BY <2>3, <3>2, <3>3
    <3>5. QED
      BY <2>2, <2>4, <3>4, SidClockFollows
  <2>6. ASSUME NEW count \in Counts, count > SampleClockRatio
        PROVE  SidClock[<<cycles, count>>] = RunOf(cycles, count)
    <3>1. cycles \in Nat \ {0}
      BY <2>2, <2>4
    <3>2. ChunkOf(cycles, count) = 0 /\ cycles - ChunkOf(cycles, count) = cycles
      BY <2>6, <3>1, ChunkFits
    <3>3. CountAfter(cycles, count) \in Counts
      BY <3>1, CountFits
    <3>4. ~(CountAfter(cycles, count) > SampleClockRatio)
      <4>1. /\ SumOf(cycles, count) \in Int /\ SumOf(cycles, count) < 2 * SampleClockRatio
            /\ FullOf(cycles, count) = 1
        <5>1. SumOf(cycles, count) = count
          BY <3>2, CountIsNat DEF SumOf, Fraction
        <5>2. QED
          BY <2>6, <3>1, <5>1, CountFits
      <4>2. CountAfter(cycles, count) = SumOf(cycles, count) - SampleClockRatio
        BY <4>1, CountIsNat DEF CountAfter
      <4>3. QED
        BY <4>1, <4>2, CountIsNat
    <3>5. SidClock[<<cycles, CountAfter(cycles, count)>>] = RunOf(cycles, CountAfter(cycles, count))
      BY <2>5, <3>3, <3>4
    <3>6. QED
      BY <2>2, <2>4, <3>2, <3>5, SidClockFollows
  <2>7. Right(cycles)
    BY <2>5, <2>6
  <2>8. QED
    BY <2>2, <2>7
<1>2. \A cycles \in 0..MaxTime : Right(cycles)
  BY <1>1
<1>3. QED
  BY <1>2

-----------------------------------------------------------------------------
(* The chips that are emulated: each has made the samples of its time, and *)
(* its count is what is left.                                              *)

ChipOf == [accessClk : Nat, cycleCnt : Nat, bufferpos : Nat]

(* In its cycle, and with the remainder of a division of all the time.     *)
OnTime(c) ==
  /\ begun <= c.accessClk /\ c.accessClk <= time
  /\ c.cycleCnt = Fraction * c.accessClk - SampleClockRatio * Due(c.accessClk)

(* With what was thrown away and what was returned, the chip has made the  *)
(* samples of its time.                                                    *)
Punctual(c) == Due(begun) + delivered + c.bufferpos = Due(c.accessClk)

SamplingOK ==
  /\ time \in 0..MaxTime /\ begun \in Nat /\ delivered \in Nat
  /\ powerOn \in 0..PowerOnDelay
  /\ powerOn > 0 => delivered = 0
  /\ chip \in [Sids -> ChipOf]
  /\ \A s \in Sids : OnTime(chip[s])
  /\ powerOn = 0 => \A s \in Sids : Punctual(chip[s])

LEMMA DueIs ==
  ASSUME NEW t \in Nat
  PROVE  /\ Due(t) \in Nat
         /\ Fraction * t - SampleClockRatio * Due(t) \in Counts
<1>1. SampleClockRatio \in Nat \ {0}
  BY CountIsNat
<1>2. CASE t = 0
  <2>1. Due(t) = 0
    BY <1>2 DEF Due
  <2>2. Fraction * t - SampleClockRatio * 0 = 0
    BY <1>1, <1>2 DEF Fraction
  <2>3. 0 \in Counts
    BY <1>1 DEF Counts, Fraction
  <2>4. QED
    BY <2>1, <2>2, <2>3
<1>3. CASE t # 0
  <2>1. PICK a \in Nat : a = Fraction * t - 1
    BY <1>3 DEF Fraction
  <2>2. PICK q \in Int : /\ q = Due(t) /\ SampleClockRatio * q <= a
                         /\ a < SampleClockRatio * q + SampleClockRatio
    <3>1. Due(t) = a \div SampleClockRatio
      BY <1>3, <2>1 DEF Due
    <3>2. QED
      BY <1>1, <3>1, Quotient
  <2>3. q \in Nat
    <3> SUFFICES ASSUME q < 0 PROVE FALSE
      BY <2>2
    <3>1. SampleClockRatio * (q + 1) <= 0
      BY <1>1
    <3>2. QED
      BY <1>1, <2>1, <2>2, <3>1
  <2>4. PICK p \in Int : p = SampleClockRatio * q /\ p <= a /\ a < p + SampleClockRatio
    BY <1>1, <2>2
  <2>5. Fraction * t - p \in 0..SampleClockRatio
    BY <1>1, <2>1, <2>4 DEF Fraction
  <2>6. Fraction * t - p \in Counts
    BY <1>1, <2>5 DEF Counts, Fraction
  <2>7. QED
    BY <2>2, <2>3, <2>4, <2>6
<1>4. QED
  BY <1>2, <1>3

LEMMA RunMakes ==
  ASSUME NEW cycles \in Nat, NEW count \in Counts
  PROVE  RunOf(cycles, count).samples \in Nat
<1>1. CASE cycles = 0
  BY <1>1 DEF RunOf
<1>2. CASE cycles # 0
  <2>1. PICK a \in Nat : a = count + Fraction * cycles - 1
    BY <1>2, CountIsNat DEF Fraction
  <2>2. a \div SampleClockRatio \in Nat
    BY CountIsNat
  <2>3. QED
    BY <1>2, <2>1, <2>2 DEF RunOf, Made
<1>3. QED
  BY <1>1, <1>2

(* A chip that is brought up to date has the samples of all its time.      *)
LEMMA DueAdds ==
  ASSUME NEW t \in Nat, NEW u \in Nat, t <= u
  PROVE  LET run == RunOf(u - t, Fraction * t - SampleClockRatio * Due(t))
         IN  /\ Due(t) + run.samples = Due(u)
             /\ run.cycleCnt = Fraction * u - SampleClockRatio * Due(u)
<1>1. SampleClockRatio \in Nat \ {0} /\ Due(t) \in Nat /\ Due(u) \in Nat
  BY CountIsNat, DueIs
<1>2. CASE u = t
  BY <1>1, <1>2 DEF RunOf
<1>3. CASE u # t
  <2>1. PICK a \in Int, d \in Int, e \in Int, cycles \in Nat, count \in Int :
          /\ a = Fraction * u - 1 /\ d = Due(t) /\ e = Due(u) /\ cycles = u - t /\ cycles # 0
          /\ count = Fraction * t - SampleClockRatio * d
          /\ count + Fraction * cycles - 1 = a - SampleClockRatio * d
    <3>1. Fraction * t - SampleClockRatio * Due(t) \in Int /\ SampleClockRatio * Due(t) \in Int
      BY <1>1 DEF Fraction
    <3>2. u - t \in Nat /\ u - t # 0
      BY <1>3
    <3>3. Fraction * t - SampleClockRatio * Due(t) + Fraction * (u - t) - 1 =
            Fraction * u - 1 - SampleClockRatio * Due(t)
      BY <3>1 DEF Fraction
    <3>4. Fraction * u - 1 \in Int
      BY DEF Fraction
    <3>5. QED
      BY <1>1, <3>1, <3>2, <3>3, <3>4, SMTT(30)
  <2>2. e = a \div SampleClockRatio
    BY <1>3, <2>1 DEF Due
  <2>3. Made(cycles, count) = e - d
    <3>1. (a - SampleClockRatio * d) \div SampleClockRatio = (a \div SampleClockRatio) - d
      BY <1>1, QuotientLess
    <3>2. Made(cycles, count) = (a - SampleClockRatio * d) \div SampleClockRatio
      BY <2>1 DEF Made
    <3>3. QED
      BY <2>2, <3>1, <3>2
  <2>4. RunOf(cycles, count) =
          [cycleCnt |-> count + Fraction * cycles - SampleClockRatio * (e - d), samples |-> e - d]
    BY <2>1, <2>3 DEF RunOf
  <2>5. count + Fraction * cycles - SampleClockRatio * (e - d) = Fraction * u - SampleClockRatio * e
    <3>1. SampleClockRatio * (e - d) = SampleClockRatio * e - SampleClockRatio * d
      BY <1>1
    <3>2. SampleClockRatio * e \in Int /\ SampleClockRatio * d \in Int
      BY <1>1
    <3>3. QED
      BY <2>1, <3>1, <3>2 DEF Fraction
  <2>6. QED
    BY <2>1, <2>4, <2>5
<1>4. QED
  BY <1>2, <1>3

LEMMA ClockedIs ==
  ASSUME SamplingOK, NEW s \in Sids
  PROVE  /\ Clocked(s) \in ChipOf /\ Clocked(s).accessClk = time /\ OnTime(Clocked(s))
         /\ powerOn = 0 => Punctual(Clocked(s))
<1>1. PICK t \in Nat, u \in Nat, b \in Nat, d \in Nat :
        /\ t = chip[s].accessClk /\ u = time /\ b = chip[s].bufferpos /\ d = Due(begun) + delivered
        /\ t <= u /\ u <= MaxTime /\ (powerOn = 0 => d + b = Due(t))
        /\ chip[s].cycleCnt = Fraction * t - SampleClockRatio * Due(t)
  <2>1. chip[s] \in ChipOf /\ OnTime(chip[s]) /\ (powerOn = 0 => Punctual(chip[s]))
    BY DEF SamplingOK
  <2>2. time \in Nat /\ time <= MaxTime
    BY TimeAssumption DEF SamplingOK
  <2>3. Due(begun) + delivered \in Nat
    BY DueIs DEF SamplingOK
  <2>4. QED
    BY <2>1, <2>2, <2>3 DEF ChipOf, OnTime, Punctual
<1> DEFINE run == RunOf(u - t, Fraction * t - SampleClockRatio * Due(t))
<1>2. SidClock[<<u - t, Fraction * t - SampleClockRatio * Due(t)>>] = run
  <2>1. u - t \in 0..MaxTime
    BY <1>1, TimeAssumption
  <2>2. QED
    BY <2>1, DueIs, SidClockIs
<1>3. Clocked(s) = [accessClk |-> time, cycleCnt |-> run.cycleCnt,
                    bufferpos |-> chip[s].bufferpos + run.samples]
  BY <1>1, <1>2 DEF Clocked
<1>4. Due(t) + run.samples = Due(u) /\ run.cycleCnt = Fraction * u - SampleClockRatio * Due(u)
  BY <1>1, DueAdds
<1>5. run.samples \in Nat
  <2>1. u - t \in Nat
    BY <1>1
  <2>2. Fraction * t - SampleClockRatio * Due(t) \in Counts
    BY DueIs
  <2>3. QED
    BY <2>1, <2>2, RunMakes
<1>6. Due(u) \in Nat /\ Fraction * u - SampleClockRatio * Due(u) \in Nat
  BY DueIs, CountIsNat
<1> HIDE DEF run
<1>7. Clocked(s) \in ChipOf
  BY <1>1, <1>3, <1>4, <1>5, <1>6 DEF ChipOf
<1>8. powerOn = 0 => d + (b + run.samples) = Due(u)
  BY <1>1, <1>4, <1>5, <1>6
<1>9. powerOn = 0 => Punctual(Clocked(s))
  BY <1>1, <1>3, <1>8 DEF Punctual
<1>10. begun <= time
  BY <1>1 DEF SamplingOK, OnTime, ChipOf
<1>11. OnTime(Clocked(s))
  <2>1. Clocked(s).accessClk = u /\ Clocked(s).cycleCnt = Fraction * u - SampleClockRatio * Due(u)
    BY <1>1, <1>3, <1>4
  <2>2. begun <= u /\ u <= time
    BY <1>1, <1>10
  <2>3. QED
    BY <2>1, <2>2 DEF OnTime
<1>12. QED
  BY <1>3, <1>7, <1>9, <1>11

(* A chip with an empty buffer has returned all it made.                   *)
LEMMA EmptiedIs ==
  ASSUME SamplingOK, NEW s \in Sids
  PROVE  /\ Emptied[s] \in ChipOf /\ Emptied[s].bufferpos = 0 /\ Emptied[s].accessClk = time
         /\ Emptied[s].cycleCnt = Fraction * time - SampleClockRatio * Due(time)
<1>1. Clocked(s) \in ChipOf /\ Clocked(s).accessClk = time /\ OnTime(Clocked(s))
  BY ClockedIs
<1>2. Emptied[s] = [Clocked(s) EXCEPT !.bufferpos = 0]
  BY DEF Emptied
<1>3. /\ Emptied[s] \in ChipOf /\ Emptied[s].bufferpos = 0
      /\ Emptied[s].accessClk = Clocked(s).accessClk /\ Emptied[s].cycleCnt = Clocked(s).cycleCnt
  BY <1>1, <1>2 DEF ChipOf
<1>4. QED
  BY <1>1, <1>3 DEF OnTime

LEMMA EmptiedIsFunction ==
  ASSUME SamplingOK
  PROVE  Emptied \in [Sids -> ChipOf]
BY EmptiedIs DEF Emptied

LEMMA EndPlayKeeps ==
  ASSUME SamplingOK, EndPlay
  PROVE  SamplingOK' /\ delivered' = Due(time) - Due(begun)
<1>1. PICK last \in Sids : delivered' = delivered + Clocked(last).bufferpos
  BY DEF EndPlay
<1>2. PICK e \in Nat, d \in Nat, b \in Nat, u \in Nat :
        /\ e = Due(begun) /\ d = delivered /\ b = Clocked(last).bufferpos /\ u = Due(time)
        /\ e + d + b = u
  <2>1. Due(begun) \in Nat /\ Due(time) \in Nat /\ delivered \in Nat
    BY TimeAssumption, DueIs DEF SamplingOK
  <2>2. Clocked(last) \in ChipOf /\ Punctual(Clocked(last)) /\ Clocked(last).accessClk = time
    BY ClockedIs DEF EndPlay
  <2>3. QED
    BY <2>1, <2>2 DEF ChipOf, Punctual
<1>3. delivered' \in Nat /\ delivered' = Due(time) - Due(begun) /\ Due(begun) + delivered' + 0 = Due(time)
  BY <1>1, <1>2
<1>4. time' = time /\ begun' = begun /\ powerOn' = powerOn /\ powerOn = 0 /\ chip' = Emptied
  BY DEF EndPlay
<1>5. ASSUME NEW s \in Sids
      PROVE  OnTime(chip[s])' /\ Punctual(chip[s])'
  <2>1. begun <= time
    BY TimeAssumption DEF SamplingOK, OnTime, ChipOf
  <2>2. OnTime(chip[s])'
    BY <1>4, <2>1, EmptiedIs, TimeAssumption DEF OnTime, SamplingOK
  <2>3. Punctual(chip[s])'
    BY <1>3, <1>4, EmptiedIs DEF Punctual
  <2>4. QED
    BY <2>2, <2>3
<1>6. QED
  BY <1>3, <1>4, <1>5, EmptiedIsFunction DEF SamplingOK

(* The power-on loop throws away the samples of the time up to now.        *)
LEMMA PowerOnKeeps ==
  ASSUME SamplingOK, PowerOn
  PROVE  SamplingOK'
<1>1. /\ powerOn > 0 /\ powerOn' = powerOn - 1 /\ chip' = Emptied /\ begun' = time
      /\ time' = time /\ delivered' = delivered /\ delivered = 0
  BY DEF PowerOn, SamplingOK
<1>2. time \in Nat /\ Due(time) \in Nat
  BY TimeAssumption, DueIs DEF SamplingOK
<1>3. ASSUME NEW s \in Sids
      PROVE  OnTime(chip[s])' /\ Punctual(chip[s])'
  <2>1. OnTime(chip[s])'
    BY <1>1, <1>2, EmptiedIs DEF OnTime
  <2>2. Punctual(chip[s])'
    <3>1. Due(time) + 0 + 0 = Due(time)
      BY <1>2
    <3>2. QED
      BY <1>1, <3>1, EmptiedIs DEF Punctual
  <2>3. QED
    BY <2>1, <2>2
<1>4. powerOn' \in 0..PowerOnDelay
  BY <1>1, TimeAssumption DEF SamplingOK
<1>5. QED
  BY <1>1, <1>2, <1>3, <1>4, EmptiedIsFunction DEF SamplingOK

LEMMA DueOfNone == Due(0) = 0 /\ Fraction * 0 - SampleClockRatio * 0 = 0
BY CountIsNat DEF Due, Fraction

LEMMA SamplingStarts == SoundInit => SamplingOK
<1> SUFFICES ASSUME SoundInit PROVE SamplingOK
  OBVIOUS
<1>1. /\ time = 0 /\ begun = 0 /\ delivered = 0 /\ powerOn = PowerOnDelay
      /\ chip = [s \in Sids |-> Fresh]
  BY DEF SoundInit, Init
<1>2. Fresh \in ChipOf /\ OnTime(Fresh)
  BY <1>1, DueOfNone DEF Fresh, ChipOf, OnTime
<1>3. time \in 0..MaxTime /\ powerOn \in 0..PowerOnDelay /\ powerOn # 0
  BY <1>1, TimeAssumption
<1>4. QED
  BY <1>1, <1>2, <1>3 DEF SamplingOK

(* A reset may come while the buffers hold anything: the loop empties them *)
(* before a sample counts.                                                 *)
LEMMA ResetKeeps ==
  ASSUME SamplingOK, Reset
  PROVE  SamplingOK'
<1>1. /\ time' = 0 /\ begun' = 0 /\ delivered' = 0 /\ powerOn' = PowerOnDelay
      /\ chip' = [s \in Sids |-> [Fresh EXCEPT !.bufferpos = chip[s].bufferpos]]
  BY DEF Reset
<1>2. ASSUME NEW s \in Sids PROVE chip'[s] \in ChipOf /\ OnTime(chip[s])'
  <2>1. chip[s] \in ChipOf
    BY DEF SamplingOK
  <2>2. chip'[s] = [accessClk |-> 0, cycleCnt |-> 0, bufferpos |-> chip[s].bufferpos]
    BY <1>1 DEF Fresh
  <2>3. chip'[s] \in ChipOf
    BY <2>1, <2>2 DEF ChipOf
  <2>4. OnTime(chip[s])'
    BY <1>1, <2>2, DueOfNone DEF OnTime
  <2>5. QED
    BY <2>3, <2>4
<1>3. time' \in 0..MaxTime /\ powerOn' \in 0..PowerOnDelay /\ powerOn' # 0
  BY <1>1, TimeAssumption
<1>4. chip' \in [Sids -> ChipOf]
  BY <1>1, <1>2
<1>5. QED
  BY <1>1, <1>2, <1>3, <1>4 DEF SamplingOK

LEMMA SamplingKeeps ==
  ASSUME SamplingOK, Next
  PROVE  SamplingOK'
<1>1. time \in Nat /\ time <= MaxTime /\ delivered \in Nat /\ MaxTime \in Nat
  BY TimeAssumption DEF SamplingOK
<1>2. CASE Tick
  <2>1. /\ time' = time + 1 /\ time < MaxTime /\ chip' = chip /\ delivered' = delivered
        /\ powerOn' = powerOn /\ begun' = begun
    BY <1>2 DEF Tick
  <2>2. \A s \in Sids : chip[s].accessClk \in Nat
    BY DEF SamplingOK, ChipOf
  <2>3. ASSUME NEW s \in Sids PROVE OnTime(chip[s])'
    <3>1. OnTime(chip[s]) /\ chip[s].accessClk <= time'
      BY <1>1, <2>1, <2>2 DEF SamplingOK, OnTime
    <3>2. QED
      BY <2>1, <3>1 DEF OnTime
  <2>4. powerOn' = 0 => \A s \in Sids : Punctual(chip[s])'
    BY <2>1 DEF SamplingOK, Punctual
  <2>5. time' \in 0..MaxTime
    BY <1>1, <2>1
  <2>6. QED
    BY <2>1, <2>3, <2>4, <2>5 DEF SamplingOK
<1>3. ASSUME NEW s \in Sids, Access(s) PROVE SamplingOK'
  <2>1. /\ chip' = [chip EXCEPT ![s] = Clocked(s)] /\ time' = time /\ delivered' = delivered
        /\ powerOn' = powerOn /\ begun' = begun /\ powerOn = 0
    BY <1>3 DEF Access
  <2>2. Clocked(s) \in ChipOf /\ OnTime(Clocked(s)) /\ Punctual(Clocked(s))
    BY <1>3, <2>1, ClockedIs
  <2>3. chip' \in [Sids -> ChipOf]
    BY <2>1, <2>2 DEF SamplingOK
  <2>4. ASSUME NEW t \in Sids PROVE OnTime(chip[t])' /\ Punctual(chip[t])'
    <3>1. OnTime(chip'[t]) /\ Punctual(chip'[t])
      BY <1>3, <2>1, <2>2 DEF SamplingOK
    <3>2. QED
      BY <2>1, <3>1 DEF OnTime, Punctual
  <2>5. QED
    BY <2>1, <2>3, <2>4 DEF SamplingOK
<1>4. QED
  BY <1>2, <1>3, EndPlayKeeps, PowerOnKeeps, ResetKeeps DEF Next

-----------------------------------------------------------------------------
(* The chips that are hardware: an account has all the time up to its last *)
(* command, and the event of an USBSID is due a period later at most.      *)

Users == ExSids \union {Hardware!Waiting}

HardwareOK ==
  /\ now \in Nat
  /\ m_accessClk \in [ExSids -> Nat] /\ \A d \in ExSids : m_accessClk[d] <= now
  /\ m_delayClk \in Nat /\ m_delayClk <= now
  /\ queued \in [UsbSids -> Nat]
  /\ \A c \in UsbSids : now <= queued[c] /\ queued[c] <= m_delayClk + raster_rate
  /\ passed \in [Users -> Nat]
  /\ \A d \in ExSids : passed[d] = m_accessClk[d]
  /\ passed[Hardware!Waiting] = m_delayClk
  /\ \A c \in written : passed[IF c \in ExSids THEN c ELSE Hardware!Waiting] = now
  /\ written # {} => commands.rest <= Limit

LEMMA HardwareInStep == HardwareOK => Hardware!InStep
<1> SUFFICES ASSUME HardwareOK PROVE Hardware!InStep
  OBVIOUS
<1>1. ASSUME NEW c \in UsbSids PROVE now - passed[Hardware!Waiting] <= raster_rate
  <2>1. /\ now \in Nat /\ m_delayClk \in Nat /\ raster_rate \in Nat /\ queued[c] \in Nat
        /\ now <= queued[c] /\ queued[c] <= m_delayClk + raster_rate
        /\ passed[Hardware!Waiting] = m_delayClk
    BY <1>1, LimitAssumption DEF HardwareOK
  <2>2. QED
    BY <2>1
<1>2. QED
  BY <1>1 DEF HardwareOK, Hardware!InStep

(* Full commands and a rest that fits in one are the time between.         *)
LEMMA DelayIs ==
  ASSUME NEW cycles \in Nat
  PROVE  /\ Hardware!Delay(cycles).full * Limit + Hardware!Delay(cycles).rest = cycles
         /\ Hardware!Delay(cycles).full * Limit \in Int /\ Hardware!Delay(cycles).rest \in Int
         /\ Hardware!Delay(cycles).rest <= Limit
<1>1. Limit \in Nat \ {0}
  BY LimitAssumption
<1>2. CASE cycles = 0
  <2>1. Hardware!Delay(cycles) = [full |-> 0, rest |-> cycles - 0 * Limit]
    BY <1>2 DEF Hardware!Delay
  <2>2. QED
    BY <1>1, <1>2, <2>1
<1>3. CASE cycles # 0
  <2>1. PICK q \in Int : /\ q = (cycles - 1) \div Limit /\ Limit * q <= cycles - 1
                         /\ cycles - 1 < Limit * q + Limit
    BY <1>1, Quotient
  <2>2. PICK p \in Int : p = q * Limit /\ p <= cycles - 1 /\ cycles - 1 < p + Limit
    BY <1>1, <2>1
  <2>3. Hardware!Delay(cycles) = [full |-> q, rest |-> cycles - q * Limit]
    BY <1>3, <2>1 DEF Hardware!Delay
  <2>4. QED
    BY <1>1, <2>2, <2>3
<1>4. QED
  BY <1>2, <1>3

(* What is sent brings an account up to the present.                       *)
LEMMA SendsUpToNow ==
  ASSUME HardwareOK, NEW who \in Users, passed[who] <= now,
         Hardware!Send(who, Hardware!Delay(now - passed[who]))
  PROVE  /\ passed' = [passed EXCEPT ![who] = now]
         /\ commands'.rest <= Limit
<1>1. passed \in [Users -> Nat] /\ now \in Nat
  BY DEF HardwareOK
<1>2. PICK a \in Nat, b \in Nat : a = passed[who] /\ b = now /\ b - a \in Nat
  BY <1>1
<1> DEFINE pieces == Hardware!Delay(b - a)
<1>3. /\ pieces.full * Limit + pieces.rest = b - a /\ pieces.rest <= Limit
      /\ pieces.full * Limit \in Int /\ pieces.rest \in Int
  BY <1>2, DelayIs
<1>4. /\ commands' = pieces
      /\ passed' = [passed EXCEPT ![who] = passed[who] + pieces.full * Limit + pieces.rest]
  BY <1>2 DEF Hardware!Send
<1>5. a + pieces.full * Limit + pieces.rest = b
  <2>1. PICK x \in Int, y \in Int :
          x = pieces.full * Limit /\ y = pieces.rest /\ x + y = b - a
    BY <1>3
  <2>2. a + x + y = b
    BY <2>1
  <2>3. QED
    BY ONLY <2>1, <2>2
<1>6. QED
  BY <1>2, <1>3, <1>4, <1>5

(* An exSID's command; the USBSIDs have no part in it.                     *)
LEMMA ExSidKeeps ==
  ASSUME HardwareOK, NEW d \in ExSids, Hardware!DelayExSid(d),
         UNCHANGED <<now, m_delayClk, queued>>, written' \in {{}, {d}}
  PROVE  HardwareOK'
<1>1. /\ m_accessClk \in [ExSids -> Nat] /\ passed \in [Users -> Nat] /\ now \in Nat
      /\ passed[d] = m_accessClk[d] /\ m_accessClk[d] <= now
      /\ d \in Users /\ Hardware!Waiting \in Users /\ Hardware!Waiting # d
  BY ChipAssumption DEF HardwareOK, Users
<1>2. passed' = [passed EXCEPT ![d] = now] /\ commands'.rest <= Limit
  BY <1>1, SendsUpToNow DEF Hardware!DelayExSid
<1>3. m_accessClk' = [m_accessClk EXCEPT ![d] = now]
  BY DEF Hardware!DelayExSid
<1>4. m_accessClk' \in [ExSids -> Nat] /\ passed' \in [Users -> Nat]
  BY <1>1, <1>2, <1>3
<1>5. \A e \in ExSids : m_accessClk'[e] <= now /\ passed'[e] = m_accessClk'[e]
  BY <1>1, <1>2, <1>3 DEF HardwareOK, Users
<1>6. passed'[Hardware!Waiting] = m_delayClk
  BY <1>1, <1>2 DEF HardwareOK
<1>7. \A c \in written' : passed'[IF c \in ExSids THEN c ELSE Hardware!Waiting] = now
  BY <1>1, <1>2
<1>8. QED
  BY <1>2, <1>4, <1>5, <1>6, <1>7 DEF HardwareOK

(* The program waits for the USBSIDs.                                      *)
LEMMA WaitKeeps ==
  ASSUME HardwareOK, UNCHANGED <<now, m_accessClk>>, m_delayClk' = now,
         passed' = [passed EXCEPT ![Hardware!Waiting] = now],
         queued' \in [UsbSids -> Nat],
         \A c \in UsbSids : now <= queued'[c] /\ queued'[c] <= now + raster_rate,
         \A c \in written' : c \notin ExSids,
         written' # {} => commands'.rest <= Limit
  PROVE  HardwareOK'
<1>1. /\ passed \in [Users -> Nat] /\ now \in Nat
      /\ Hardware!Waiting \in Users /\ Hardware!Waiting \notin ExSids
  BY ChipAssumption DEF HardwareOK, Users
<1>2. passed' \in [Users -> Nat] /\ passed'[Hardware!Waiting] = now
  BY <1>1
<1>3. \A d \in ExSids : passed'[d] = m_accessClk[d] /\ m_accessClk[d] <= now
  BY <1>1 DEF HardwareOK, Users
<1>4. \A c \in written' : passed'[IF c \in ExSids THEN c ELSE Hardware!Waiting] = now
  BY <1>2
<1>5. now' = now /\ m_accessClk' = m_accessClk /\ m_accessClk \in [ExSids -> Nat] /\ now <= now
  BY <1>1 DEF HardwareOK
<1>6. QED
  BY <1>1, <1>2, <1>3, <1>4, <1>5 DEF HardwareOK

LEMMA UsbSidWriteKeeps ==
  ASSUME HardwareOK, NEW c \in UsbSids, c \notin ExSids, Hardware!Write(c)
  PROVE  HardwareOK'
<1>1. /\ Hardware!Send(Hardware!Waiting, Hardware!Delay(now - m_delayClk))
      /\ m_delayClk' = now /\ written' = {c}
      /\ UNCHANGED <<now, m_accessClk, readflag, queued>>
  BY DEF Hardware!Write
<1>2. /\ passed[Hardware!Waiting] = m_delayClk /\ m_delayClk <= now
      /\ Hardware!Waiting \in Users /\ now \in Nat /\ m_delayClk \in Nat
      /\ raster_rate \in Nat /\ queued \in [UsbSids -> Nat]
  BY LimitAssumption DEF HardwareOK, Users
<1>3. passed' = [passed EXCEPT ![Hardware!Waiting] = now] /\ commands'.rest <= Limit
  BY <1>1, <1>2, SendsUpToNow
<1>4. \A e \in UsbSids : now <= queued'[e] /\ queued'[e] <= now + raster_rate
  <2> SUFFICES ASSUME NEW e \in UsbSids PROVE now <= queued'[e] /\ queued'[e] <= now + raster_rate
    OBVIOUS
  <2>1. now <= queued[e] /\ queued[e] <= m_delayClk + raster_rate /\ queued[e] \in Nat
    BY <1>2 DEF HardwareOK
  <2>2. QED
    BY <1>1, <1>2, <2>1
<1>5. QED
  BY <1>1, <1>2, <1>3, <1>4, WaitKeeps

LEMMA EventKeeps ==
  ASSUME HardwareOK, NEW c \in UsbSids, Hardware!Event(c)
  PROVE  HardwareOK'
<1>1. /\ passed[Hardware!Waiting] = m_delayClk /\ m_delayClk <= now
      /\ Hardware!Waiting \in Users /\ now \in Nat /\ m_delayClk \in Nat
      /\ raster_rate \in Nat /\ queued \in [UsbSids -> Nat] /\ passed \in [Users -> Nat]
  BY LimitAssumption DEF HardwareOK, Users
<1>2. written' = {} /\ UNCHANGED <<now, m_accessClk, readflag>>
  BY DEF Hardware!Event
<1>3. ASSUME NEW e \in UsbSids
      PROVE  now <= queued[e] /\ queued[e] <= m_delayClk + raster_rate /\ queued[e] \in Nat
  BY <1>1 DEF HardwareOK
<1>4. CASE now - m_delayClk < raster_rate
  <2>1. /\ queued' = [queued EXCEPT ![c] = now + raster_rate - (now - m_delayClk)]
        /\ UNCHANGED <<m_delayClk, passed>>
    BY <1>4 DEF Hardware!Event
  <2>2. PICK due \in Nat : /\ due = now + raster_rate - (now - m_delayClk)
                           /\ now <= due /\ due <= m_delayClk + raster_rate
    BY <1>1, <1>4
  <2>3. queued' = [queued EXCEPT ![c] = due]
    BY ONLY <2>1, <2>2
  <2>4. queued' \in [UsbSids -> Nat]
    BY <1>1, <2>3
  <2>5. \A e \in UsbSids : now <= queued'[e] /\ queued'[e] <= m_delayClk + raster_rate
    BY ONLY <1>1, <1>3, <2>2, <2>3
  <2>6. QED
    BY <1>2, <2>1, <2>4, <2>5 DEF HardwareOK
<1>5. CASE ~(now - m_delayClk < raster_rate)
  <2>1. /\ queued' = [queued EXCEPT ![c] = now + raster_rate]
        /\ m_delayClk' = now
        /\ Hardware!Send(Hardware!Waiting, [full |-> 0, rest |-> now - m_delayClk])
    BY <1>5 DEF Hardware!Event
  <2>2. passed' = [passed EXCEPT ![Hardware!Waiting] = now]
    <3>1. passed' = [passed EXCEPT ![Hardware!Waiting] = m_delayClk + 0 * Limit + (now - m_delayClk)]
      BY <1>1, <2>1 DEF Hardware!Send
    <3>2. m_delayClk + 0 * Limit + (now - m_delayClk) = now
      BY <1>1, LimitAssumption
    <3>3. QED
      BY ONLY <3>1, <3>2
  <2>3. queued' \in [UsbSids -> Nat]
    BY <1>1, <2>1
  <2>4. \A e \in UsbSids : now <= queued'[e] /\ queued'[e] <= now + raster_rate
    BY <1>1, <1>3, <2>1
  <2>5. QED
    BY <1>2, <2>1, <2>2, <2>3, <2>4, WaitKeeps
<1>6. QED
  BY <1>4, <1>5

LEMMA HardwareStarts == SoundInit => HardwareOK
<1> SUFFICES ASSUME SoundInit PROVE HardwareOK
  OBVIOUS
<1>1. raster_rate \in Nat
  BY LimitAssumption
<1>2. QED
  BY <1>1 DEF SoundInit, Hardware!Init, Hardware!Fresh, HardwareOK, Users

LEMMA HardwareKeeps ==
  ASSUME HardwareOK, Hardware!Next
  PROVE  HardwareOK'
<1>1. CASE Hardware!Tick
  <2>1. /\ now' = now + 1 /\ written' = {} /\ UNCHANGED <<m_accessClk, m_delayClk, queued, passed>>
        /\ \A c \in UsbSids : queued[c] # now
    BY <1>1 DEF Hardware!Tick, Hardware!account
  <2>2. /\ now \in Nat /\ m_delayClk \in Nat /\ m_delayClk <= now' /\ now' \in Nat
        /\ \A d \in ExSids : m_accessClk[d] <= now'
    BY <2>1 DEF HardwareOK
  <2>3. \A c \in UsbSids : now' <= queued[c]
    BY <2>1, <2>2 DEF HardwareOK
  <2>4. QED
    BY <2>1, <2>2, <2>3 DEF HardwareOK
<1>2. CASE Hardware!Reset
  <2>1. raster_rate \in Nat
    BY LimitAssumption
  <2>2. QED
    BY <1>2, <2>1 DEF Hardware!Reset, Hardware!Fresh, HardwareOK, Users
<1>3. ASSUME NEW c \in ExSids \union UsbSids, Hardware!Write(c) PROVE HardwareOK'
  <2>1. CASE c \in ExSids
    BY <1>3, <2>1, ExSidKeeps DEF Hardware!Write
  <2>2. CASE c \notin ExSids
    BY <1>3, <2>2, UsbSidWriteKeeps
  <2>3. QED
    BY <2>1, <2>2
<1>4. ASSUME NEW d \in ExSids, Hardware!Clock(d) PROVE HardwareOK'
  BY <1>4, ExSidKeeps DEF Hardware!Clock
<1>5. ASSUME NEW d \in ExSids, NEW osc3 \in BOOLEAN, Hardware!Read(d, osc3) PROVE HardwareOK'
  <2>1. CASE osc3 /\ d \notin readflag
    BY <1>5, <2>1 DEF Hardware!Read, HardwareOK
  <2>2. CASE ~(osc3 /\ d \notin readflag)
    BY <1>5, <2>2, ExSidKeeps DEF Hardware!Read
  <2>3. QED
    BY <2>1, <2>2
<1>6. ASSUME NEW c \in UsbSids, Hardware!Event(c) PROVE HardwareOK'
  BY <1>6, EventKeeps
<1>7. QED
  BY <1>1, <1>2, <1>3, <1>4, <1>5, <1>6 DEF Hardware!Next

(* The invariants of both kinds of chips.                                  *)
PaceInv == SamplingOK /\ HardwareOK

LEMMA PaceInvInductive == SoundSpec => []PaceInv
<1>1. SoundInit => PaceInv
  BY SamplingStarts, HardwareStarts DEF PaceInv
<1>2. PaceInv /\ [SoundNext]_sound => PaceInv'
  <2> SUFFICES ASSUME PaceInv, [SoundNext]_sound PROVE PaceInv'
    OBVIOUS
  <2>1. UNCHANGED vars => SamplingOK'
    BY DEF PaceInv, SamplingOK, OnTime, Punctual, vars
  <2>2. UNCHANGED hardware => HardwareOK'
    BY DEF PaceInv, HardwareOK, hardware
  <2>3. CASE SamplingStep
    BY <2>2, <2>3, SamplingKeeps DEF PaceInv, SamplingStep
  <2>4. CASE HardwareStep
    BY <2>1, <2>4, HardwareKeeps DEF PaceInv, HardwareStep
  <2>5. CASE UNCHANGED vars /\ UNCHANGED hardware
    BY <2>1, <2>2, <2>5 DEF PaceInv
  <2>6. QED
    BY <2>3, <2>4, <2>5 DEF SoundNext, EnvelopeStep, NoiseStep, MixerStep, sound
<1>3. QED
  BY <1>1, <1>2, PTL DEF SoundSpec

(* An emulation returns the samples of the time played, however the power- *)
(* on loop, the accesses and the ends of play() cut it (player.cpp,        *)
(* sidlite/SID.cpp), and hardware gets each write in the machine's cycle   *)
(* (exsid-emu.cpp, usbsid-emu.cpp): for every rate, length of the loop and *)
(* number of chips, whatever a play() that failed left in the buffers.     *)
THEOREM KeepsPaceCorrect == SoundSpec => KeepsPace
<1>1. PaceInv /\ [SoundNext]_sound => [KeepsRate /\ Hardware!InStep]_<<vars, hardware>>
  <2>1. PaceInv => Hardware!InStep
    BY HardwareInStep DEF PaceInv
  <2>2. PaceInv => KeepsRate
    BY EndPlayKeeps DEF PaceInv, KeepsRate
  <2>3. QED
    BY <2>1, <2>2
<1>2. QED
  BY <1>1, PaceInvInductive, PTL DEF SoundSpec, KeepsPace

(* The buffers of all chips have one length (player.cpp), also of the      *)
(* first play() after a reset or a play() that failed.                     *)
THEOREM SameBufferSizeCorrect == SoundSpec => []SameBufferSize
<1>1. SoundInit => SameBufferSize
  BY DEF SoundInit, Init, SameBufferSize
<1>2. PaceInv /\ SameBufferSize /\ [SoundNext]_sound => SameBufferSize'
  <2> SUFFICES ASSUME PaceInv, SameBufferSize, [SoundNext]_sound PROVE SameBufferSize'
    OBVIOUS
  <2>1. CASE EndPlay
    <3>1. ASSUME NEW s \in Sids, NEW t \in Sids PROVE buffers'[s] = buffers'[t]
      <4>1. PICK a \in Nat, b \in Nat, d \in Nat :
              /\ a = Clocked(s).bufferpos /\ b = Clocked(t).bufferpos
              /\ d = Due(begun) + delivered /\ d + a = Due(time) /\ d + b = Due(time)
        <5>1. Due(begun) + delivered \in Nat
          BY DueIs DEF PaceInv, SamplingOK
        <5>2. /\ Clocked(s) \in ChipOf /\ Punctual(Clocked(s)) /\ Clocked(s).accessClk = time
              /\ Clocked(t) \in ChipOf /\ Punctual(Clocked(t)) /\ Clocked(t).accessClk = time
          BY <2>1, ClockedIs DEF PaceInv, EndPlay
        <5>3. QED
          BY <5>1, <5>2 DEF ChipOf, Punctual
      <4>2. a = b
        <5>1. d + a = d + b
          BY ONLY <4>1
        <5>2. QED
          BY <5>1
      <4>3. QED
        BY <2>1, <4>1, <4>2 DEF EndPlay
    <3>2. QED
      BY <3>1 DEF SameBufferSize
  <2>2. CASE UNCHANGED buffers
    BY <2>2 DEF SameBufferSize
  <2>3. QED
    BY <2>1, <2>2 DEF SoundNext, SamplingStep, EnvelopeStep, NoiseStep, MixerStep, HardwareStep,
                      sound, vars, Next, Tick, PowerOn, Access, Reset
<1>3. QED
  BY <1>1, <1>2, PaceInvInductive, PTL DEF SoundSpec
=============================================================================

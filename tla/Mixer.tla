-------------------------------- MODULE Mixer --------------------------------
(***************************************************************************)
(* The mixer of up to three chips (simpleMixer.h, simpleMixer.cpp). The    *)
(* mono functions compute in 32 bits, which wrap; the stereo functions in  *)
(* double precision, which holds their products exactly.                   *)
(***************************************************************************)
EXTENDS Integers, Sequences

CONSTANT Samples(_)  \* Samples(n): what a chip's buffer may hold, of n chips

VARIABLES
  stereo, chips,   \* the constructor's arguments
  m_iSamples,      \* the chips' samples of one moment
  out              \* what doMix() appends to its buffer for them

vars == <<stereo, chips, m_iSamples, out>>

-----------------------------------------------------------------------------
SCALE == <<65536, 46340, 37837>>  \* 2^16 by 1, 1/sqrt(2) and 1/sqrt(3)

Signed16(n) == ((n + 32768) % 65536) - 32768

(* n * scale as <<high, low>>, high * 65536 + low, with 0 <= low < 65536.  *)
Product(n, scale) ==
  LET b == n * (scale % 256)
      y == n * (scale \div 256) + (b \div 256)
  IN  <<y \div 256, (y % 256) * 256 + (b % 256)>>

(* The division by 2^16 rounds toward zero.                                *)
RoundDown(high, low) == high  \* as if the division were a shift
TowardZero(high, low) == IF high < 0 /\ low # 0 THEN high + 1 ELSE high

(* The 32-bit product keeps the low 16 bits of high.                       *)
Mono(sum, n) ==
  LET p == Product(sum, SCALE[n]) IN TowardZero(Signed16(p[1]), p[2])

(* The sum comes doubled, as the matrix has halves.                        *)
Half(doubled, n) ==
  LET p == Product(doubled, SCALE[n])
      odd == p[1] % 2
  IN  TowardZero(p[1] \div 2, odd + p[2])

Total(s) ==
  s[1] + (IF Len(s) > 1 THEN s[2] ELSE 0) + (IF Len(s) > 2 THEN s[3] ELSE 0)

(* The channel matrix: the chips' sums for left and right, in halves.      *)
LeftSum(s) ==
  IF Len(s) = 2 THEN 2 * s[1] + s[2] ELSE 2 * s[1] + 2 * s[2] + s[3]
RightSum(s) ==
  IF Len(s) = 2 THEN s[1] + 2 * s[2] ELSE s[1] + 2 * s[2] + 2 * s[3]

Mixed(s) ==
  IF ~stereo THEN <<Mono(Total(s), Len(s))>>
  ELSE IF Len(s) = 1 THEN <<s[1], s[1]>>
  ELSE <<Half(LeftSum(s), Len(s)), Half(RightSum(s), Len(s))>>

Init ==
  /\ stereo \in BOOLEAN /\ chips \in 1..3
  /\ m_iSamples = [i \in 1..chips |-> 0]
  /\ out = [i \in 1..(IF stereo THEN 2 ELSE 1) |-> 0]

DoMix ==
  /\ m_iSamples' \in [1..chips -> Samples(chips)]
  /\ out' = Mixed(m_iSamples')
  /\ UNCHANGED <<stereo, chips>>

Next == DoMix

-----------------------------------------------------------------------------
(* The loudest level of n chips whose sum, scaled, fits in a short.        *)
Loudness(n) == CASE n = 1 -> 32768 [] n = 2 -> 23170 [] n = 3 -> 18918

Between(x, low, high) == low <= x /\ x <= high

Quiet == \A i \in 1..chips : Between(m_iSamples[i], -Loudness(chips), Loudness(chips))

(* simpleMixer.cpp asserts that a mixed sample fits a short.               *)
InRange == \A i \in DOMAIN out : Between(out[i], -32768, 32767)

(* |x| <= |sum| / sqrt(n) < |x| + 2, on the same side of zero.             *)
Close(x, sum, n) ==
  LET size == IF x < 0 THEN -x ELSE x
  IN  /\ n * size * size <= sum * sum
      /\ sum * sum < n * (size + 2) * (size + 2)
      /\ x # 0 => (x < 0 <=> sum < 0)

(* While no chip is louder than 1/sqrt(n) of its range, a mixed sample is  *)
(* in the range of a short and is the weighted sum of the chips, by the    *)
(* square root of their number, rounded toward zero. (Louder chips leave   *)
(* the range: the weights add up to more than one.)                        *)
SamplesMixed ==
  Quiet =>
    /\ InRange
    /\ IF ~stereo THEN Close(out[1], Total(m_iSamples), chips)
       ELSE IF chips = 1 THEN out[1] = m_iSamples[1] /\ out[2] = m_iSamples[1]
       ELSE /\ Close(out[1], LeftSum(m_iSamples), 4 * chips)
            /\ Close(out[2], RightSum(m_iSamples), 4 * chips)
=============================================================================

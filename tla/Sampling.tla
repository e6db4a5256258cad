------------------------------ MODULE Sampling ------------------------------
(***************************************************************************)
(* The emulations of several SIDs fill their buffers while the machine     *)
(* runs (sidlite-emu.cpp, sidlite/SID.cpp; residfp-emu.cpp calls its       *)
(* library in the same way). A chip is brought up to date when it is       *)
(* accessed and at the end of Player::play(), so each is clocked in pieces *)
(* of its own; the player takes the length of the last one's buffer for    *)
(* the length of all. The machine starts with a power-on loop, in which    *)
(* time goes on and samples are thrown away.                               *)
(***************************************************************************)
EXTENDS Integers

CONSTANTS
  Sids,              \* the chips in use
  SampleClockRatio,  \* sixteenths of a cycle per sample; 328 at 48 kHz
  PowerOnDelay,      \* how often the power-on loop clocks the chips, 8000 times or more
  MaxTime            \* bounds the cycles between two resets

VARIABLES
  time,        \* the scheduler's clock, in cycles
  chip,        \* chip[s]: accessClk, SampleCycleCnt and bufferpos
  powerOn,     \* what is left of the power-on loop; the CPU runs from its end on
  \* History, for the properties:
  begun,       \* when the power-on loop last threw samples away
  buffers,     \* the bufferpos of each chip when play() ended
  delivered    \* the samples returned by play() since the last reset

vars == <<time, chip, powerOn, begun, buffers, delivered>>

Fresh == [accessClk |-> 0, cycleCnt |-> 0, bufferpos |-> 0]

(* Chips that were just made, and the set-up that made them has reset the  *)
(* machine.                                                                *)
Init ==
  /\ time = 0
  /\ chip = [s \in Sids |-> Fresh]
  /\ powerOn = PowerOnDelay /\ begun = 0
  /\ buffers = [s \in Sids |-> 0]
  /\ delivered = 0

-----------------------------------------------------------------------------
(* SID::clock and generateSample: at most seven cycles at a time, and a    *)
(* sample whenever the count exceeds the ratio. Nothing is done without    *)
(* cycles, not even for a count that already exceeds it.                   *)

Fraction == 16
Chunk(cycles) == IF cycles < 7 THEN cycles ELSE 7

DropRemainder(count) == 0  \* as if the count began anew with each sample
Carry(count) == count - SampleClockRatio

Counts == 0..(SampleClockRatio + 7 * Fraction)

SidClock[run \in (0..MaxTime) \X Counts] ==   \* <<cycles, count>>
  LET cycles == run[1]
      n == IF run[2] > SampleClockRatio THEN 0 ELSE Chunk(cycles)
      sum == run[2] + n * Fraction
      full == sum > SampleClockRatio
      rest == SidClock[<<cycles - n, IF full THEN Carry(sum) ELSE sum>>]
  IN  IF cycles = 0 THEN [cycleCnt |-> run[2], samples |-> 0]
      ELSE [cycleCnt |-> rest.cycleCnt, samples |-> rest.samples + (IF full THEN 1 ELSE 0)]

(* SIDLiteEmu::clock                                                       *)
Clocked(s) ==
  LET run == SidClock[<<time - chip[s].accessClk, chip[s].cycleCnt>>]
  IN  [accessClk |-> time, cycleCnt |-> run.cycleCnt,
       bufferpos |-> chip[s].bufferpos + run.samples]

-----------------------------------------------------------------------------
(* The chips are brought up to date, and their buffers start again.        *)
Emptied == [s \in Sids |-> [Clocked(s) EXCEPT !.bufferpos = 0]]

Tick ==
  /\ time < MaxTime
  /\ time' = time + 1
  /\ UNCHANGED <<chip, powerOn, begun, buffers, delivered>>

(* initialise(), called by reset() and by every set-up: the reset of the   *)
(* machine sets back scheduler and chips, but not what the buffers hold.   *)
(* Nothing but the machine without its CPU runs until the loop is through. *)
Reset ==
  /\ powerOn = 0
  /\ time' = 0 /\ powerOn' = PowerOnDelay
  /\ chip' = [s \in Sids |-> [Fresh EXCEPT !.bufferpos = chip[s].bufferpos]]
  /\ begun' = 0 /\ delivered' = 0
  /\ UNCHANGED buffers

PowerOnKeeping ==  \* as if the loop left the buffers as they are
  /\ powerOn > 0
  /\ powerOn' = powerOn - 1
  /\ chip' = [s \in Sids |-> Clocked(s)]
  /\ begun' = time
  /\ UNCHANGED <<time, buffers, delivered>>

(* The body of initialise()'s loop, after some time has passed.            *)
PowerOn ==
  /\ powerOn > 0
  /\ powerOn' = powerOn - 1
  /\ chip' = Emptied
  /\ begun' = time
  /\ UNCHANGED <<time, buffers, delivered>>

(* The program reads or writes a register.                                 *)
AccessUnclocked(s) ==  \* as if a write only noted the time
  /\ powerOn = 0
  /\ chip' = [chip EXCEPT ![s].accessClk = time]
  /\ UNCHANGED <<time, powerOn, begun, buffers, delivered>>

Access(s) ==
  /\ powerOn = 0
  /\ chip' = [chip EXCEPT ![s] = Clocked(s)]
  /\ UNCHANGED <<time, powerOn, begun, buffers, delivered>>

(* The end of play(). One that an exception of the CPU ends leaves chips   *)
(* and buffers as they are, for the next play() or reset(): it is no step. *)
EndPlay ==
  /\ powerOn = 0
  /\ buffers' = [s \in Sids |-> Clocked(s).bufferpos]
  /\ chip' = Emptied
  /\ \E last \in Sids : delivered' = delivered + buffers'[last]
  /\ UNCHANGED <<time, powerOn, begun>>

Next == Tick \/ Reset \/ PowerOn \/ (\E s \in Sids : Access(s)) \/ EndPlay

Spec == Init /\ [][Next]_vars

-----------------------------------------------------------------------------
(* The samples of the cycles since a reset: one when the ratio is exceeded.*)
Due(cycles) == IF cycles = 0 THEN 0 ELSE (Fraction * cycles - 1) \div SampleClockRatio

(* The samples that play() has returned since a reset are those of the     *)
(* time played, one per SampleClockRatio in step with the reset of the     *)
(* machine: none is lost or invented where the power-on loop, a play(), a  *)
(* play() that failed or an access cuts the time, whichever chip they are  *)
(* counted from.                                                           *)
KeepsRate == EndPlay => delivered' = Due(time) - Due(begun)

(* player.cpp: "buffersize is expected to be the same for all chips",      *)
(* however differently the program has cut up their time, and although     *)
(* neither a play() that fails nor the reset of the machine empties them.  *)
SameBufferSize == \A s, t \in Sids : buffers[s] = buffers[t]
=============================================================================

------------------------------- MODULE VicII -------------------------------
(***************************************************************************)
(* The VIC-II (src/c64/VIC_II/mos656x.cpp, .h and lightpen.h): the raster  *)
(* counters, the bad lines, the bus cycles taken for characters and        *)
(* sprites, the interrupt flags and the light pen. The chip's own event    *)
(* runs at PHI1, only in the line cycles in which something can happen; an *)
(* access of the CPU, at PHI2, first brings the chip up to date.           *)
(*                                                                         *)
(* The state of the chip is one record and the code's methods are          *)
(* operators on it. Which sprites want their data fetched is decided by    *)
(* Sprites.tla's component: here any of them may be added in the cycles    *)
(* where checkDma() runs and dropped where updateMcBase() does.            *)
(***************************************************************************)
EXTENDS Integers, FiniteSets

CONSTANTS
  Setups,          \* chips, with what the program may do to them: see Setup
  FIRST_DMA_LINE, LAST_DMA_LINE,
  Rows,            \* raster lines of a row of characters, 8 in the chip
  Scrolls          \* the values of YSCROLL that programs write

(* "clock" is the function of a chip, which goes with its cyclesPerLine;   *)
(* the program uses some sprites, compares raster lines with some values   *)
(* and makes some kinds of accesses.                                       *)
Setup ==
  [clock : {"PAL", "NTSC", "OLD_NTSC"}, maxRasters : Nat, sprites : SUBSET (0..7),
   compares : SUBSET Nat,
   accesses : SUBSET {"read", "control", "compare", "flags", "mask", "lightpen"}]

ASSUME VicAssumption ==
  /\ Setups \subseteq Setup
  /\ \A s \in Setups : {FIRST_DMA_LINE, LAST_DMA_LINE} \subseteq 1..(s.maxRasters - 2)
  /\ Rows \in Nat \ {0} /\ Scrolls \subseteq 0..(Rows - 1)

VICII_FETCH_CYCLE == 11
VICII_SCREEN_TEXTCOLS == 40

VARIABLES
  setup,      \* one of Setups
  vic,        \* the members of MOS656X, see Chip
  ba,         \* the line that lets the CPU have the bus
  behind,     \* cycles since the chip was brought up to date (rasterClk)
  wake,       \* cycles until its event is due
  pending,    \* which of its deferred events are queued
  phase, lowFor,
  owed, matched, penned, tricked   \* what the properties remember

vars == <<setup, vic, ba, behind, wake, pending, phase, lowFor, owed, matched, penned, tricked>>

Model == setup.clock
cyclesPerLine == [PAL |-> 63, NTSC |-> 65, OLD_NTSC |-> 64][Model]
maxRasters == setup.maxRasters
Used == setup.sprites
Compares == setup.compares
Accesses == setup.accesses

Chip ==
  [lineCycle : 0..(cyclesPerLine - 1), rasterY : 0..(maxRasters - 1),
   yscroll : 0..(Rows - 1), DEN : BOOLEAN, compare : Compares \union {0},
   areBadLinesEnabled : BOOLEAN, isBadLine : BOOLEAN, vblanking : BOOLEAN,
   rasterYIRQCondition : BOOLEAN, irqFlags : SUBSET {"RASTER", "LIGHTPEN"},
   irqMask : SUBSET {"RASTER", "LIGHTPEN"}, irq : BOOLEAN,
   dma : SUBSET Used, lpAsserted : BOOLEAN, isTriggered : BOOLEAN]

-----------------------------------------------------------------------------
(* Interrupts.                                                             *)

HandleIrqState(v) == [v EXCEPT !.irq = v.irqFlags \intersect v.irqMask # {}]
ActivateIRQFlag(v, flag) == HandleIrqState([v EXCEPT !.irqFlags = @ \union {flag}])

RasterYIRQEdgeDetector(v) ==
  LET matches == v.rasterY = v.compare
      w       == [v EXCEPT !.rasterYIRQCondition = matches]
  IN  IF matches /\ ~v.rasterYIRQCondition THEN ActivateIRQFlag(w, "RASTER") ELSE w

(* The light pen latches once in a frame. On the last line it does so      *)
(* without an interrupt, except in the first cycle.                        *)
FiresAgain(v) == ~(v.rasterY = maxRasters - 1 /\ v.lineCycle > 0)  \* as if nothing were latched
Fires(v) == ~v.isTriggered /\ ~(v.rasterY = maxRasters - 1 /\ v.lineCycle > 0)
Trigger(v) ==
  LET w == [v EXCEPT !.isTriggered = TRUE]
  IN  IF Fires(v) THEN ActivateIRQFlag(w, "LIGHTPEN") ELSE w

-----------------------------------------------------------------------------
(* Lines.                                                                  *)

EvaluateIsBadLine(v) ==
  /\ v.areBadLinesEnabled
  /\ v.rasterY \in FIRST_DMA_LINE..LAST_DMA_LINE
  /\ v.rasterY % Rows = v.yscroll

CheckVblank(v) ==
  LET last    == v.rasterY = maxRasters - 1
      enabled == \/ v.areBadLinesEnabled /\ v.rasterY # LAST_DMA_LINE
                 \/ v.rasterY = FIRST_DMA_LINE /\ v.DEN /\ v.rasterY # LAST_DMA_LINE
      w       == [v EXCEPT !.vblanking = @ \/ last, !.areBadLinesEnabled = enabled]
      x       == IF w.vblanking THEN w
                 ELSE RasterYIRQEdgeDetector([w EXCEPT !.rasterY = @ + 1])
      y       == IF ~w.vblanking /\ x.rasterY = FIRST_DMA_LINE /\ ~enabled
                 THEN [x EXCEPT !.areBadLinesEnabled = v.DEN] ELSE x
  IN  [y EXCEPT !.isBadLine = EvaluateIsBadLine(y)]

VblankUnseen(v) ==    \* as if line 0 were not compared
  IF ~v.vblanking THEN v ELSE [v EXCEPT !.vblanking = FALSE, !.rasterY = 0, !.isTriggered = FALSE]

Vblank(v) ==
  IF ~v.vblanking THEN v
  ELSE LET w == RasterYIRQEdgeDetector([v EXCEPT !.vblanking = FALSE, !.rasterY = 0])
           x == [w EXCEPT !.isTriggered = FALSE]
       IN  IF v.lpAsserted THEN ActivateIRQFlag([x EXCEPT !.isTriggered = TRUE], "LIGHTPEN") ELSE x

-----------------------------------------------------------------------------
(* The cycles of a line: where the bus is taken for a sprite's data and    *)
(* given back, and how far the chip's event may skip.                      *)

StartDma ==
  [PAL      |-> <<56, 58, 60, 62, 1, 3, 5>>,
   NTSC     |-> <<57, 59, 61, 63, 0, 2, 4>>,
   OLD_NTSC |-> <<57, 59, 61, 63, 1, 3, 5>>][Model]
StartDma0 == IF Model = "PAL" THEN {54, 55} ELSE {55, 56}
CheckDma  == StartDma0

EndDma(n) ==
  IF n = 0 THEN IF Model = "PAL" THEN 59 ELSE 60
  ELSE [PAL      |-> <<61, 0, 2, 4, 6, 8, 10>>,
        NTSC     |-> <<62, 64, 1, 3, 5, 7, 9>>,
        OLD_NTSC |-> <<62, 0, 2, 4, 6, 8, 10>>][Model][n]

(* No interval may be longer: the next cycle that matters ends it.         *)
DelayLong(c, dma) ==      \* as if nothing happened in cycle 54
  CASE c = 1 -> 10 [] c = VICII_FETCH_CYCLE -> 3 [] c = 12 -> 2 [] c = 15 -> 40
    [] OTHER -> 1
Delay(c, dma) ==
  CASE c = 1 -> IF dma \intersect (IF Model = "NTSC" THEN 4..7 ELSE 3..7) = {} THEN 10 ELSE 1
    [] c = 5 /\ Model = "NTSC" -> IF dma \intersect {6, 7} # {} THEN 2 ELSE 6
    [] c = 6 /\ Model # "NTSC" -> IF dma \intersect {6, 7} # {} THEN 2 ELSE 5
    [] c \in {7, 9} /\ Model = "NTSC" -> 2
    [] c = 8 /\ Model # "NTSC" -> 2
    [] c = VICII_FETCH_CYCLE -> 3
    [] c = 12 -> 2
    [] c = 15 -> 39
    [] c \in 16..53 -> 54 - c
    [] c = 57 /\ Model = "PAL" -> IF dma \intersect 0..4 = {} THEN 6 ELSE 1
    [] c = 58 /\ Model = "NTSC" -> IF dma \intersect 0..4 = {} THEN 7 ELSE 1
    [] c = 57 /\ Model = "OLD_NTSC" -> IF dma \intersect 0..4 = {} THEN 7 ELSE 2
    [] OTHER -> 1

(* clockPAL, clockNTSC and clockOldNTSC but for the bus. "changed" are the *)
(* sprites whose DMA starts or ends.                                       *)
Clock(v, changed) ==
  CASE v.lineCycle = 0 -> CheckVblank(v)
    [] v.lineCycle = 1 -> Vblank(v)
    [] v.lineCycle = 15 -> [v EXCEPT !.dma = @ \ changed]
    [] v.lineCycle \in CheckDma -> [v EXCEPT !.dma = @ \union changed]
    [] OTHER -> v

BusAfter(v, bus) ==
  LET c == v.lineCycle
  IN  CASE c \in StartDma0 -> 0 \notin v.dma
        [] c = 54 /\ Model # "PAL" -> TRUE
        [] c = VICII_FETCH_CYCLE -> bus /\ ~v.isBadLine
        [] \E n \in 1..7 : c = StartDma[n] /\ n \in v.dma -> FALSE
        [] \E n \in 0..7 : c = EndDma(n) /\ {n + 1, n + 2} \intersect v.dma = {} -> TRUE
        [] OTHER -> bus

-----------------------------------------------------------------------------
(* event(): nothing happens twice in one cycle.                            *)

Advanced(v) == [v EXCEPT !.lineCycle = (@ + behind) % cyclesPerLine]
Event(v, changed) == IF behind = 0 THEN v ELSE Clock(Advanced(v), changed)
BusOf(v) == IF behind = 0 THEN ba ELSE BusAfter(v, ba)
WakeOf(v) == IF behind = 0 THEN 1 ELSE Delay(v.lineCycle, v.dma)

LineNow == (vic.lineCycle + behind) % cyclesPerLine

(* reset(), after the scheduler's reset emptied the queue.                 *)
ResetState ==
  [lineCycle |-> 0, rasterY |-> maxRasters - 1, yscroll |-> 0, DEN |-> FALSE,
   compare |-> 0, areBadLinesEnabled |-> FALSE, isBadLine |-> FALSE,
   vblanking |-> FALSE, rasterYIRQCondition |-> FALSE, irqFlags |-> {},
   irqMask |-> {}, irq |-> FALSE, dma |-> {}, lpAsserted |-> FALSE,
   isTriggered |-> FALSE]

Init ==
  /\ setup \in Setups
  /\ vic = ResetState
  /\ ba = TRUE /\ behind = 0 /\ wake = 0 /\ pending = {}
  /\ phase = "PHI1" /\ lowFor = 0
  /\ owed = FALSE /\ matched = FALSE /\ penned = 0 /\ tricked = FALSE

(* The events of PHI1 in the order they were queued: the chip's own, the   *)
(* changed state of the bad line, the changed compare value.               *)
Phi1 ==
  /\ phase = "PHI1"
  /\ \E changed \in SUBSET Used :
       LET due == wake = 0
           e   == IF due THEN Event(vic, changed) ELSE vic
           v   == IF "edge" \in pending THEN RasterYIRQEdgeDetector(e) ELSE e
       IN  /\ changed # {} => due /\ behind # 0 /\ LineNow \in CheckDma \union {15}
           /\ vic' = v
           /\ ba' = IF "badLine" \in pending THEN ~v.isBadLine ELSE IF due THEN BusOf(e) ELSE ba
           /\ behind' = IF due THEN 0 ELSE behind
           /\ wake' = IF due THEN WakeOf(e) ELSE wake
           /\ matched' = (v.rasterY = v.compare)
           /\ owed' = (owed \/ (matched' /\ ~matched))
           /\ penned' = IF vic.vblanking /\ ~v.vblanking THEN (IF v.lpAsserted THEN 1 ELSE 0) ELSE penned
           /\ tricked' = IF LineNow = VICII_FETCH_CYCLE THEN FALSE
                         ELSE tricked \/ ("badLine" \in pending /\ LineNow \notin 12..53)
  /\ pending' = pending \ {"badLine", "edge"}
  /\ phase' = "PHI2"
  /\ UNCHANGED <<setup, lowFor>>

-----------------------------------------------------------------------------
(* PHI2: the light pen's event, and then at most one access of the CPU,    *)
(* which may write for three cycles after the bus was taken.               *)

Lit == "lightpen" \in pending
Now == IF Lit THEN Trigger(Event(vic, {})) ELSE vic
UpToDate(v) == IF Lit THEN v ELSE Event(v, {})

OldRasterY(v) == (IF v.rasterY > 0 THEN v.rasterY ELSE maxRasters) - 1

(* What the write to control register 1 does to the bad lines.             *)
Enabled(v) ==
  LET first == IF v.rasterY = FIRST_DMA_LINE /\ v.lineCycle = 0 THEN v.DEN ELSE v.areBadLinesEnabled
  IN  first \/ (OldRasterY(v) = FIRST_DMA_LINE /\ v.DEN)

Scrolled(v, y) ==
  LET inRange == v.rasterY \in FIRST_DMA_LINE..LAST_DMA_LINE
      was     == v.areBadLinesEnabled /\ v.yscroll = v.rasterY % Rows
      now     == Enabled(v) /\ y = v.rasterY % Rows
  IN  IF inRange /\ was # now
      THEN IF was THEN v.isBadLine /\ v.lineCycle >= VICII_FETCH_CYCLE
           ELSE v.isBadLine \/ v.lineCycle <= VICII_FETCH_CYCLE + VICII_SCREEN_TEXTCOLS + 6
      ELSE v.isBadLine

WriteControl(v, y) ==
  [v EXCEPT !.yscroll = y, !.areBadLinesEnabled = Enabled(v), !.isBadLine = Scrolled(v, y)]

(* A half-cycle PHI2 that leaves the chip in state v.                      *)
Ends(v, synced, events) ==
  /\ phase = "PHI2"
  /\ vic' = v
  /\ LET u == Event(vic, {})
     IN  /\ ba' = IF synced THEN BusOf(u) ELSE ba
         /\ wake' = (IF synced THEN WakeOf(u) ELSE wake) - 1
  /\ behind' = IF synced THEN 1 ELSE behind + 1
  /\ pending' = events
  /\ phase' = "PHI1"
  /\ lowFor' = IF ba THEN 0 ELSE IF lowFor = 3 THEN 3 ELSE lowFor + 1
  /\ penned' = penned + (IF Lit /\ Fires(Event(vic, {})) THEN 1 ELSE 0)
  /\ UNCHANGED <<setup, tricked, matched>>

MayWrite == lowFor < 3

Idle == Ends(Now, Lit, {}) /\ UNCHANGED owed

Read ==
  /\ "read" \in Accesses /\ ba
  /\ Ends(UpToDate(Now), TRUE, {}) /\ UNCHANGED owed

(* The registers are stored before the chip is brought up to date. (The    *)
(* compare value's bit 8 is written with the other eight, in WriteD012.)   *)
WriteD011 ==
  /\ "control" \in Accesses /\ MayWrite
  /\ \E y \in Scrolls, den \in BOOLEAN :
       LET u == UpToDate([Now EXCEPT !.DEN = den])
           v == WriteControl(u, y)
       IN  Ends(v, TRUE, {"edge"} \union IF v.isBadLine # u.isBadLine THEN {"badLine"} ELSE {})
  /\ UNCHANGED owed

WriteD012 ==
  /\ "compare" \in Accesses /\ MayWrite
  /\ \E line \in Compares : Ends(UpToDate([Now EXCEPT !.compare = line]), TRUE, {"edge"})
  /\ UNCHANGED owed

WriteD019 ==
  /\ "flags" \in Accesses /\ MayWrite
  /\ \E acked \in {{"RASTER"}, {"RASTER", "LIGHTPEN"}} :
       Ends(HandleIrqState([UpToDate(Now) EXCEPT !.irqFlags = @ \ acked]), TRUE, {})
  /\ owed' = FALSE

WriteMask(v, mask) == HandleIrqState([v EXCEPT !.irqMask = mask])
WriteD01A ==
  /\ "mask" \in Accesses /\ MayWrite
  /\ \E mask \in {{}, {"RASTER", "LIGHTPEN"}} :
       Ends(WriteMask(UpToDate(Now), mask), TRUE, {})
  /\ UNCHANGED owed

(* Port B of CIA 1 moves the light pen's line.                             *)
TriggerLightpen ==
  /\ "lightpen" \in Accesses /\ MayWrite
  /\ Ends([Now EXCEPT !.lpAsserted = TRUE], Lit, {"lightpen"}) /\ UNCHANGED owed
ClearLightpen ==
  /\ "lightpen" \in Accesses /\ MayWrite
  /\ Ends([Now EXCEPT !.lpAsserted = FALSE], Lit, {}) /\ UNCHANGED owed

Reset ==
  /\ vic' = ResetState
  /\ ba' = TRUE /\ behind' = 0 /\ wake' = 0 /\ pending' = {}
  /\ phase' = "PHI1" /\ lowFor' = 0
  /\ owed' = FALSE /\ matched' = FALSE /\ penned' = 0 /\ tricked' = FALSE
  /\ UNCHANGED setup

Next ==
  \/ Reset \/ Phi1 \/ Idle \/ Read \/ WriteD011 \/ WriteD012 \/ WriteD019 \/ WriteD01A
  \/ TriggerLightpen \/ ClearLightpen

Spec == Init /\ [][Next]_vars

-----------------------------------------------------------------------------
(* The ranges of the counters, and which deferred events there are.        *)
TypeOK ==
  /\ setup \in Setups
  /\ vic \in Chip
  /\ ba \in BOOLEAN
  /\ behind \in 0..(cyclesPerLine - 1)
  /\ wake \in 0..39
  /\ pending \subseteq {"badLine", "edge", "lightpen"}

(* Whatever the event skipped and whenever the CPU looked, the bus is      *)
(* taken in exactly the cycles that the sprites' data and a bad line's     *)
(* characters need: for sprite n from StartDma to EndDma, for a bad line   *)
(* from VICII_FETCH_CYCLE to cycle 53. Lines whose state a program changes *)
(* outside that interval are excepted: the event such a write queues sets  *)
(* BA from the line's state alone, whatever the cycle.                     *)
Between(first, last) == (LineNow - first) % cyclesPerLine < (last - first) % cyclesPerLine
Fetches(n) ==
  n \in vic.dma /\ IF n = 0 THEN Between(CHOOSE c \in StartDma0 : c + 1 \in StartDma0, EndDma(0))
                  ELSE Between(StartDma[n], EndDma(n))
BusTaken ==
  phase = "PHI2" /\ ~tricked =>
    (~ba <=> \/ \E n \in Used : Fetches(n)
             \/ vic.isBadLine /\ LineNow \in VICII_FETCH_CYCLE..53)

(* Every raster line that begins to match the compare register, and every  *)
(* compare value written that matches the line, sets the raster flag, and  *)
(* the flag stays until the program clears it.                             *)
RasterSeen == owed => "RASTER" \in vic.irqFlags

(* The light pen interrupts at most once in a frame, a line held low into  *)
(* the frame included.                                                     *)
LightpenOnce == penned <= 1
=============================================================================

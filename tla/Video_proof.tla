----------------------------- MODULE Video_proof -----------------------------
(***************************************************************************)
(* Proofs about the modules VicII and Sprites, for the three chips, frames *)
(* of any length, any sprites in use and any program: the chip's event     *)
(* skips no cycle in which something happens, so that the bus is taken in  *)
(* the cycles that are needed, no raster line goes unseen and the light    *)
(* pen interrupts once in a frame; and a sprite's fetching ends, after the *)
(* right number of lines if its registers are left alone.                  *)
(***************************************************************************)
EXTENDS Video, TLAPS

-----------------------------------------------------------------------------
(* A raster line from its middle to the middle of the next, where the      *)
(* fetches of the sprites are in one piece: cycle 54 is at a negative      *)
(* place, cycle 53 at place 53.                                            *)

Place(cycle) == IF cycle >= 54 THEN cycle - cyclesPerLine ELSE cycle

\* The data of sprite n is fetched in five cycles from Fetch(n) on, two after
\* those of the sprite before.
Fetch(n) == 2 * n - (IF Model = "NTSC" THEN 10 ELSE 9)

\* Nothing happens at place p while the sprites D want their data.
Quiet(p, D) ==
  /\ p \notin {Fetch(0), Fetch(0) + 1, 0, 1, 11, 15, 54}
  /\ \A n \in D : p # Fetch(n) /\ p # Fetch(n) + 5

Here == Place(vic.lineCycle)

\* The chip's event is queued so that it skips no cycle in which something
\* happens. In PHI2 the chip has done what there was to do in this cycle.
OnTime ==
  /\ Here + behind + wake <= 54 /\ behind + wake <= 39
  /\ \A p \in (Here + 1) .. (Here + behind + wake - 1) : Quiet(p, vic.dma)
  /\ IF phase = "PHI2" THEN wake >= 1
     ELSE behind >= 1 \/ (vic.lineCycle = 0 /\ wake = 0 /\ vic.dma = {} /\ pending = {})

\* The bus is taken where it is wanted. Where a program upset it, what was left
\* taken is given back when the next sprite is done, or for a bad line kept.
Open(p, D) == \E n \in D : Fetch(n) <= p /\ p < Fetch(n) + 5
Wanted(p, D, bad) == Open(p, D) \/ (bad /\ p \in 11 .. 53)
Awaited(p, D) == \E n \in D : p < Fetch(n) + 5
Recovered(p) == p \in (IF Model = "NTSC" THEN 1 ELSE 0) .. 10
BusKnown(p, D, bad, bus, upset) ==
  IF upset THEN bus \/ (Recovered(p) => bad \/ Awaited(p, D))
  ELSE bus <=> ~Wanted(p, D, bad)

BusInv ==
  IF "badLine" \in pending THEN behind = 1
  ELSE BusKnown(Here, vic.dma, vic.isBadLine, ba, tricked)

\* The edge detector knows whether the lines match, or is about to find out.
EdgeInv ==
  /\ matched = vic.rasterYIRQCondition
  /\ "edge" \in pending \/ vic.rasterYIRQCondition = (vic.rasterY = vic.compare)
  /\ RasterSeen

PenInv == penned \in 0 .. 1 /\ (penned = 1 => vic.isTriggered)

Turns ==
  /\ phase \in {"PHI1", "PHI2"} /\ {owed, matched, tricked} \subseteq BOOLEAN
  /\ phase = "PHI2" => pending \subseteq {"lightpen"}

IInv == TypeOK /\ Turns /\ OnTime /\ BusInv /\ EdgeInv /\ PenInv

-----------------------------------------------------------------------------
(* The tables, in places.                                                  *)

LEMMA Clocks ==
  ASSUME setup \in Setups
  PROVE  /\ \/ Model = "PAL" /\ cyclesPerLine = 63
            \/ Model = "NTSC" /\ cyclesPerLine = 65
            \/ Model = "OLD_NTSC" /\ cyclesPerLine = 64
         /\ maxRasters \in Nat /\ Used \subseteq 0..7 /\ Compares \subseteq Nat
         /\ FIRST_DMA_LINE \in 1 .. (maxRasters - 2)
         /\ LAST_DMA_LINE \in 1 .. (maxRasters - 2)
  BY VicAssumption DEF Setup, Model, cyclesPerLine, maxRasters, Used, Compares

LEMMA PlaceFits ==
  ASSUME setup \in Setups, NEW c \in 0 .. (cyclesPerLine - 1)
  PROVE  Place(c) \in (54 - cyclesPerLine) .. 53
  BY Clocks DEF Place

LEMMA PlaceMoves ==
  ASSUME setup \in Setups, NEW c \in 0 .. (cyclesPerLine - 1), NEW d \in Nat,
         Place(c) + d <= 54
  PROVE  /\ (c + d) % cyclesPerLine \in 0 .. (cyclesPerLine - 1)
         /\ Place((c + d) % cyclesPerLine)
              = IF Place(c) + d = 54 THEN 54 - cyclesPerLine ELSE Place(c) + d
  <1>1. CASE Model = "PAL" /\ cyclesPerLine = 63
    BY <1>1 DEF Place
  <1>2. CASE Model = "NTSC" /\ cyclesPerLine = 65
    BY <1>2 DEF Place
  <1>3. CASE Model = "OLD_NTSC" /\ cyclesPerLine = 64
    BY <1>3 DEF Place
  <1> QED BY <1>1, <1>2, <1>3, Clocks

LEMMA Tables ==
  ASSUME setup \in Setups, NEW c \in 0 .. (cyclesPerLine - 1)
  PROVE  /\ c \in StartDma0 <=> Place(c) \in {Fetch(0), Fetch(0) + 1}
         /\ \A n \in 1..7 : c = StartDma[n] <=> Place(c) = Fetch(n)
         /\ \A n \in 0..7 : c = EndDma(n) <=> Place(c) = Fetch(n) + 5
  <1> ASSUME NEW n \in 0..7
      PROVE  /\ n # 0 => (c = StartDma[n] <=> Place(c) = Fetch(n))
             /\ c = EndDma(n) <=> Place(c) = Fetch(n) + 5
    <2>0. n = 0 \/ n = 1 \/ n = 2 \/ n = 3 \/ n = 4 \/ n = 5 \/ n = 6 \/ n = 7
      OBVIOUS
    <2>1. CASE Model = "PAL" /\ cyclesPerLine = 63
      BY <2>0, <2>1 DEF Place, Fetch, StartDma, EndDma
    <2>2. CASE Model = "NTSC" /\ cyclesPerLine = 65
      BY <2>0, <2>2 DEF Place, Fetch, StartDma, EndDma
    <2>3. CASE Model = "OLD_NTSC" /\ cyclesPerLine = 64
      BY <2>0, <2>3 DEF Place, Fetch, StartDma, EndDma
    <2> QED BY <2>1, <2>2, <2>3, Clocks
  <1>1. c \in StartDma0 <=> Place(c) \in {Fetch(0), Fetch(0) + 1}
    BY Clocks DEF Place, Fetch, StartDma0
  <1> QED BY <1>1

\* No interval skips a cycle in which something happens.
LEMMA DelayQuiet ==
  ASSUME setup \in Setups, NEW c \in 0 .. (cyclesPerLine - 1), NEW D \in SUBSET (0..7)
  PROVE  /\ Delay(c, D) \in 1..39 /\ Place(c) + Delay(c, D) <= 54
         /\ \A p \in (Place(c) + 1) .. (Place(c) + Delay(c, D) - 1) : Quiet(p, D)
  <1>0. D \subseteq 0..7
    OBVIOUS
  <1>1. CASE Model = "PAL" /\ cyclesPerLine = 63
    BY <1>0, <1>1 DEF Place, Fetch, Delay, Quiet, VICII_FETCH_CYCLE
  <1>2. CASE Model = "NTSC" /\ cyclesPerLine = 65
    BY <1>0, <1>2 DEF Place, Fetch, Delay, Quiet, VICII_FETCH_CYCLE
  <1>3. CASE Model = "OLD_NTSC" /\ cyclesPerLine = 64
    BY <1>0, <1>3 DEF Place, Fetch, Delay, Quiet, VICII_FETCH_CYCLE
  <1> QED BY <1>1, <1>2, <1>3, Clocks

-----------------------------------------------------------------------------
(* The bus, place by place.                                                *)

\* What BusAfter does, by places.
BusAt(p, D, bad, bus) ==
  IF p \in {Fetch(0), Fetch(0) + 1} THEN 0 \notin D
  ELSE IF p = 54 - cyclesPerLine THEN TRUE
  ELSE IF p = 11 THEN bus /\ ~bad
  ELSE IF \E n \in 1..7 : p = Fetch(n) /\ n \in D THEN FALSE
  ELSE IF \E n \in 0..7 : p = Fetch(n) + 5 /\ {n + 1, n + 2} \intersect D = {} THEN TRUE
  ELSE bus

LEMMA BusAfterAt ==
  ASSUME setup \in Setups, NEW v, NEW bus \in BOOLEAN,
         v.lineCycle \in 0 .. (cyclesPerLine - 1), v.isBadLine \in BOOLEAN
  PROVE  BusAfter(v, bus) = BusAt(Place(v.lineCycle), v.dma, v.isBadLine, bus)
  <1> DEFINE c == v.lineCycle
             p == Place(c)
             starts == \E n \in 1..7 : c = StartDma[n] /\ n \in v.dma
             ends   == \E n \in 0..7 : c = EndDma(n)
                                       /\ {n + 1, n + 2} \intersect v.dma = {}
  <1>1. c \in StartDma0 <=> p \in {Fetch(0), Fetch(0) + 1}
    BY Tables
  <1>2. starts <=> \E n \in 1..7 : p = Fetch(n) /\ n \in v.dma
    BY Tables
  <1>3. ends <=> \E n \in 0..7 : p = Fetch(n) + 5 /\ {n + 1, n + 2} \intersect v.dma = {}
    BY Tables
  <1>4. /\ (c = 54 <=> p = 54 - cyclesPerLine) /\ (c = 11 <=> p = 11)
        /\ (54 \in StartDma0 <=> Model = "PAL") /\ 11 \notin StartDma0
        /\ p \in Int
    BY Clocks, PlaceFits DEF Place, StartDma0
  <1>5. ASSUME NEW n \in 0..7
        PROVE  /\ Fetch(n) \in Int /\ Fetch(n) + 5 <= 10
               /\ n = 0 \/ Fetch(n) > 54 - cyclesPerLine
               /\ \A m \in 0..7 : Fetch(m) + 5 # Fetch(n)
               /\ Fetch(n) # Fetch(0) + 1 /\ Fetch(n) + 5 > Fetch(0) + 1
               /\ n > 0 => Fetch(n) > Fetch(0) + 1
    BY Clocks DEF Fetch
  <1>6. starts => c \notin StartDma0 /\ c # 54 /\ c # 11 /\ ~ends
    BY <1>1, <1>2, <1>3, <1>4, <1>5, Clocks DEF Fetch
  <1>7. ends => c \notin StartDma0 /\ c # 54 /\ c # 11
    BY <1>1, <1>3, <1>4, <1>5, Clocks DEF Fetch
  <1>8. BusAfter(v, bus)
          = CASE c \in StartDma0 -> 0 \notin v.dma [] c = 54 /\ Model # "PAL" -> TRUE
              [] c = 11 -> bus /\ ~v.isBadLine [] starts -> FALSE
              [] ends -> TRUE [] OTHER -> bus
    BY DEF BusAfter, VICII_FETCH_CYCLE
  <1> HIDE DEF c, starts, ends
  <1>9. CASE c \in StartDma0
    <2>1. BusAfter(v, bus) = (0 \notin v.dma)
      BY <1>4, <1>6, <1>7, <1>8, <1>9
    <2> QED BY <1>1, <1>9, <2>1 DEF BusAt, c
  <1>10. CASE c = 54 /\ c \notin StartDma0
    <2>1. BusAfter(v, bus) = TRUE
      BY <1>4, <1>6, <1>7, <1>8, <1>10
    <2> QED BY <1>1, <1>4, <1>10, <2>1 DEF BusAt, c
  <1>11. CASE c = 11
    <2>0. c \notin StartDma0 /\ c # 54 /\ ~starts /\ ~ends
      BY <1>4, <1>6, <1>7, <1>11
    <2>1. BusAfter(v, bus) = (bus /\ ~v.isBadLine)
      BY <1>8, <1>11, <2>0
    <2> QED BY <1>1, <1>4, <1>11, <2>1, Clocks DEF BusAt, c
  <1>12. CASE starts
    <2>1. BusAfter(v, bus) = FALSE
      BY <1>4, <1>6, <1>7, <1>8, <1>12
    <2> QED BY <1>1, <1>2, <1>4, <1>6, <1>12, <2>1 DEF BusAt, c
  <1>13. CASE ends
    <2>1. BusAfter(v, bus) = TRUE
      BY <1>4, <1>6, <1>7, <1>8, <1>13
    <2> QED BY <1>1, <1>2, <1>3, <1>4, <1>6, <1>7, <1>13, <2>1 DEF BusAt, c
  <1>14. CASE c \notin StartDma0 /\ c # 54 /\ c # 11 /\ ~starts /\ ~ends
    <2>1. BusAfter(v, bus) = bus
      BY <1>8, <1>14
    <2> QED BY <1>1, <1>2, <1>3, <1>4, <1>14, <2>1 DEF BusAt, c
  <1> QED BY <1>9, <1>10, <1>11, <1>12, <1>13, <1>14

\* Where nothing happens, what is known of the bus stays known.
LEMMA BusKeeps ==
  ASSUME setup \in Setups, NEW D \in SUBSET (0..7), NEW bad \in BOOLEAN,
         NEW bus \in BOOLEAN, NEW upset \in BOOLEAN,
         NEW p \in (54 - cyclesPerLine) .. 53, NEW q \in p .. 53,
         \A r \in (p + 1) .. q : Quiet(r, D), BusKnown(p, D, bad, bus, upset)
  PROVE  BusKnown(q, D, bad, bus, upset)
  <1> DEFINE base == IF Model = "NTSC" THEN 10 ELSE 9
  <1>0. base \in {9, 10} /\ \A n \in 0..7 : Fetch(n) = 2 * n - base
    BY DEF Fetch
  <1> HIDE DEF base
  <1>1. ASSUME NEW n \in D
        PROVE  /\ ~(p < Fetch(n) /\ Fetch(n) <= q)
               /\ ~(p < Fetch(n) + 5 /\ Fetch(n) + 5 <= q)
               /\ Fetch(n) \in Int
    <2>1. n \in 0..7 /\ Fetch(n) \in Int
      BY <1>0
    <2> QED BY <2>1 DEF Quiet
  <1>2. Open(p, D) <=> Open(q, D)
    BY <1>1 DEF Open
  <1>3. Awaited(p, D) <=> Awaited(q, D)
    BY <1>1 DEF Awaited
  <1>4. (p \in 11..53 <=> q \in 11..53) /\ (Recovered(q) => Recovered(p))
    BY DEF Quiet, Recovered
  <1> QED BY <1>2, <1>3, <1>4 DEF BusKnown, Wanted

-----------------------------------------------------------------------------
(* What the operators on the chip change.                                  *)

\* A step of the chip never clears a flag; it leaves the raster line and what
\* the edge detector knows alone, or the detector looks at the new line.
Seen(v, w) ==
  /\ w \in Chip /\ w.compare = v.compare
  /\ v.irqFlags \subseteq w.irqFlags
  /\ \/ w.rasterYIRQCondition = v.rasterYIRQCondition /\ w.rasterY = v.rasterY
     \/ /\ w.rasterYIRQCondition = (w.rasterY = w.compare)
        /\ w.rasterYIRQCondition /\ ~v.rasterYIRQCondition => "RASTER" \in w.irqFlags

\* The light pen is released in the blank and nowhere else.
PenKept(v, w) ==
  /\ w.lpAsserted = v.lpAsserted
  /\ IF v.vblanking /\ ~w.vblanking THEN w.lpAsserted => w.isTriggered
     ELSE w.isTriggered = v.isTriggered

SameBus(v, w) ==
  /\ w.lineCycle = v.lineCycle /\ w.dma = v.dma /\ w.isBadLine = v.isBadLine

LEMMA Chips ==
  ASSUME setup \in Setups, NEW v \in Chip
  PROVE  /\ v.lineCycle \in 0 .. (cyclesPerLine - 1)
         /\ v.rasterY \in 0 .. (maxRasters - 1) /\ v.rasterY \in Nat
         /\ v.compare \in Compares \union {0} /\ v.compare \in Nat
         /\ v.yscroll \in 0 .. (Rows - 1)
         /\ v.DEN \in BOOLEAN /\ v.areBadLinesEnabled \in BOOLEAN
         /\ v.isBadLine \in BOOLEAN /\ v.vblanking \in BOOLEAN
         /\ v.rasterYIRQCondition \in BOOLEAN /\ v.irq \in BOOLEAN
         /\ v.irqFlags \in SUBSET {"RASTER", "LIGHTPEN"}
         /\ v.irqMask \in SUBSET {"RASTER", "LIGHTPEN"}
         /\ v.dma \in SUBSET Used /\ v.dma \in SUBSET (0..7)
         /\ v.lpAsserted \in BOOLEAN /\ v.isTriggered \in BOOLEAN
  BY Clocks DEF Chip

LEMMA FlagActivated ==
  ASSUME setup \in Setups, NEW v \in Chip, NEW flag \in {"RASTER", "LIGHTPEN"}
  PROVE  LET w == ActivateIRQFlag(v, flag)
         IN  /\ w \in Chip
             /\ w = [v EXCEPT !.irqFlags = v.irqFlags \union {flag}, !.irq = w.irq]
  <1>1. v.irqFlags \union {flag} \in SUBSET {"RASTER", "LIGHTPEN"}
    BY Chips
  <1> QED BY <1>1 DEF Chip, ActivateIRQFlag, HandleIrqState

LEMMA EdgeDetected ==
  ASSUME setup \in Setups, NEW v \in Chip
  PROVE  LET w == RasterYIRQEdgeDetector(v)
         IN  /\ Seen(v, w) /\ SameBus(v, w) /\ PenKept(v, w)
             /\ w.vblanking = v.vblanking
             /\ w.rasterY = v.rasterY
             /\ w.rasterYIRQCondition = (w.rasterY = w.compare)
             /\ w.areBadLinesEnabled = v.areBadLinesEnabled
  <1> DEFINE matches == v.rasterY = v.compare
             x == [v EXCEPT !.rasterYIRQCondition = matches]
             w == RasterYIRQEdgeDetector(v)
  <1>1. x \in Chip /\ x.rasterYIRQCondition = matches
    BY DEF Chip
  <1>2. ActivateIRQFlag(x, "RASTER") \in Chip
        /\ ActivateIRQFlag(x, "RASTER")
             = [x EXCEPT !.irqFlags = x.irqFlags \union {"RASTER"},
                         !.irq = ActivateIRQFlag(x, "RASTER").irq]
    BY <1>1, FlagActivated, ZenonT(30)
  <1>3. CASE matches /\ ~v.rasterYIRQCondition
    <2>1. w = ActivateIRQFlag(x, "RASTER")
      BY <1>3 DEF RasterYIRQEdgeDetector
    <2> HIDE DEF w
    <2>2. w \in Chip
      BY <1>1, <1>2, <2>1
    <2>3. /\ w.lineCycle = v.lineCycle /\ w.dma = v.dma /\ w.isBadLine = v.isBadLine
          /\ w.vblanking = v.vblanking /\ w.rasterY = v.rasterY /\ w.compare = v.compare
          /\ w.areBadLinesEnabled = v.areBadLinesEnabled
          /\ w.lpAsserted = v.lpAsserted /\ w.isTriggered = v.isTriggered
          /\ w.rasterYIRQCondition = matches /\ w.irqFlags = v.irqFlags \union {"RASTER"}
      BY <1>1, <1>2, <1>3, <2>1, ZenonT(60) DEF Chip
    <2> HIDE DEF x
    <2> QED BY <1>3, <2>2, <2>3, Chips DEF Seen, SameBus, PenKept, w
  <1>4. CASE ~(matches /\ ~v.rasterYIRQCondition)
    <2>1. w = x
      BY <1>4 DEF RasterYIRQEdgeDetector
    <2> HIDE DEF w
    <2>2. w \in Chip
      BY <1>1, <2>1
    <2>3. /\ w.lineCycle = v.lineCycle /\ w.dma = v.dma /\ w.isBadLine = v.isBadLine
          /\ w.vblanking = v.vblanking /\ w.rasterY = v.rasterY /\ w.compare = v.compare
          /\ w.areBadLinesEnabled = v.areBadLinesEnabled
          /\ w.lpAsserted = v.lpAsserted /\ w.isTriggered = v.isTriggered
          /\ w.rasterYIRQCondition = matches /\ w.irqFlags = v.irqFlags
      BY <1>1, <1>4, <2>1 DEF Chip
    <2> HIDE DEF x
    <2> QED BY <1>4, <2>2, <2>3, Chips DEF Seen, SameBus, PenKept, w
  <1> QED BY <1>3, <1>4

LEMMA Evaluated ==
  ASSUME NEW v, v.areBadLinesEnabled \in BOOLEAN
  PROVE  EvaluateIsBadLine(v) \in BOOLEAN
  BY DEF EvaluateIsBadLine

LEMMA VblankChecked ==
  ASSUME setup \in Setups, NEW v \in Chip
  PROVE  LET w == CheckVblank(v)
         IN  /\ Seen(v, w) /\ PenKept(v, w)
             /\ w.lineCycle = v.lineCycle /\ w.dma = v.dma
  <1> DEFINE last    == v.rasterY = maxRasters - 1
             enabled == \/ v.areBadLinesEnabled /\ v.rasterY # LAST_DMA_LINE
                        \/ v.rasterY = FIRST_DMA_LINE /\ v.DEN /\ v.rasterY # LAST_DMA_LINE
             w == [v EXCEPT !.vblanking = @ \/ last, !.areBadLinesEnabled = enabled]
             n == [w EXCEPT !.rasterY = @ + 1]
             x == IF w.vblanking THEN w ELSE RasterYIRQEdgeDetector(n)
             y == IF ~w.vblanking /\ x.rasterY = FIRST_DMA_LINE /\ ~enabled
                  THEN [x EXCEPT !.areBadLinesEnabled = v.DEN] ELSE x
             z == [y EXCEPT !.isBadLine = EvaluateIsBadLine(y)]
  <1>1. CheckVblank(v) = z
    BY DEF CheckVblank
  <1>2. enabled \in BOOLEAN /\ last \in BOOLEAN
    BY Chips
  <1> HIDE DEF enabled
  <1>c. w \in Chip
    <2>1. (v.vblanking \/ last) \in BOOLEAN
      OBVIOUS
    <2> HIDE DEF last
    <2> QED BY <1>2, <2>1, ZenonT(60) DEF Chip
  <1>3. w \in Chip /\ w.lineCycle = v.lineCycle /\ w.dma = v.dma
        /\ w.rasterY = v.rasterY /\ w.compare = v.compare /\ w.irqFlags = v.irqFlags
        /\ w.rasterYIRQCondition = v.rasterYIRQCondition
        /\ w.lpAsserted = v.lpAsserted /\ w.isTriggered = v.isTriggered
        /\ w.vblanking = (v.vblanking \/ last)
    BY <1>c DEF Chip
  <1> HIDE DEF w
  <1>4. Seen(v, x) /\ PenKept(v, x) /\ x.lineCycle = v.lineCycle /\ x.dma = v.dma
        /\ x \in Chip
    <2>1. CASE w.vblanking
      <3>1. x = w
        BY <2>1
      <3> HIDE DEF x
      <3> QED BY <1>2, <1>3, <2>1, <3>1, Chips DEF Seen, PenKept
    <2>2. CASE ~w.vblanking
      <3>1. x = RasterYIRQEdgeDetector(n)
        BY <2>2
      <3>2. v.rasterY + 1 \in 0 .. (maxRasters - 1)
        BY <1>3, <2>2, Chips, Clocks
      <3>3. n \in Chip /\ n.lineCycle = v.lineCycle /\ n.dma = v.dma
            /\ n.compare = v.compare /\ n.irqFlags = v.irqFlags
            /\ n.rasterYIRQCondition = v.rasterYIRQCondition
            /\ n.lpAsserted = v.lpAsserted /\ n.isTriggered = v.isTriggered
            /\ n.vblanking = w.vblanking /\ n.rasterY = v.rasterY + 1
        BY <1>3, <3>2 DEF Chip
      <3> HIDE DEF n, x
      <3>4. Seen(n, x) /\ SameBus(n, x) /\ PenKept(n, x)
            /\ x.vblanking = n.vblanking
            /\ x.rasterYIRQCondition = (x.rasterY = x.compare)
        BY <3>1, <3>3, EdgeDetected
      <3>5. Seen(v, x)
        BY <3>3, <3>4, Chips DEF Seen
      <3>6. PenKept(v, x)
        BY <1>2, <1>3, <2>2, <3>3, <3>4, Chips DEF PenKept
      <3> QED BY <3>3, <3>4, <3>5, <3>6 DEF SameBus, Seen
    <2> QED BY <2>1, <2>2
  <1> HIDE DEF x
  <1>5. y \in Chip /\ y.lineCycle = x.lineCycle /\ y.dma = x.dma
        /\ y.rasterY = x.rasterY /\ y.compare = x.compare /\ y.irqFlags = x.irqFlags
        /\ y.rasterYIRQCondition = x.rasterYIRQCondition
        /\ y.lpAsserted = x.lpAsserted /\ y.isTriggered = x.isTriggered
        /\ y.vblanking = x.vblanking
    BY <1>4, Chips DEF Chip
  <1> HIDE DEF y
  <1>6. EvaluateIsBadLine(y) \in BOOLEAN
    BY <1>5, Chips, Evaluated
  <1>7. z \in Chip /\ z.lineCycle = y.lineCycle /\ z.dma = y.dma
        /\ z.rasterY = y.rasterY /\ z.compare = y.compare /\ z.irqFlags = y.irqFlags
        /\ z.rasterYIRQCondition = y.rasterYIRQCondition
        /\ z.lpAsserted = y.lpAsserted /\ z.isTriggered = y.isTriggered
        /\ z.vblanking = y.vblanking
    BY <1>5, <1>6 DEF Chip
  <1> HIDE DEF z
  <1>8. Seen(v, z) /\ PenKept(v, z)
    BY <1>4, <1>5, <1>7 DEF Seen, PenKept
  <1> QED BY <1>1, <1>4, <1>5, <1>7, <1>8

LEMMA VblankDone ==
  ASSUME setup \in Setups, NEW v \in Chip
  PROVE  LET w == Vblank(v)
         IN  Seen(v, w) /\ PenKept(v, w) /\ SameBus(v, w)
  <1> DEFINE n == [v EXCEPT !.vblanking = FALSE, !.rasterY = 0]
             w == RasterYIRQEdgeDetector(n)
             x == [w EXCEPT !.isTriggered = FALSE]
             y == [x EXCEPT !.isTriggered = TRUE]
             z == ActivateIRQFlag(y, "LIGHTPEN")
  <1>1. CASE ~v.vblanking
    <2>1. Vblank(v) = v
      BY <1>1 DEF Vblank
    <2> QED BY <1>1, <2>1, Chips DEF Seen, PenKept, SameBus
  <1>2. CASE v.vblanking
    <2>1. Vblank(v) = IF v.lpAsserted THEN z ELSE x
      BY <1>2 DEF Vblank
    <2>c. 0 \in 0 .. (maxRasters - 1)
      BY Clocks
    <2>2. n \in Chip /\ n.lineCycle = v.lineCycle /\ n.dma = v.dma
          /\ n.compare = v.compare /\ n.irqFlags = v.irqFlags
          /\ n.rasterYIRQCondition = v.rasterYIRQCondition
          /\ n.lpAsserted = v.lpAsserted /\ n.isBadLine = v.isBadLine
          /\ n.vblanking = FALSE
      BY <2>c DEF Chip
    <2> HIDE DEF n
    <2>3. Seen(n, w) /\ SameBus(n, w) /\ PenKept(n, w) /\ w \in Chip
          /\ w.rasterYIRQCondition = (w.rasterY = w.compare)
          /\ w.vblanking = FALSE
      BY <2>2, EdgeDetected DEF Seen
    <2> HIDE DEF w
    <2>4. x \in Chip /\ x.lineCycle = w.lineCycle /\ x.dma = w.dma
          /\ x.compare = w.compare /\ x.irqFlags = w.irqFlags /\ x.rasterY = w.rasterY
          /\ x.rasterYIRQCondition = w.rasterYIRQCondition
          /\ x.lpAsserted = w.lpAsserted /\ x.isBadLine = w.isBadLine
          /\ x.vblanking = w.vblanking /\ x.isTriggered = FALSE
      BY <2>3 DEF Chip
    <2> HIDE DEF x
    <2>5. y \in Chip /\ y.lineCycle = w.lineCycle /\ y.dma = w.dma
          /\ y.compare = w.compare /\ y.irqFlags = w.irqFlags /\ y.rasterY = w.rasterY
          /\ y.rasterYIRQCondition = w.rasterYIRQCondition
          /\ y.lpAsserted = w.lpAsserted /\ y.isBadLine = w.isBadLine
          /\ y.vblanking = w.vblanking /\ y.isTriggered = TRUE
      BY <2>4 DEF Chip
    <2> HIDE DEF y
    <2>6. z \in Chip /\ z = [y EXCEPT !.irqFlags = y.irqFlags \union {"LIGHTPEN"}, !.irq = z.irq]
      BY <2>5, FlagActivated, ZenonT(30)
    <2> HIDE DEF z
    <2>f. z.irqFlags = y.irqFlags \union {"LIGHTPEN"}
      BY <2>5, <2>6 DEF Chip
    <2>g. w.irqFlags \subseteq z.irqFlags
      BY <2>5, <2>f
    <2>7. z.lineCycle = w.lineCycle /\ z.dma = w.dma
          /\ z.compare = w.compare /\ z.rasterY = w.rasterY
          /\ z.rasterYIRQCondition = w.rasterYIRQCondition
          /\ z.lpAsserted = w.lpAsserted /\ z.isBadLine = w.isBadLine
          /\ z.vblanking = w.vblanking /\ z.isTriggered = TRUE
      BY <2>5, <2>6, ZenonT(60) DEF Chip
    <2>8. Seen(v, x) /\ SameBus(v, x) /\ (~v.lpAsserted => PenKept(v, x))
      BY <1>2, <2>2, <2>3, <2>4, Chips DEF Seen, SameBus, PenKept
    <2>9. Seen(v, z) /\ SameBus(v, z) /\ PenKept(v, z)
      BY <1>2, <2>2, <2>3, <2>6, <2>7, <2>g, Chips DEF Seen, SameBus, PenKept
    <2> QED BY <2>1, <2>8, <2>9, Chips
  <1> QED BY <1>1, <1>2, Chips

LEMMA ClockDone ==
  ASSUME setup \in Setups, NEW v \in Chip, NEW changed \in SUBSET Used
  PROVE  LET w == Clock(v, changed)
         IN  /\ Seen(v, w) /\ PenKept(v, w) /\ w.lineCycle = v.lineCycle
             /\ v.lineCycle \notin CheckDma \union {15} => w.dma = v.dma
             /\ v.lineCycle # 0 => w.isBadLine = v.isBadLine
             /\ v.lineCycle \notin CheckDma \union {0, 1, 15} => w = v
  <1> DEFINE w == Clock(v, changed)
             c == v.lineCycle
  <1>0. CheckDma \subseteq {54, 55, 56}
    BY DEF CheckDma, StartDma0
  <1>1. CASE c = 0
    <2>1. w = CheckVblank(v)
      BY <1>0, <1>1 DEF Clock
    <2> HIDE DEF w
    <2> QED BY <1>1, <2>1, VblankChecked DEF w
  <1>2. CASE c = 1
    <2>1. w = Vblank(v)
      BY <1>0, <1>2 DEF Clock
    <2> HIDE DEF w
    <2> QED BY <1>2, <2>1, VblankDone DEF SameBus, w
  <1>3. CASE c = 15 \/ c \in CheckDma
    <2>1. PICK D \in SUBSET Used : w = [v EXCEPT !.dma = D]
      <3>1. CASE c = 15
        <4>1. w = [v EXCEPT !.dma = @ \ changed]
          BY <1>0, <3>1 DEF Clock
        <4>2. v.dma \ changed \in SUBSET Used
          BY Chips
        <4> QED BY <4>1, <4>2
      <3>2. CASE c \in CheckDma
        <4>1. w = [v EXCEPT !.dma = @ \union changed]
          BY <1>0, <3>2 DEF Clock
        <4>2. v.dma \union changed \in SUBSET Used
          BY Chips
        <4> QED BY <4>1, <4>2
      <3> QED BY <1>3, <3>1, <3>2
    <2> HIDE DEF w
    <2>2. w \in Chip
      BY <2>1 DEF Chip
    <2>3. /\ w.lineCycle = v.lineCycle /\ w.isBadLine = v.isBadLine
          /\ w.compare = v.compare /\ w.irqFlags = v.irqFlags /\ w.rasterY = v.rasterY
          /\ w.rasterYIRQCondition = v.rasterYIRQCondition
          /\ w.lpAsserted = v.lpAsserted /\ w.isTriggered = v.isTriggered
          /\ w.vblanking = v.vblanking
      BY <2>1 DEF Chip
    <2>4. Seen(v, w) /\ PenKept(v, w)
      BY <2>2, <2>3, Chips DEF Seen, PenKept
    <2> QED BY <1>0, <1>3, <2>3, <2>4 DEF w
  <1>4. CASE c \notin CheckDma \union {0, 1, 15}
    <2>1. w = v
      BY <1>4 DEF Clock
    <2> HIDE DEF w
    <2> QED BY <2>1, Chips DEF Seen, PenKept, w
  <1> QED BY <1>1, <1>2, <1>3, <1>4

-----------------------------------------------------------------------------
(* From one cycle in which the chip is brought up to date to the next.     *)

\* The chip was brought up to date at place o, and is again d cycles later, at
\* place q.
Skips(o, d, q, D) ==
  /\ d \in Nat \ {0} /\ o + d <= 54
  /\ \A r \in (o + 1) .. (o + d - 1) : Quiet(r, D)
  /\ q = IF o + d = 54 THEN 54 - cyclesPerLine ELSE o + d

\* There the sprites' DMA and the bad line may change, and BA is set.
LEMMA BusStep ==
  ASSUME setup \in Setups, NEW D \in SUBSET (0..7), NEW E \in SUBSET (0..7),
         NEW bad \in BOOLEAN, NEW worse \in BOOLEAN,
         NEW bus \in BOOLEAN, NEW upset \in BOOLEAN,
         NEW o \in (54 - cyclesPerLine) .. 53, BusKnown(o, D, bad, bus, upset),
         NEW d, NEW q, Skips(o, d, q, D),
         q \notin {Fetch(0), Fetch(0) + 1, 15} => E = D,
         q # 0 => worse = bad
  PROVE  BusKnown(q, E, worse, BusAt(q, E, worse, bus), upset /\ q # 11)
  <1> DEFINE p == o + d - 1
  <1>a. p \in o .. 53 /\ p \in (54 - cyclesPerLine) .. 53
    BY Clocks DEF Skips
  <1>b. q = IF p = 53 THEN 54 - cyclesPerLine ELSE p + 1
    BY Clocks DEF Skips
  <1>c. \A r \in (o + 1) .. p : Quiet(r, D)
    BY DEF Skips
  <1> HIDE DEF p
  <1>d. BusKnown(p, D, bad, bus, upset)
    BY <1>a, <1>c, BusKeeps
  <1> USE <1>a, <1>b, <1>d
  <1> DEFINE base == IF Model = "NTSC" THEN 10 ELSE 9
             from == IF Model = "NTSC" THEN 1 ELSE 0
             now  == BusAt(q, E, worse, bus)
  <1>0. /\ base \in {9, 10} /\ from \in 0..1 /\ base = 9 + from
        /\ \A n \in 0..9 : Fetch(n) = 2 * n - base
        /\ \A r : Recovered(r) <=> r \in from..10
        /\ 54 - cyclesPerLine \in {-base, -base - 1}
        /\ cyclesPerLine \in 63..65
    BY Clocks DEF Fetch, Recovered
  <1>1. q \in (54 - cyclesPerLine) .. 53
    BY <1>0
  <1> HIDE DEF base, from, now
  <1>2. CASE q \in {Fetch(0), Fetch(0) + 1}
    <2>1. now <=> 0 \notin E
      BY <1>2 DEF BusAt, now
    <2>2. q < 0 /\ (Open(q, E) <=> 0 \in E)
      BY <1>0, <1>2 DEF Open
    <2> QED BY <1>0, <2>1, <2>2 DEF BusKnown, Wanted, now
  <1>3. CASE q = 54 - cyclesPerLine /\ q # Fetch(0)
    <2>1. now = TRUE
      BY <1>0, <1>3 DEF BusAt, now
    <2>2. q < 0 /\ ~Open(q, E)
      BY <1>0, <1>3 DEF Open
    <2> QED BY <2>1, <2>2 DEF BusKnown, Wanted, now
  <1>4. CASE q = 11
    <2>0. p = 10
      BY <1>0, <1>4
    <2>1. now <=> bus /\ ~bad
      BY <1>0, <1>4 DEF BusAt, now
    <2>2. ~Open(q, E) /\ ~Open(p, D) /\ ~Awaited(p, D) /\ Recovered(p)
      BY <1>0, <1>4, <2>0 DEF Open, Awaited
    <2> QED BY <1>4, <2>0, <2>1, <2>2 DEF BusKnown, Wanted, now
  <1> DEFINE special == q \in {Fetch(0), Fetch(0) + 1, 54 - cyclesPerLine, 11}
             starts  == \E n \in 1..7 : q = Fetch(n) /\ n \in E
             ends    == \E n \in 0..7 : q = Fetch(n) + 5 /\ {n + 1, n + 2} \intersect E = {}
  <1>5. CASE ~special /\ starts
    <2>1. now = FALSE
      BY <1>5 DEF BusAt, now
    <2>2. q # 11 /\ Open(q, E) /\ Awaited(q, E)
      BY <1>5 DEF Open, Awaited, Fetch
    <2> QED BY <2>1, <2>2 DEF BusKnown, Wanted, now
  <1>6. CASE ~special /\ ~starts /\ ends
    <2>1. now = TRUE
      BY <1>6 DEF BusAt, now
    <2>2. q <= 10 /\ ~Open(q, E)
      <3>1. PICK n \in 0..7 : q = Fetch(n) + 5 /\ {n + 1, n + 2} \intersect E = {}
        BY <1>6
      <3>2. q <= 10
        BY <1>0, <3>1
      <3>3. ASSUME NEW m \in E, Fetch(m) <= q, q < Fetch(m) + 5
            PROVE  FALSE
        <4>1. m = n + 1 \/ m = n + 2
          BY <1>0, <3>1, <3>3
        <4> QED BY <3>1, <4>1
      <3> QED BY <3>2, <3>3 DEF Open
    <2> QED BY <2>1, <2>2 DEF BusKnown, Wanted, now
  <1>7. CASE ~special /\ ~starts /\ ~ends
    <2>1. now = bus
      BY <1>7 DEF BusAt, now
    <2>2. q = p + 1 /\ q # 11 /\ (q = 15 \/ E = D) /\ (worse = bad \/ q = 0)
      BY <1>0, <1>7
    <2>3. ~(q - 1 < 11 /\ q >= 11) /\ q <= 53
      BY <1>1, <2>2
    <2>4. \A n \in E : n \in 1..7 => Fetch(n) # q
      BY <1>7
    <2>5. ASSUME NEW n \in 0..7, q = Fetch(n) + 5
          PROVE  \E m \in E : Fetch(m) <= q - 1 /\ q < Fetch(m) + 5
      <3>1. PICK m \in E : m = n + 1 \/ m = n + 2
        BY <1>7, <2>5
      <3> QED BY <1>0, <2>5, <3>1
    <2>6. Open(p, D) <=> Open(q, E)
      <3>1. CASE q = 15
        BY <1>0, <2>2, <3>1 DEF Open
      <3>2. CASE E = D
        <4>1. ASSUME Open(p, D)
              PROVE  Open(q, E)
          <5>1. PICK n \in D : Fetch(n) <= p /\ p < Fetch(n) + 5
            BY <4>1 DEF Open
          <5>2. n \in 0..7 /\ Fetch(n) \in Int
            BY <1>0
          <5>3. CASE q = Fetch(n) + 5
            <6>1. PICK m \in E : Fetch(m) <= q - 1 /\ q < Fetch(m) + 5
              BY <2>5, <5>2, <5>3
            <6>2. Fetch(m) \in Int
              BY <1>0
            <6> QED BY <1>1, <6>1, <6>2 DEF Open
          <5> QED BY <1>1, <2>2, <3>2, <5>1, <5>2, <5>3 DEF Open
        <4>2. ASSUME Open(q, E)
              PROVE  Open(p, D)
          <5>1. PICK n \in E : Fetch(n) <= q /\ q < Fetch(n) + 5
            BY <4>2 DEF Open
          <5>2. n \in 0..7 /\ Fetch(n) \in Int /\ Fetch(n) # q
            BY <1>0, <1>7
          <5> QED BY <1>1, <2>2, <3>2, <5>1, <5>2 DEF Open
        <4> QED BY <4>1, <4>2
      <3> QED BY <2>2, <3>1, <3>2
    <2>7. ASSUME Recovered(q)
          PROVE  \/ Recovered(p) /\ worse = bad /\ (Awaited(p, D) => Awaited(q, E))
                 \/ Awaited(q, E)
      <3>1. q \in from .. 10 /\ E = D
        BY <1>0, <2>2, <2>7
      <3>2. CASE q = from
        <4>1. q = Fetch(2) + 5 \/ q = Fetch(3) + 5
          BY <1>0, <3>2
        <4> QED BY <2>5, <4>1 DEF Awaited
      <3>3. CASE q > from
        <4>1. Recovered(p) /\ worse = bad
          BY <1>0, <1>1, <2>2, <3>1, <3>3
        <4>2. ASSUME Awaited(p, D)
              PROVE  Awaited(q, E)
          <5>1. PICK n \in D : p < Fetch(n) + 5
            BY <4>2 DEF Awaited
          <5>2. n \in 0..7 /\ Fetch(n) \in Int
            BY <1>0
          <5>3. CASE q = Fetch(n) + 5
            BY <2>5, <5>2, <5>3 DEF Awaited
          <5> QED BY <1>1, <2>2, <3>1, <5>1, <5>2, <5>3 DEF Awaited
        <4> QED BY <4>1, <4>2
      <3> QED BY <1>0, <3>1, <3>2, <3>3
    <2> QED BY <2>1, <2>2, <2>3, <2>6, <2>7 DEF BusKnown, Wanted, now
  <1> QED BY <1>2, <1>3, <1>4, <1>5, <1>6, <1>7

\* The state predicates depend on the chip's function through "setup" alone.
LEMMA SetupStays ==
  ASSUME UNCHANGED setup
  PROVE  /\ Chip' = Chip
         /\ cyclesPerLine' = cyclesPerLine /\ Used' = Used /\ Compares' = Compares
         /\ BusInv' <=> IF "badLine" \in pending' THEN behind' = 1
                        ELSE BusKnown(Place(vic'.lineCycle), vic'.dma, vic'.isBadLine,
                                      ba', tricked')
         /\ OnTime' <=>
              /\ Place(vic'.lineCycle) + behind' + wake' <= 54 /\ behind' + wake' <= 39
              /\ \A p \in (Place(vic'.lineCycle) + 1)
                            .. (Place(vic'.lineCycle) + behind' + wake' - 1) :
                   Quiet(p, vic'.dma)
              /\ IF phase' = "PHI2" THEN wake' >= 1
                 ELSE \/ behind' >= 1
                      \/ vic'.lineCycle = 0 /\ wake' = 0 /\ vic'.dma = {} /\ pending' = {}
  <1>1. Model' = Model /\ cyclesPerLine' = cyclesPerLine /\ Used' = Used
        /\ Compares' = Compares /\ maxRasters' = maxRasters
    BY DEF Model, cyclesPerLine, Used, Compares, maxRasters
  <1>2. Chip' = Chip
    BY <1>1 DEF Chip
  <1>3. BusInv' <=> IF "badLine" \in pending' THEN behind' = 1
                    ELSE BusKnown(Place(vic'.lineCycle), vic'.dma, vic'.isBadLine,
                                  ba', tricked')
    BY <1>1 DEF BusInv, BusKnown, Here, Place, Wanted, Open, Recovered, Awaited, Fetch
  <1>4. OnTime' <=>
          /\ Place(vic'.lineCycle) + behind' + wake' <= 54 /\ behind' + wake' <= 39
          /\ \A p \in (Place(vic'.lineCycle) + 1)
                        .. (Place(vic'.lineCycle) + behind' + wake' - 1) :
               Quiet(p, vic'.dma)
          /\ IF phase' = "PHI2" THEN wake' >= 1
             ELSE \/ behind' >= 1
                  \/ vic'.lineCycle = 0 /\ wake' = 0 /\ vic'.dma = {} /\ pending' = {}
    BY <1>1 DEF OnTime, Here, Place, Quiet, Fetch
  <1> QED BY <1>1, <1>2, <1>3, <1>4

\* Where the chip is, and what was queued for it.
LEMMA Times ==
  ASSUME TypeOK, Turns, OnTime
  PROVE  /\ setup \in Setups /\ vic \in Chip
         /\ behind \in Nat /\ wake \in Nat /\ behind + wake <= 39
         /\ Here \in (54 - cyclesPerLine) .. 53
         /\ Here + behind <= 54 /\ (phase = "PHI2" => Here + behind <= 53)
         /\ LineNow \in 0 .. (cyclesPerLine - 1)
         /\ Place(LineNow) = IF Here + behind = 54 THEN 54 - cyclesPerLine ELSE Here + behind
         /\ (behind = 0 => LineNow = vic.lineCycle)
  <1>1. vic \in Chip /\ setup \in Setups /\ behind \in Nat /\ wake \in Nat
    BY DEF TypeOK
  <1>2. vic.lineCycle \in 0 .. (cyclesPerLine - 1)
    BY <1>1, Chips
  <1>3. Here \in (54 - cyclesPerLine) .. 53 /\ Here \in Int
    BY <1>1, <1>2, PlaceFits, Clocks DEF Here
  <1>4. Here + behind <= 54 /\ (phase = "PHI2" => Here + behind <= 53)
    BY <1>1, <1>3 DEF OnTime
  <1>5. behind = 0 => LineNow = vic.lineCycle
    BY <1>2, Clocks, <1>1 DEF LineNow
  <1> QED BY <1>1, <1>2, <1>3, <1>4, <1>5, PlaceMoves DEF OnTime, Here, LineNow

\* Nothing but the chip's registers differs, and the line cycle.
Alike(v, w) ==
  /\ w \in Chip
  /\ w.dma = v.dma /\ w.isBadLine = v.isBadLine /\ w.rasterY = v.rasterY
  /\ w.rasterYIRQCondition = v.rasterYIRQCondition

\* In PHI2 the chip catches up through cycles in which nothing happens.
LEMMA CaughtUp ==
  ASSUME TypeOK, Turns, OnTime, phase = "PHI2",
         NEW v \in Chip, v.lineCycle = vic.lineCycle
  PROVE  LET w == Event(v, {})
         IN  /\ Alike(v, w) /\ w.lineCycle = LineNow /\ w.compare = v.compare
             /\ w.irqFlags = v.irqFlags /\ w.isTriggered = v.isTriggered
             /\ w.lpAsserted = v.lpAsserted
  <1> DEFINE w == Event(v, {})
             x == [v EXCEPT !.lineCycle = LineNow]
  <1>1. x \in Chip /\ x.lineCycle = LineNow /\ x.dma = v.dma /\ x.isBadLine = v.isBadLine
        /\ x.rasterY = v.rasterY /\ x.rasterYIRQCondition = v.rasterYIRQCondition
        /\ x.compare = v.compare /\ x.irqFlags = v.irqFlags
        /\ x.isTriggered = v.isTriggered /\ x.lpAsserted = v.lpAsserted
    BY Times DEF Chip
  <1>2. CASE behind = 0
    <2>1. w = v /\ LineNow = v.lineCycle
      BY <1>2, Times DEF Event
    <2> HIDE DEF w
    <2> QED BY <2>1 DEF Alike, w
  <1>3. CASE behind # 0
    <2>1. Advanced(v) = x
      BY DEF Advanced, LineNow
    <2>2. w = Clock(x, {})
      BY <1>3, <2>1 DEF Event
    <2> HIDE DEF w, x
    <2>3. Quiet(Place(LineNow), vic.dma)
      BY <1>3, Times DEF OnTime
    <2>4. LineNow \notin CheckDma \union {0, 1, 15}
      <3>1. Place(LineNow) \notin {Fetch(0), Fetch(0) + 1, 0, 1, 15}
        BY <2>3 DEF Quiet
      <3>2. LineNow \notin StartDma0
        BY <3>1, Tables, Times
      <3>3. LineNow \notin {0, 1, 15}
        BY <3>1 DEF Place
      <3> QED BY <3>2, <3>3 DEF CheckDma
    <2>5. w = x
      BY <1>1, <2>2, <2>4, ClockDone, Times
    <2> QED BY <1>1, <2>5 DEF Alike, w
  <1> QED BY <1>2, <1>3

\* The light pen's event of PHI2.
LEMMA NowDone ==
  ASSUME TypeOK, Turns, OnTime, phase = "PHI2"
  PROVE  /\ Alike(vic, Now) /\ Now.compare = vic.compare
         /\ Now.lineCycle = IF Lit THEN LineNow ELSE vic.lineCycle
         /\ vic.irqFlags \subseteq Now.irqFlags
         /\ Now.isTriggered = (Lit \/ vic.isTriggered)
         /\ Lit /\ Fires(Event(vic, {})) => ~vic.isTriggered
  <1> DEFINE u == Event(vic, {})
             x == [u EXCEPT !.isTriggered = TRUE]
             z == ActivateIRQFlag(x, "LIGHTPEN")
  <1>1. Alike(vic, u) /\ u.lineCycle = LineNow /\ u.compare = vic.compare
        /\ u.irqFlags = vic.irqFlags /\ u.isTriggered = vic.isTriggered /\ u \in Chip
    BY CaughtUp, Times DEF Alike
  <1>2. CASE ~Lit
    <2>1. Now = vic
      BY <1>2 DEF Now
    <2> QED BY <1>2, <2>1, Times, Chips DEF Alike
  <1>3. CASE Lit
    <2>1. Now = IF Fires(u) THEN z ELSE x
      BY <1>3 DEF Now, Trigger
    <2>2. Fires(u) => ~u.isTriggered
      BY DEF Fires
    <2> HIDE DEF u
    <2>3. x \in Chip /\ x.lineCycle = u.lineCycle /\ x.dma = u.dma
          /\ x.compare = u.compare /\ x.irqFlags = u.irqFlags /\ x.rasterY = u.rasterY
          /\ x.rasterYIRQCondition = u.rasterYIRQCondition
          /\ x.isBadLine = u.isBadLine /\ x.isTriggered = TRUE
      BY <1>1 DEF Chip
    <2> HIDE DEF x
    <2>4. z \in Chip /\ z = [x EXCEPT !.irqFlags = x.irqFlags \union {"LIGHTPEN"}, !.irq = z.irq]
      BY <2>3, Times, FlagActivated, ZenonT(30)
    <2> HIDE DEF z
    <2>5. z.irqFlags = x.irqFlags \union {"LIGHTPEN"}
      BY <2>3, <2>4 DEF Chip
    <2>6. z.lineCycle = x.lineCycle /\ z.dma = x.dma
          /\ z.compare = x.compare /\ z.rasterY = x.rasterY
          /\ z.rasterYIRQCondition = x.rasterYIRQCondition
          /\ z.isBadLine = x.isBadLine /\ z.isTriggered = TRUE
      BY <2>3, <2>4 DEF Chip
    <2>7. Alike(vic, x) /\ Alike(vic, z)
      BY <1>1, <2>3, <2>4, <2>6 DEF Alike
    <2>8. vic.irqFlags \subseteq x.irqFlags /\ vic.irqFlags \subseteq z.irqFlags
      BY <1>1, <2>3, <2>5
    <2>9. /\ Alike(vic, Now) /\ Now.compare = vic.compare /\ Now.lineCycle = LineNow
          /\ vic.irqFlags \subseteq Now.irqFlags /\ Now.isTriggered = TRUE
      BY <1>1, <2>1, <2>3, <2>6, <2>7, <2>8
    <2> QED BY <1>1, <1>3, <2>2, <2>9 DEF u
  <1> QED BY <1>2, <1>3

LEMMA UpToDateDone ==
  ASSUME TypeOK, Turns, OnTime, phase = "PHI2",
         NEW v \in Chip, v.lineCycle = Now.lineCycle
  PROVE  LET w == UpToDate(v)
         IN  /\ Alike(v, w) /\ w.lineCycle = LineNow /\ w.compare = v.compare
             /\ w.irqFlags = v.irqFlags /\ w.isTriggered = v.isTriggered
  <1>1. CASE Lit
    <2>1. UpToDate(v) = v
      BY <1>1 DEF UpToDate
    <2> QED BY <1>1, <2>1, NowDone DEF Alike
  <1>2. CASE ~Lit
    <2>1. UpToDate(v) = Event(v, {})
      BY <1>2 DEF UpToDate
    <2> QED BY <1>2, <2>1, NowDone, CaughtUp
  <1> QED BY <1>1, <1>2

-----------------------------------------------------------------------------
(* What an access of the CPU leaves behind, whatever register it is to.    *)

LEMMA Accessed ==
  ASSUME IInv, NEW v, NEW synced \in BOOLEAN, NEW events, Ends(v, synced, events),
         Lit => synced,
         v \in Chip, v.dma = vic.dma, v.rasterY = vic.rasterY,
         v.rasterYIRQCondition = vic.rasterYIRQCondition,
         v.lineCycle = IF synced THEN LineNow ELSE vic.lineCycle,
         v.isTriggered = (Lit \/ vic.isTriggered),
         events \subseteq {"badLine", "edge", "lightpen"},
         "edge" \in events \/ v.compare = vic.compare,
         "badLine" \in events => synced,
         "badLine" \in events \/ v.isBadLine = vic.isBadLine,
         owed' \in BOOLEAN, owed' => "RASTER" \in v.irqFlags
  PROVE  IInv'
  <1> DEFINE u == Event(vic, {})
  <1>0. TypeOK /\ Turns /\ OnTime /\ BusInv /\ EdgeInv /\ PenInv /\ phase = "PHI2"
    BY DEF IInv, Ends
  <1>1. /\ vic' = v /\ phase' = "PHI1" /\ setup' = setup
        /\ tricked' = tricked /\ matched' = matched /\ pending' = events
        /\ behind' = (IF synced THEN 1 ELSE behind + 1)
        /\ ba' = (IF synced THEN BusOf(u) ELSE ba)
        /\ wake' = (IF synced THEN WakeOf(u) ELSE wake) - 1
        /\ penned' = penned + (IF Lit /\ Fires(u) THEN 1 ELSE 0)
    BY DEF Ends
  <1>2. /\ Alike(vic, u) /\ u.lineCycle = LineNow /\ u.compare = vic.compare
        /\ u.isTriggered = vic.isTriggered /\ u \in Chip
    BY <1>0, CaughtUp, Times DEF Alike
  <1> HIDE DEF u
  <1>3. ba \in BOOLEAN /\ "badLine" \notin pending /\ tricked \in BOOLEAN
        /\ wake >= 1 /\ wake \in Nat /\ behind \in Nat
    BY <1>0, Times DEF TypeOK, Turns, OnTime
  <1>4. /\ setup \in Setups /\ vic \in Chip
        /\ vic.lineCycle \in 0 .. (cyclesPerLine - 1)
        /\ vic.dma \in SUBSET (0..7) /\ vic.isBadLine \in BOOLEAN
        /\ Here = Place(vic.lineCycle) /\ Here \in Int
        /\ Here \in (54 - cyclesPerLine) .. 53
    BY <1>0, Times, Chips, Clocks DEF Here
  <1>5. /\ Place(v.lineCycle) = IF synced THEN Here + behind ELSE Here
        /\ v.lineCycle \in 0 .. (cyclesPerLine - 1)
    BY <1>0, <1>4, Times
  <1>6. BusKnown(Here, vic.dma, vic.isBadLine, ba, tricked)
    BY <1>0, <1>3 DEF BusInv
  <1>7. ASSUME ~synced
        PROVE  OnTime' /\ BusInv' /\ TypeOK'
    <2>1. /\ ba' = ba /\ wake' = wake - 1 /\ behind' = behind + 1
          /\ Place(vic'.lineCycle) = Here /\ ~Lit
      BY <1>1, <1>4, <1>5, <1>7
    <2>2. OnTime'
      BY <1>0, <1>1, <1>3, <1>4, <2>1, SetupStays DEF OnTime
    <2>3. BusInv'
      BY <1>1, <1>4, <1>6, <1>7, <2>1, SetupStays
    <2>4. TypeOK'
      <3>1. behind + 1 \in 0 .. (cyclesPerLine - 1) /\ wake - 1 \in 0..39
        BY <1>0, <1>3, <1>4, Times, Clocks
      <3> QED BY <1>1, <1>3, <1>4, <2>1, <3>1, SetupStays DEF TypeOK
    <2> QED BY <2>2, <2>3, <2>4
  <1>8. ASSUME synced
        PROVE  OnTime' /\ BusInv' /\ TypeOK'
    <2> DEFINE q == Here + behind
    <2>1. behind' = 1 /\ Place(vic'.lineCycle) = q /\ q = Place(LineNow)
          /\ q \in (54 - cyclesPerLine) .. 53 /\ q \in Int
      BY <1>0, <1>1, <1>3, <1>4, <1>5, <1>8, Times, Clocks
    <2>2. CASE behind = 0
      <3>1. ba' = ba /\ wake' = 0 /\ q = Here
        BY <1>1, <1>4, <1>8, <2>2 DEF BusOf, WakeOf
      <3>2. OnTime'
        BY <1>1, <2>1, <3>1, SetupStays
      <3>3. BusInv'
        BY <1>1, <1>4, <1>6, <2>1, <3>1, SetupStays
      <3>4. TypeOK'
        <4>1. 1 \in 0 .. (cyclesPerLine - 1)
          BY <1>4, Clocks
        <4> QED BY <1>1, <1>3, <1>4, <2>1, <3>1, <4>1, SetupStays DEF TypeOK
      <3> QED BY <3>2, <3>3, <3>4
    <2>3. CASE behind # 0
      <3> DEFINE d == Delay(LineNow, vic.dma)
      <3>1. wake' = d - 1 /\ ba' = BusAfter(u, ba)
        BY <1>1, <1>2, <1>8, <2>3 DEF BusOf, WakeOf, Alike
      <3>2. d \in 1..39 /\ q + d <= 54 /\ \A p \in (q + 1) .. (q + d - 1) : Quiet(p, vic.dma)
        BY <1>0, <1>4, <2>1, DelayQuiet, Times
      <3> HIDE DEF d
      <3>3. OnTime'
        <4>1. q + 1 + (d - 1) = q + d
          BY <2>1, <3>2
        <4> QED BY <1>1, <2>1, <3>1, <3>2, <4>1, SetupStays
      <3>4. ba' = BusAt(q, vic.dma, vic.isBadLine, ba)
        BY <1>0, <1>2, <1>3, <1>4, <2>1, <3>1, BusAfterAt, Times DEF Alike
      <3>5. Quiet(q, vic.dma) /\ \A r \in (Here + 1) .. (Here + behind - 1) : Quiet(r, vic.dma)
        BY <1>0, <1>3, <1>4, <2>3 DEF OnTime
      <3>6. BusKnown(q, vic.dma, vic.isBadLine, ba', tricked /\ q # 11)
        <4>1. Skips(Here, behind, q, vic.dma)
          BY <1>3, <1>4, <2>1, <2>3, <3>5 DEF Skips
        <4> HIDE DEF q
        <4> QED BY <1>3, <1>4, <1>6, <3>4, <4>1, BusStep
      <3>7. (tricked /\ q # 11) = tricked
        BY <1>3, <3>5 DEF Quiet
      <3>8. BusInv'
        BY <1>1, <2>1, <3>6, <3>7, SetupStays
      <3>9. TypeOK'
        <4>1. 1 \in 0 .. (cyclesPerLine - 1) /\ d - 1 \in 0..39
          BY <1>4, <3>2, Clocks
        <4>2. ba' \in BOOLEAN
          BY <1>3, <1>4, <3>4 DEF BusAt
        <4> QED BY <1>1, <1>3, <1>4, <2>1, <3>1, <4>1, <4>2, SetupStays DEF TypeOK
      <3> QED BY <3>3, <3>8, <3>9
    <2> QED BY <2>2, <2>3
  <1>9. EdgeInv'
    <2>1. matched' = vic'.rasterYIRQCondition
      BY <1>0, <1>1 DEF EdgeInv
    <2>2. "edge" \in pending' \/ vic'.rasterYIRQCondition = (vic'.rasterY = vic'.compare)
      <3>1. "edge" \notin pending
        BY <1>0 DEF Turns
      <3> QED BY <1>0, <1>1, <3>1 DEF EdgeInv
    <2> QED BY <1>1, <2>1, <2>2 DEF EdgeInv, RasterSeen
  <1>10. PenInv'
    <2>1. Lit /\ Fires(u) => ~vic.isTriggered
      BY <1>0, NowDone DEF u
    <2>2. CASE Lit /\ Fires(u)
      <3>1. penned' = penned + 1 /\ vic'.isTriggered = TRUE
        BY <1>1, <2>2
      <3> QED BY <1>0, <2>1, <2>2, <3>1 DEF PenInv
    <2>3. CASE ~(Lit /\ Fires(u))
      <3>1. penned' = penned
        BY <1>0, <1>1, <2>3 DEF PenInv
      <3>2. vic.isTriggered => vic'.isTriggered
        BY <1>1
      <3> QED BY <1>0, <3>1, <3>2 DEF PenInv
    <2> QED BY <2>2, <2>3
  <1>11. Turns'
    BY <1>0, <1>1 DEF Turns
  <1> QED BY <1>7, <1>8, <1>9, <1>10, <1>11 DEF IInv

-----------------------------------------------------------------------------
(* The chip's own event.                                                   *)

LEMMA SeenTwice ==
  ASSUME setup \in Setups, NEW v \in Chip, NEW w \in Chip, NEW x,
         Seen(v, w), Seen(w, x), x.rasterYIRQCondition = (x.rasterY = x.compare)
  PROVE  Seen(v, x)
  BY Chips DEF Seen

LEMMA EventDone ==
  ASSUME TypeOK, Turns, OnTime, behind # 0, NEW changed \in SUBSET Used
  PROVE  LET w == Event(vic, changed)
         IN  /\ Seen(vic, w) /\ PenKept(vic, w) /\ w.lineCycle = LineNow
             /\ LineNow \notin CheckDma \union {15} => w.dma = vic.dma
             /\ LineNow # 0 => w.isBadLine = vic.isBadLine
  <1> DEFINE x == [vic EXCEPT !.lineCycle = LineNow]
             w == Event(vic, changed)
  <1>1. x \in Chip /\ x.lineCycle = LineNow /\ x.dma = vic.dma
        /\ x.isBadLine = vic.isBadLine /\ x.rasterY = vic.rasterY
        /\ x.rasterYIRQCondition = vic.rasterYIRQCondition
        /\ x.compare = vic.compare /\ x.irqFlags = vic.irqFlags
        /\ x.isTriggered = vic.isTriggered /\ x.lpAsserted = vic.lpAsserted
        /\ x.vblanking = vic.vblanking
    BY Times DEF Chip
  <1>2. w = Clock(x, changed)
    BY DEF Event, Advanced, LineNow
  <1> HIDE DEF x, w
  <1>3. /\ Seen(x, w) /\ PenKept(x, w) /\ w.lineCycle = x.lineCycle
        /\ x.lineCycle \notin CheckDma \union {15} => w.dma = x.dma
        /\ x.lineCycle # 0 => w.isBadLine = x.isBadLine
    BY <1>1, <1>2, ClockDone, Times
  <1>4. Seen(vic, w) /\ PenKept(vic, w)
    BY <1>1, <1>3 DEF Seen, PenKept
  <1> QED BY <1>1, <1>3, <1>4 DEF w

LEMMA Phi1Kept ==
  ASSUME IInv, Phi1
  PROVE  IInv'
  <1>1. PICK changed \in SUBSET Used :
          LET due == wake = 0
              e   == IF due THEN Event(vic, changed) ELSE vic
              v   == IF "edge" \in pending THEN RasterYIRQEdgeDetector(e) ELSE e
          IN  /\ changed # {} => due /\ behind # 0 /\ LineNow \in CheckDma \union {15}
              /\ vic' = v
              /\ ba' = IF "badLine" \in pending THEN ~v.isBadLine
                       ELSE IF due THEN BusOf(e) ELSE ba
              /\ behind' = IF due THEN 0 ELSE behind
              /\ wake' = IF due THEN WakeOf(e) ELSE wake
              /\ matched' = (v.rasterY = v.compare)
              /\ owed' = (owed \/ (matched' /\ ~matched))
              /\ penned' = IF vic.vblanking /\ ~v.vblanking
                           THEN (IF v.lpAsserted THEN 1 ELSE 0) ELSE penned
              /\ tricked' = IF LineNow = VICII_FETCH_CYCLE THEN FALSE
                            ELSE tricked \/ ("badLine" \in pending /\ LineNow \notin 12..53)
    BY DEF Phi1
  <1> DEFINE e == IF wake = 0 THEN Event(vic, changed) ELSE vic
             v == IF "edge" \in pending THEN RasterYIRQEdgeDetector(e) ELSE e
             q == Place(v.lineCycle)
  <1>2. /\ vic' = v
        /\ ba' = IF "badLine" \in pending THEN ~v.isBadLine
                 ELSE IF wake = 0 THEN BusOf(e) ELSE ba
        /\ behind' = IF wake = 0 THEN 0 ELSE behind
        /\ wake' = IF wake = 0 THEN WakeOf(e) ELSE wake
        /\ matched' = (v.rasterY = v.compare)
        /\ owed' = (owed \/ (matched' /\ ~matched))
        /\ penned' = IF vic.vblanking /\ ~v.vblanking
                     THEN (IF v.lpAsserted THEN 1 ELSE 0) ELSE penned
        /\ tricked' = IF LineNow = 11 THEN FALSE
                      ELSE tricked \/ ("badLine" \in pending /\ LineNow \notin 12..53)
    BY <1>1 DEF VICII_FETCH_CYCLE
  <1>3. phase = "PHI1" /\ phase' = "PHI2" /\ pending' = pending \ {"badLine", "edge"}
        /\ setup' = setup
    BY DEF Phi1
  <1>4. TypeOK /\ Turns /\ OnTime /\ BusInv /\ EdgeInv /\ PenInv
    BY DEF IInv
  <1>5. /\ setup \in Setups /\ vic \in Chip
        /\ vic.lineCycle \in 0 .. (cyclesPerLine - 1)
        /\ vic.dma \in SUBSET (0..7) /\ vic.isBadLine \in BOOLEAN
        /\ Here = Place(vic.lineCycle) /\ Here \in Int
        /\ Here \in (54 - cyclesPerLine) .. 53
        /\ behind \in Nat /\ wake \in 0..39 /\ behind + wake <= 39
        /\ ba \in BOOLEAN /\ tricked \in BOOLEAN
    BY <1>4, Times, Chips, Clocks DEF Here, TypeOK, Turns
  <1>6. /\ Seen(vic, e) /\ PenKept(vic, e) /\ e \in Chip
        /\ e.lineCycle = IF wake = 0 THEN LineNow ELSE vic.lineCycle
        /\ LineNow \notin CheckDma \union {15} \/ wake # 0 \/ behind = 0 => e.dma = vic.dma
        /\ LineNow # 0 \/ wake # 0 \/ behind = 0 => e.isBadLine = vic.isBadLine
    <2>1. CASE wake = 0 /\ behind # 0
      <3>1. e = Event(vic, changed)
        BY <2>1
      <3> HIDE DEF e
      <3> QED BY <1>4, <2>1, <3>1, EventDone DEF Seen
    <2>2. CASE wake # 0 \/ behind = 0
      <3>1. e = vic
        BY <2>2 DEF Event
      <3> HIDE DEF e
      <3> QED BY <1>4, <1>5, <2>2, <3>1, Times, Chips DEF Seen, PenKept
    <2> QED BY <2>1, <2>2
  <1> HIDE DEF e
  <1>7. /\ Seen(vic, v) /\ SameBus(e, v) /\ PenKept(vic, v) /\ v \in Chip
        /\ v.rasterYIRQCondition = (v.rasterY = v.compare)
    <2>1. CASE "edge" \in pending
      <3>1. v = RasterYIRQEdgeDetector(e)
        BY <2>1
      <3> HIDE DEF v
      <3>2. Seen(e, v) /\ SameBus(e, v) /\ PenKept(e, v) /\ v.vblanking = e.vblanking
            /\ v.rasterYIRQCondition = (v.rasterY = v.compare) /\ v \in Chip
        BY <1>5, <1>6, <3>1, EdgeDetected DEF Seen
      <3>3. Seen(vic, v)
        BY <1>5, <1>6, <3>2, SeenTwice
      <3>4. PenKept(vic, v)
        BY <1>5, <1>6, <3>2, Chips DEF PenKept
      <3> QED BY <3>2, <3>3, <3>4
    <2>2. CASE "edge" \notin pending
      <3>1. v = e
        BY <2>2
      <3> HIDE DEF v
      <3> QED BY <1>4, <1>6, <2>2, <3>1 DEF Seen, SameBus, EdgeInv
    <2> QED BY <2>1, <2>2
  <1> HIDE DEF v
  <1>8. EdgeInv'
    <2>1. matched' = vic'.rasterYIRQCondition
          /\ vic'.rasterYIRQCondition = (vic'.rasterY = vic'.compare)
      BY <1>2, <1>7
    <2>2. ASSUME owed'
          PROVE  "RASTER" \in vic'.irqFlags
      BY <1>2, <1>4, <1>5, <1>7, <2>1, <2>2, Chips DEF EdgeInv, RasterSeen, Seen
    <2> QED BY <2>1, <2>2 DEF EdgeInv, RasterSeen
  <1>9. PenInv'
    BY <1>2, <1>4, <1>5, <1>7, Chips DEF PenInv, PenKept
  <1>10. Turns'
    BY <1>2, <1>3, <1>4 DEF Turns, TypeOK
  <1>b. v.dma = e.dma /\ v.isBadLine = e.isBadLine /\ v.lineCycle = e.lineCycle
        /\ e.dma \in SUBSET (0..7) /\ e.isBadLine \in BOOLEAN
        /\ e.lineCycle \in 0 .. (cyclesPerLine - 1)
    BY <1>5, <1>6, <1>7, Chips DEF SameBus
  <1>c. ASSUME "badLine" \in pending
        PROVE  BusInv' /\ ba' \in BOOLEAN
    <2>1. behind = 1 /\ ba' = ~v.isBadLine /\ "badLine" \notin pending'
      BY <1>2, <1>3, <1>4, <1>c DEF BusInv
    <2>2. Here + 1 <= 54 /\ Place(LineNow) = IF Here + 1 = 54 THEN 54 - cyclesPerLine ELSE Here + 1
      BY <1>4, <2>1, Times
    <2>3. q = (IF wake = 0 THEN Place(LineNow) ELSE Here) /\ q \in Int
      <3>1. q = IF wake = 0 THEN Place(LineNow) ELSE Here
        BY <1>5, <1>6, <1>b
      <3> HIDE DEF q
      <3> QED BY <1>5, <2>2, <3>1, Clocks
    <2>4. wake # 0 => Here + 1 # 11
      <3>1. wake # 0 => Quiet(Here + 1, vic.dma)
        BY <1>4, <1>5, <2>1 DEF OnTime
      <3> QED BY <3>1 DEF Quiet
    <2> HIDE DEF q
    <2>5. LineNow \in 11..53 => q \in 11..53 /\ (LineNow = 11 => q = 11)
      <3>1. LineNow \in 11..53 => Place(LineNow) = LineNow
        BY DEF Place
      <3>2. LineNow \in 11..53 => LineNow = Here + 1
        BY <1>5, <2>2, <3>1, Clocks
      <3> QED BY <1>5, <2>2, <2>3, <2>4, <3>1, <3>2
    <2>6. q \in 11..53 => ~Open(q, e.dma)
      BY <1>b DEF Open, Fetch
    <2>7. BusKnown(q, e.dma, e.isBadLine, ~e.isBadLine, tricked')
      <3>1. CASE LineNow \in 11..53
        BY <2>5, <2>6, <3>1, <1>b DEF BusKnown, Wanted, Recovered
      <3>2. CASE LineNow \notin 11..53
        <4>1. tricked' = TRUE
          <5>1. LineNow # 11 /\ LineNow \notin 12..53
            BY <3>2
          <5> QED BY <1>2, <1>c, <5>1
        <4> QED BY <1>b, <4>1 DEF BusKnown
      <3> QED BY <3>1, <3>2
    <2>8. Place(vic'.lineCycle) = q
      BY <1>2 DEF q
    <2> QED BY <1>2, <1>3, <1>b, <2>1, <2>7, <2>8, SetupStays
  <1>11. CASE wake = 0 /\ behind # 0
    <2> DEFINE d == Delay(e.lineCycle, e.dma)
    <2>1. q = Place(LineNow) /\ Skips(Here, behind, q, vic.dma) /\ e.lineCycle = LineNow
          /\ q \in (54 - cyclesPerLine) .. 53 /\ q \in Int
      <3>1. q = Place(LineNow) /\ e.lineCycle = LineNow
        BY <1>6, <1>b, <1>11
      <3>2. q = IF Here + behind = 54 THEN 54 - cyclesPerLine ELSE Here + behind
        BY <1>4, <3>1, Times
      <3>3. \A r \in (Here + 1) .. (Here + behind - 1) : Quiet(r, vic.dma)
        BY <1>4, <1>5, <1>11 DEF OnTime
      <3>4. Here + behind <= 54
        BY <1>4, Times
      <3>5. q \in (54 - cyclesPerLine) .. 53 /\ q \in Int
        BY <1>5, <1>b, PlaceFits, Clocks
      <3> HIDE DEF q
      <3> QED BY <1>5, <1>11, <3>1, <3>2, <3>3, <3>4, <3>5 DEF Skips
    <2>2. wake' = d /\ behind' = 0
      BY <1>2, <1>11 DEF WakeOf
    <2>3. d \in 1..39 /\ Place(e.lineCycle) + d <= 54
          /\ \A p \in (Place(e.lineCycle) + 1) .. (Place(e.lineCycle) + d - 1) : Quiet(p, e.dma)
      BY <1>5, <1>b, DelayQuiet
    <2> HIDE DEF d
    <2>4. OnTime'
      <3>1. Place(vic'.lineCycle) = q /\ Place(e.lineCycle) = q /\ vic'.dma = e.dma
        BY <1>2, <1>b
      <3>2. q + 0 + d = q + d /\ 0 + d <= 39
        BY <2>1, <2>3
      <3> HIDE DEF q
      <3>3. Place(vic'.lineCycle) + behind' + wake' = q + d
            /\ behind' + wake' = d /\ wake' >= 1 /\ q + d <= 54 /\ d <= 39
        BY <2>1, <2>2, <2>3, <3>1
      <3>4. \A p \in (Place(vic'.lineCycle) + 1)
                      .. (Place(vic'.lineCycle) + behind' + wake' - 1) : Quiet(p, vic'.dma)
        BY <2>1, <2>2, <2>3, <3>1
      <3> QED BY <1>3, <3>1, <3>3, <3>4, SetupStays
    <2>5. BusInv' /\ ba' \in BOOLEAN
      <3>1. CASE "badLine" \in pending
        BY <1>c, <3>1
      <3>2. CASE "badLine" \notin pending
        <4>1. ba' = BusAt(q, e.dma, e.isBadLine, ba)
          BY <1>2, <1>5, <1>b, <1>11, <2>1, <3>2, BusAfterAt DEF BusOf
        <4>2. BusKnown(Here, vic.dma, vic.isBadLine, ba, tricked)
          BY <1>4, <3>2 DEF BusInv
        <4>3. q \notin {Fetch(0), Fetch(0) + 1, 15} => e.dma = vic.dma
          <5>1. LineNow \in StartDma0 => q \in {Fetch(0), Fetch(0) + 1}
            BY <1>4, <2>1, Tables, Times
          <5>2. LineNow = 15 => q = 15
            BY <2>1 DEF Place
          <5> QED BY <1>6, <5>1, <5>2 DEF CheckDma
        <4>4. q # 0 => e.isBadLine = vic.isBadLine
          <5>1. LineNow = 0 => q = 0
            BY <2>1 DEF Place
          <5> QED BY <1>6, <5>1
        <4>5. tricked' = (tricked /\ q # 11)
          <5>1. LineNow = 11 <=> q = 11
            BY <1>4, <1>5, <2>1, Times, Clocks DEF Place
          <5> QED BY <1>2, <1>5, <3>2, <5>1
        <4>6. BusKnown(q, e.dma, e.isBadLine, ba', tricked')
          <5> HIDE DEF q
          <5>1. BusKnown(q, e.dma, e.isBadLine, BusAt(q, e.dma, e.isBadLine, ba),
                         tricked /\ q # 11)
            BY <1>5, <1>b, <2>1, <4>2, <4>3, <4>4, BusStep
          <5> QED BY <4>1, <4>5, <5>1
        <4>7. ba' \in BOOLEAN
          BY <1>5, <4>1 DEF BusAt
        <4>8. "badLine" \notin pending'
          BY <1>3
        <4> QED BY <1>2, <1>3, <1>b, <4>6, <4>7, <4>8, SetupStays
      <3> QED BY <3>1, <3>2
    <2>6. TypeOK'
      <3>1. behind' \in 0 .. (cyclesPerLine - 1)
        BY <1>5, <2>2, Clocks
      <3> QED BY <1>2, <1>3, <1>4, <1>7, <2>2, <2>3, <2>5, <3>1, SetupStays DEF TypeOK
    <2> QED BY <1>8, <1>9, <1>10, <2>4, <2>5, <2>6 DEF IInv
  <1>12. CASE wake # 0 \/ behind = 0
    <2>1. /\ v.dma = vic.dma /\ v.isBadLine = vic.isBadLine /\ behind' = behind
          /\ wake' = (IF wake = 0 THEN 1 ELSE wake)
          /\ v.lineCycle = vic.lineCycle /\ Place(vic'.lineCycle) = Here
      <3>1. v.lineCycle = vic.lineCycle
        BY <1>4, <1>6, <1>b, <1>12, Times
      <3>2. v.dma = vic.dma /\ v.isBadLine = vic.isBadLine
        BY <1>6, <1>b, <1>12
      <3> QED BY <1>2, <1>5, <1>12, <3>1, <3>2 DEF WakeOf
    <2>2. wake = 0 => Here = 0 /\ pending = {}
      BY <1>3, <1>4, <1>5, <1>12 DEF OnTime, Place
    <2>3. OnTime'
      <3>1. CASE wake = 0
        <4>1. wake' = 1 /\ behind' = 0 /\ Place(vic'.lineCycle) = 0
          BY <1>12, <2>1, <2>2, <3>1
        <4> QED BY <1>3, <4>1, SetupStays
      <3>2. CASE wake # 0
        <4>1. wake' = wake /\ wake >= 1
          BY <1>5, <2>1, <3>2
        <4> QED BY <1>2, <1>3, <1>4, <2>1, <4>1, SetupStays DEF OnTime
      <3> QED BY <3>1, <3>2
    <2>4. BusInv' /\ ba' \in BOOLEAN
      <3>1. CASE "badLine" \in pending
        BY <1>c, <3>1
      <3>2. CASE "badLine" \notin pending
        <4>1. ba' = ba
          BY <1>2, <1>12, <3>2 DEF BusOf
        <4>2. LineNow # 11
          <5>1. CASE wake = 0
            BY <1>3, <1>4, <1>5, <1>12, <5>1, Times DEF OnTime
          <5>2. CASE wake # 0
            <6>1. behind >= 1
              BY <1>3, <1>4, <5>2 DEF OnTime
            <6>2. Here + behind <= 53 /\ Quiet(Here + behind, vic.dma)
              BY <1>4, <1>5, <5>2, <6>1 DEF OnTime
            <6>3. Place(LineNow) # 11
              BY <1>4, <6>2, Times DEF Quiet
            <6> QED BY <6>3 DEF Place
          <5> QED BY <5>1, <5>2
        <4>3. tricked' = tricked
          BY <1>2, <1>5, <3>2, <4>2
        <4>4. BusKnown(Here, vic.dma, vic.isBadLine, ba, tricked)
          BY <1>4, <3>2 DEF BusInv
        <4>5. "badLine" \notin pending'
          BY <1>3
        <4> QED BY <1>2, <1>3, <1>5, <2>1, <4>1, <4>3, <4>4, <4>5, SetupStays
      <3> QED BY <3>1, <3>2
    <2>5. TypeOK'
      <3>1. behind' \in 0 .. (cyclesPerLine - 1) /\ wake' \in 0..39
        BY <1>4, <1>5, <2>1 DEF TypeOK
      <3> QED BY <1>2, <1>3, <1>4, <1>7, <2>4, <3>1, SetupStays DEF TypeOK
    <2> QED BY <1>8, <1>9, <1>10, <2>3, <2>4, <2>5 DEF IInv
  <1> QED BY <1>11, <1>12

-----------------------------------------------------------------------------
(* Each access.                                                            *)

\* What an access leaves that is to no register of the chip.
Fits(v, synced) ==
  /\ Alike(vic, v) /\ v.compare = vic.compare
  /\ v.lineCycle = IF synced THEN LineNow ELSE vic.lineCycle
  /\ vic.irqFlags \subseteq v.irqFlags
  /\ v.isTriggered = (Lit \/ vic.isTriggered)

LEMMA FittingKept ==
  ASSUME IInv, UNCHANGED owed, NEW v, NEW synced \in BOOLEAN, Lit => synced,
         Fits(v, synced), NEW events \in SUBSET {"lightpen"}, Ends(v, synced, events)
  PROVE  IInv'
  <1>1. owed' \in BOOLEAN /\ (owed' => "RASTER" \in v.irqFlags)
    BY DEF IInv, Turns, EdgeInv, RasterSeen, Fits
  <1>2. events \subseteq {"badLine", "edge", "lightpen"} /\ "badLine" \notin events
    OBVIOUS
  <1> QED BY <1>1, <1>2, Accessed DEF Alike, Fits

LEMMA AccessKept ==
  ASSUME IInv, Idle \/ Read \/ TriggerLightpen \/ ClearLightpen
  PROVE  IInv'
  <1>0. /\ TypeOK /\ Turns /\ OnTime /\ phase = "PHI2" /\ Lit \in BOOLEAN
        /\ UNCHANGED owed
    BY DEF IInv, Idle, Read, TriggerLightpen, ClearLightpen, Ends, Lit
  <1>2. Fits(Now, Lit) /\ Now \in Chip
    BY <1>0, NowDone DEF Alike, Fits
  <1>3. CASE Idle
    <2>1. Ends(Now, Lit, {})
      BY <1>3 DEF Idle
    <2> QED BY <1>0, <1>2, <2>1, FittingKept
  <1>4. CASE Read
    <2> DEFINE u == UpToDate(Now)
    <2>1. Ends(u, TRUE, {})
      BY <1>4 DEF Read
    <2>2. Fits(u, TRUE)
      <3>1. Alike(Now, u) /\ u.lineCycle = LineNow /\ u.compare = Now.compare
            /\ u.irqFlags = Now.irqFlags /\ u.isTriggered = Now.isTriggered
        BY <1>0, <1>2, UpToDateDone
      <3> HIDE DEF u
      <3> QED BY <1>2, <3>1 DEF Alike, Fits
    <2> HIDE DEF u
    <2> QED BY <1>0, <2>1, <2>2, FittingKept
  <1>5. ASSUME NEW low \in BOOLEAN
        PROVE  Fits([Now EXCEPT !.lpAsserted = low], Lit)
    <2> DEFINE x == [Now EXCEPT !.lpAsserted = low]
    <2>1. /\ x \in Chip /\ x.compare = Now.compare /\ x.lineCycle = Now.lineCycle
          /\ x.irqFlags = Now.irqFlags /\ x.isTriggered = Now.isTriggered
          /\ x.dma = Now.dma /\ x.isBadLine = Now.isBadLine /\ x.rasterY = Now.rasterY
          /\ x.rasterYIRQCondition = Now.rasterYIRQCondition
      BY <1>2 DEF Chip
    <2> HIDE DEF x
    <2>2. Fits(x, Lit)
      BY <1>2, <2>1 DEF Alike, Fits
    <2> QED BY <2>2 DEF x
  <1>6. CASE TriggerLightpen
    <2> DEFINE x == [Now EXCEPT !.lpAsserted = TRUE]
    <2>1. Ends(x, Lit, {"lightpen"}) /\ Fits(x, Lit)
      BY <1>5, <1>6 DEF TriggerLightpen
    <2> HIDE DEF x
    <2> QED BY <1>0, <2>1, FittingKept
  <1>7. CASE ClearLightpen
    <2> DEFINE x == [Now EXCEPT !.lpAsserted = FALSE]
    <2>1. Ends(x, Lit, {}) /\ Fits(x, Lit)
      BY <1>5, <1>7 DEF ClearLightpen
    <2> HIDE DEF x
    <2> QED BY <1>0, <2>1, FittingKept
  <1> QED BY <1>3, <1>4, <1>6, <1>7

\* An access to a register brings the chip up to date, and writes it then.
LEMMA WrittenKept ==
  ASSUME IInv, phase = "PHI2", NEW x \in Chip, Alike(vic, x),
         x.lineCycle = Now.lineCycle, x.irqFlags = Now.irqFlags,
         x.isTriggered = Now.isTriggered
  PROVE  LET u == UpToDate(x)
         IN  /\ u \in Chip /\ Alike(vic, u) /\ u.lineCycle = LineNow
             /\ u.compare = x.compare
             /\ vic.irqFlags \subseteq u.irqFlags
             /\ u.isTriggered = (Lit \/ vic.isTriggered)
  <1>1. TypeOK /\ Turns /\ OnTime
    BY DEF IInv
  <1> QED BY <1>1, NowDone, UpToDateDone DEF Alike

LEMMA WriteD012Kept ==
  ASSUME IInv, WriteD012
  PROVE  IInv'
  <1>1. PICK line \in Compares : Ends(UpToDate([Now EXCEPT !.compare = line]), TRUE, {"edge"})
    BY DEF WriteD012
  <1> DEFINE x == [Now EXCEPT !.compare = line]
             u == UpToDate(x)
  <1>0. TypeOK /\ Turns /\ OnTime /\ phase = "PHI2" /\ UNCHANGED owed
    BY DEF IInv, WriteD012, Ends
  <1>2. Now \in Chip /\ Alike(vic, Now)
    BY <1>0, NowDone DEF Alike
  <1>3. /\ x \in Chip /\ x.lineCycle = Now.lineCycle
        /\ x.irqFlags = Now.irqFlags /\ x.isTriggered = Now.isTriggered
        /\ x.dma = Now.dma /\ x.isBadLine = Now.isBadLine /\ x.rasterY = Now.rasterY
        /\ x.rasterYIRQCondition = Now.rasterYIRQCondition
    BY <1>2 DEF Chip
  <1>4. Ends(u, TRUE, {"edge"})
    BY <1>1
  <1> HIDE DEF x
  <1>5. /\ u \in Chip /\ Alike(vic, u) /\ u.lineCycle = LineNow
        /\ vic.irqFlags \subseteq u.irqFlags /\ u.isTriggered = (Lit \/ vic.isTriggered)
    BY <1>0, <1>2, <1>3, WrittenKept DEF Alike
  <1> HIDE DEF u
  <1>6. owed' \in BOOLEAN /\ (owed' => "RASTER" \in u.irqFlags)
    BY <1>0, <1>5 DEF IInv, Turns, EdgeInv, RasterSeen
  <1> QED BY <1>4, <1>5, <1>6, Accessed DEF Alike

LEMMA Written ==
  ASSUME setup \in Setups, NEW u \in Chip, NEW y \in Scrolls
  PROVE  LET v == WriteControl(u, y)
         IN  /\ v \in Chip /\ v.compare = u.compare /\ v.lineCycle = u.lineCycle
             /\ v.irqFlags = u.irqFlags /\ v.isTriggered = u.isTriggered
             /\ v.dma = u.dma /\ v.rasterY = u.rasterY
             /\ v.rasterYIRQCondition = u.rasterYIRQCondition
  <1>1. y \in 0 .. (Rows - 1)
    BY VicAssumption
  <1>2. Enabled(u) \in BOOLEAN
    BY Chips DEF Enabled
  <1>3. Scrolled(u, y) \in BOOLEAN
    BY Chips DEF Scrolled
  <1> QED BY <1>1, <1>2, <1>3 DEF WriteControl, Chip

LEMMA WriteD011Kept ==
  ASSUME IInv, WriteD011
  PROVE  IInv'
  <1>0. TypeOK /\ Turns /\ OnTime /\ phase = "PHI2" /\ UNCHANGED owed
    BY DEF IInv, WriteD011, Ends
  <1>1. PICK y \in Scrolls, den \in BOOLEAN :
          LET u == UpToDate([Now EXCEPT !.DEN = den])
              v == WriteControl(u, y)
          IN  Ends(v, TRUE, {"edge"} \union IF v.isBadLine # u.isBadLine
                                            THEN {"badLine"} ELSE {})
    BY DEF WriteD011
  <1> DEFINE x == [Now EXCEPT !.DEN = den]
             u == UpToDate(x)
             v == WriteControl(u, y)
             events == {"edge"} \union IF v.isBadLine # u.isBadLine THEN {"badLine"} ELSE {}
  <1>2. Now \in Chip /\ Alike(vic, Now) /\ Now.compare = vic.compare
    BY <1>0, NowDone DEF Alike
  <1>3. /\ x \in Chip /\ x.lineCycle = Now.lineCycle /\ x.compare = Now.compare
        /\ x.irqFlags = Now.irqFlags /\ x.isTriggered = Now.isTriggered
        /\ x.dma = Now.dma /\ x.isBadLine = Now.isBadLine /\ x.rasterY = Now.rasterY
        /\ x.rasterYIRQCondition = Now.rasterYIRQCondition
    BY <1>2 DEF Chip
  <1>4. Ends(v, TRUE, events)
    BY <1>1
  <1> HIDE DEF x
  <1>5. /\ u \in Chip /\ Alike(vic, u) /\ u.lineCycle = LineNow /\ u.compare = vic.compare
        /\ vic.irqFlags \subseteq u.irqFlags /\ u.isTriggered = (Lit \/ vic.isTriggered)
    BY <1>0, <1>2, <1>3, WrittenKept DEF Alike
  <1> HIDE DEF u
  <1>6. /\ v \in Chip /\ v.compare = u.compare /\ v.lineCycle = u.lineCycle
        /\ v.irqFlags = u.irqFlags /\ v.isTriggered = u.isTriggered
        /\ v.dma = u.dma /\ v.rasterY = u.rasterY
        /\ v.rasterYIRQCondition = u.rasterYIRQCondition
    BY <1>0, <1>5, Written DEF TypeOK
  <1> HIDE DEF v
  <1>7. owed' \in BOOLEAN /\ (owed' => "RASTER" \in v.irqFlags)
    BY <1>0, <1>5, <1>6 DEF IInv, Turns, EdgeInv, RasterSeen
  <1>8. /\ events \subseteq {"badLine", "edge", "lightpen"} /\ "edge" \in events
        /\ "badLine" \in events \/ v.isBadLine = vic.isBadLine
    BY <1>5 DEF Alike
  <1> HIDE DEF events
  <1> QED BY <1>4, <1>5, <1>6, <1>7, <1>8, Accessed DEF Alike

LEMMA FlagsKept ==
  ASSUME IInv, WriteD019 \/ WriteD01A
  PROVE  IInv'
  <1>0. TypeOK /\ Turns /\ OnTime /\ phase = "PHI2"
    BY DEF IInv, WriteD019, WriteD01A, Ends
  <1> DEFINE u == UpToDate(Now)
  <1>1. /\ u \in Chip /\ Alike(vic, u) /\ u.lineCycle = LineNow /\ u.compare = vic.compare
        /\ vic.irqFlags \subseteq u.irqFlags /\ u.isTriggered = (Lit \/ vic.isTriggered)
    BY <1>0, NowDone, WrittenKept DEF Alike
  <1>2. PICK flags \in SUBSET {"RASTER", "LIGHTPEN"}, mask \in SUBSET {"RASTER", "LIGHTPEN"} :
          /\ Ends(HandleIrqState([u EXCEPT !.irqFlags = flags, !.irqMask = mask]), TRUE, {})
          /\ owed' = FALSE \/ (owed' = owed /\ flags = u.irqFlags)
    <2>1. CASE WriteD019
      <3>1. PICK acked : Ends(HandleIrqState([u EXCEPT !.irqFlags = @ \ acked]), TRUE, {})
                         /\ owed' = FALSE
        BY <2>1 DEF WriteD019
      <3> HIDE DEF u
      <3>2. [u EXCEPT !.irqFlags = @ \ acked]
              = [u EXCEPT !.irqFlags = u.irqFlags \ acked, !.irqMask = u.irqMask]
        BY <1>1 DEF Chip
      <3>3. u.irqFlags \ acked \in SUBSET {"RASTER", "LIGHTPEN"}
            /\ u.irqMask \in SUBSET {"RASTER", "LIGHTPEN"}
        BY <1>0, <1>1, Chips DEF TypeOK
      <3> QED BY <3>1, <3>2, <3>3
    <2>2. CASE WriteD01A
      <3>1. PICK mask \in {{}, {"RASTER", "LIGHTPEN"}} :
              Ends(HandleIrqState([u EXCEPT !.irqMask = mask]), TRUE, {}) /\ owed' = owed
        BY <2>2 DEF WriteD01A, WriteMask
      <3> HIDE DEF u
      <3>2. [u EXCEPT !.irqMask = mask]
              = [u EXCEPT !.irqFlags = u.irqFlags, !.irqMask = mask]
        BY <1>1 DEF Chip
      <3>3. mask \in SUBSET {"RASTER", "LIGHTPEN"}
            /\ u.irqFlags \in SUBSET {"RASTER", "LIGHTPEN"}
        BY <1>0, <1>1, Chips DEF TypeOK
      <3> QED BY <3>1, <3>2, <3>3
    <2> QED BY <2>1, <2>2
  <1> HIDE DEF u
  <1> DEFINE x == [u EXCEPT !.irqFlags = flags, !.irqMask = mask]
             v == HandleIrqState(x)
  <1>3. Ends(v, TRUE, {})
    BY <1>2
  <1>4. /\ v \in Chip /\ v.compare = u.compare /\ v.lineCycle = u.lineCycle
        /\ v.irqFlags = flags /\ v.isTriggered = u.isTriggered
        /\ v.dma = u.dma /\ v.isBadLine = u.isBadLine /\ v.rasterY = u.rasterY
        /\ v.rasterYIRQCondition = u.rasterYIRQCondition
    <2>1. /\ x \in Chip /\ x.compare = u.compare /\ x.lineCycle = u.lineCycle
          /\ x.irqFlags = flags /\ x.isTriggered = u.isTriggered
          /\ x.dma = u.dma /\ x.isBadLine = u.isBadLine /\ x.rasterY = u.rasterY
          /\ x.rasterYIRQCondition = u.rasterYIRQCondition
      BY <1>1 DEF Chip
    <2> HIDE DEF x
    <2> QED BY <2>1 DEF HandleIrqState, Chip
  <1> HIDE DEF v
  <1>5. owed' \in BOOLEAN /\ (owed' => "RASTER" \in v.irqFlags)
    <2>1. CASE owed' = FALSE
      BY <2>1
    <2>2. CASE owed' = owed /\ flags = u.irqFlags
      <3>1. owed \in BOOLEAN /\ (owed => "RASTER" \in vic.irqFlags)
        BY DEF IInv, Turns, EdgeInv, RasterSeen
      <3> QED BY <1>1, <1>4, <2>2, <3>1
    <2> QED BY <1>2, <2>1, <2>2
  <1> QED BY <1>1, <1>3, <1>4, <1>5, Accessed DEF Alike

-----------------------------------------------------------------------------
(* The invariant.                                                          *)

LEMMA Settled ==
  ASSUME setup \in Setups, vic = ResetState, ba = TRUE, behind = 0, wake = 0,
         pending = {}, phase = "PHI1",
         owed = FALSE, matched = FALSE, penned = 0, tricked = FALSE
  PROVE  IInv
  <1>1. ResetState \in Chip
    BY Clocks, VicAssumption DEF ResetState, Chip
  <1>2. /\ vic.lineCycle = 0 /\ vic.dma = {} /\ vic.isBadLine = FALSE
        /\ vic.rasterYIRQCondition = FALSE /\ vic.rasterY = maxRasters - 1
        /\ vic.compare = 0
    BY DEF ResetState
  <1>3. Here = 0 /\ cyclesPerLine \in 63..65 /\ maxRasters \in Nat /\ maxRasters - 1 # 0
    BY <1>2, Clocks DEF Here, Place
  <1>4. TypeOK
    BY <1>1, <1>3 DEF TypeOK
  <1>5. OnTime
    BY <1>2, <1>3 DEF OnTime
  <1>6. BusInv
    BY <1>2, <1>3 DEF BusInv, BusKnown, Wanted, Open
  <1>7. EdgeInv
    <2>1. (vic.rasterY = vic.compare) = FALSE
      BY <1>2, <1>3
    <2> QED BY <1>2, <2>1 DEF EdgeInv, RasterSeen
  <1>8. PenInv
    BY DEF PenInv
  <1>9. Turns
    BY DEF Turns
  <1> QED BY <1>4, <1>5, <1>6, <1>7, <1>8, <1>9 DEF IInv

LEMMA ResetKept ==
  ASSUME IInv, Reset
  PROVE  IInv'
  <1>1. (/\ setup \in Setups /\ vic = ResetState /\ ba = TRUE /\ behind = 0 /\ wake = 0
         /\ pending = {} /\ phase = "PHI1"
         /\ owed = FALSE /\ matched = FALSE /\ penned = 0 /\ tricked = FALSE)'
    BY DEF Reset, IInv, TypeOK, ResetState, maxRasters
  <1> QED BY <1>1, Settled, PTL

LEMMA Induction ==
  ASSUME IInv, [Next]_vars
  PROVE  IInv'
  <1>1. CASE UNCHANGED vars
    BY <1>1, SetupStays DEF vars, IInv, TypeOK, Turns, OnTime, BusInv, EdgeInv, PenInv,
      RasterSeen, Here
  <1>2. CASE Next
    BY <1>2, ResetKept, Phi1Kept, AccessKept, WriteD011Kept, WriteD012Kept, FlagsKept DEF Next
  <1> QED BY <1>1, <1>2

\* The chip is where its event left it or will find it in time, BA is known in
\* every cycle, the edge detector is up to date and the light pen has interrupted
\* no more than once: in every state, for any chip and any program.
THEOREM Invariance == Spec => []IInv
  <1>1. Init => IInv
    BY Settled DEF Init
  <1>2. IInv /\ [Next]_vars => IInv'
    BY Induction
  <1> QED BY <1>1, <1>2, PTL DEF Spec

\* The cycles in which sprite n is fetched, in places.
LEMMA FetchedBetween ==
  ASSUME setup \in Setups, LineNow \in 0 .. (cyclesPerLine - 1), NEW n \in 0..7
  PROVE  Fetches(n) <=> n \in vic.dma /\ Fetch(n) <= Place(LineNow)
                                      /\ Place(LineNow) < Fetch(n) + 5
  <1> DEFINE L == LineNow
             first == IF n = 0 THEN CHOOSE c \in StartDma0 : c + 1 \in StartDma0
                      ELSE StartDma[n]
  <1>1. first \in 0 .. (cyclesPerLine - 1) /\ Place(first) = Fetch(n)
        /\ EndDma(n) \in 0 .. (cyclesPerLine - 1)
        /\ Place(EndDma(n)) = Fetch(n) + 5
    <2>1. CASE n = 0
      BY <2>1, Clocks DEF Place, Fetch, StartDma0, EndDma
    <2>2. CASE n # 0
      BY <2>2, Clocks DEF Place, Fetch, StartDma, EndDma
    <2> QED BY <2>1, <2>2
  <1>2. Fetches(n) <=> n \in vic.dma /\ Between(first, EndDma(n))
    BY DEF Fetches
  <1>3. Fetch(n) \in (54 - cyclesPerLine) .. 5 /\ Place(L) \in (54 - cyclesPerLine) .. 53
    BY Clocks, PlaceFits DEF Fetch
  <1> DEFINE last == EndDma(n)
  <1> HIDE DEF first, last, L
  <1>4. Between(first, last) <=> Fetch(n) <= Place(L) /\ Place(L) < Fetch(n) + 5
    <2>1. Between(first, last) <=> (L - first) % cyclesPerLine < (last - first) % cyclesPerLine
      BY DEF Between, L
    <2>2. L \in 0 .. (cyclesPerLine - 1) /\ first \in 0 .. (cyclesPerLine - 1)
          /\ last \in 0 .. (cyclesPerLine - 1) /\ Place(last) = Place(first) + 5
          /\ Fetch(n) = Place(first) /\ Place(first) \in (54 - cyclesPerLine) .. 5
      BY <1>1, <1>3, Clocks DEF last, L
    <2>3. ASSUME NEW w \in {63, 64, 65}, cyclesPerLine = w
          PROVE  /\ (last - first) % w = 5
                 /\ (L - first) % w < 5 <=> Place(first) <= Place(L) /\ Place(L) < Place(first) + 5
      <3>1. CASE w = 63
        BY <2>2, <2>3, <3>1 DEF Place
      <3>2. CASE w = 64
        BY <2>2, <2>3, <3>2 DEF Place
      <3>3. CASE w = 65
        BY <2>2, <2>3, <3>3 DEF Place
      <3> QED BY <3>1, <3>2, <3>3
    <2> QED BY <2>1, <2>2, <2>3, Clocks
  <1> QED BY <1>2, <1>4 DEF last, L

\* However far the chip's event skips and whenever the CPU looks, BA is low in
\* exactly the cycles that the sprites and the bad line need (BusTaken).
THEOREM BusTakenCorrect == Spec => []BusTaken
  <1>1. ASSUME IInv, phase = "PHI2", ~tricked
        PROVE  ~ba <=> \/ \E n \in Used : Fetches(n)
                       \/ vic.isBadLine /\ LineNow \in 11..53
    <2> DEFINE p == Here + behind
    <2>1. TypeOK /\ Turns /\ OnTime /\ BusInv
      BY <1>1 DEF IInv
    <2>2. /\ setup \in Setups /\ vic.dma \in SUBSET (0..7) /\ vic.dma \subseteq Used
          /\ Used \subseteq 0..7 /\ vic.isBadLine \in BOOLEAN
          /\ ba \in BOOLEAN /\ tricked \in BOOLEAN
          /\ Here \in (54 - cyclesPerLine) .. 53 /\ p \in Here .. 53 /\ p \in Int
          /\ Place(LineNow) = p /\ LineNow \in 0 .. (cyclesPerLine - 1)
      BY <1>1, <2>1, Times, Chips, Clocks DEF TypeOK, Turns
    <2>3. \A r \in (Here + 1) .. p : Quiet(r, vic.dma)
      BY <1>1, <2>1, <2>2, Times DEF OnTime
    <2>4. BusKnown(Here, vic.dma, vic.isBadLine, ba, tricked)
      BY <1>1, <2>1 DEF BusInv, Turns
    <2> HIDE DEF p
    <2>5. BusKnown(p, vic.dma, vic.isBadLine, ba, tricked)
      BY <2>2, <2>3, <2>4, BusKeeps
    <2>6. ba <=> ~Wanted(p, vic.dma, vic.isBadLine)
      BY <1>1, <2>5 DEF BusKnown
    <2>7. Open(p, vic.dma) <=> \E n \in Used : Fetches(n)
      BY <2>2, FetchedBetween DEF Open
    <2>8. p \in 11..53 <=> LineNow \in 11..53
      BY <2>2, Clocks DEF Place
    <2> QED BY <2>2, <2>6, <2>7, <2>8 DEF Wanted
  <1>2. IInv => BusTaken
    BY <1>1 DEF BusTaken, VICII_FETCH_CYCLE
  <1> QED BY <1>2, Invariance, PTL

\* No raster line that the program waits for goes by without its flag (RasterSeen).
THEOREM RasterSeenCorrect == Spec => []RasterSeen
  <1>1. IInv => RasterSeen
    BY DEF IInv, EdgeInv
  <1> QED BY <1>1, Invariance, PTL

\* The light pen interrupts at most once in a frame (LightpenOnce).
THEOREM LightpenOnceCorrect == Spec => []LightpenOnce
  <1>1. IInv => LightpenOnce
    BY DEF IInv, PenInv, LightpenOnce
  <1> QED BY <1>1, Invariance, PTL

-----------------------------------------------------------------------------
(* A sprite. The counter goes up in steps of 3 modulo 64, of which 43 is   *)
(* the inverse, so that the steps it has yet to take are known.            *)

Steps(m) == ((63 - m) * 43) % 64

\* From the counter at which a line begins: it takes at least one.
StepsFrom(base) == IF base = 63 THEN 64 ELSE Steps(base)

\* The lines that a sprite has yet to fetch. An expanded one fetches each twice,
\* but for the half that exp_flop says it is through with; in the visits between
\* the base counter's update and checkExp() the flop is about to be inverted.
InversionDue == visit = 2 \/ (visit = 3 /\ model = "PAL")
Half(flop) == IF flop THEN 1 ELSE 0
LinesLeft ==
  IF ~y_expansion THEN IF visit = 1 THEN Steps(mc) ELSE StepsFrom(mc_base)
  ELSE IF visit = 1
       THEN IF exp_flop THEN 2 * Steps(mc) ELSE 2 * StepsFrom(mc_base) - 1
       ELSE 2 * StepsFrom(mc_base) - (IF InversionDue THEN Half(~exp_flop) ELSE Half(exp_flop))

Lines == IF ~y_expansion THEN 21 ELSE IF late THEN 41 ELSE 42

SpriteBits ==
  /\ model \in {"PAL", "NTSC"}
  /\ enable \in BOOLEAN /\ y_expansion \in BOOLEAN /\ exp_flop \in BOOLEAN /\ dma \in BOOLEAN
  /\ plain \in BOOLEAN /\ late \in BOOLEAN
SpriteNumbers ==
  /\ visit \in 1..5
  /\ mc_base \in 0..63 /\ mc \in 0..63 /\ lines \in Nat /\ height \in Nat
SpriteTypes == SpriteBits /\ SpriteNumbers

SpriteInv ==
  /\ SpriteTypes
  /\ ~y_expansion => exp_flop
  /\ visit = 5 => mc = mc_base
  /\ dma => lines + LinesLeft <= (IF y_expansion THEN 128 ELSE 64)
  /\ dma /\ plain => lines + LinesLeft = Lines
  /\ Sprite!SpriteHeight

-----------------------------------------------------------------------------
LEMMA StepsOf ==
  ASSUME NEW m \in 0..63
  PROVE  /\ Steps(m) \in 0..63 /\ (Steps(m) = 0 <=> m = 63)
         /\ StepsFrom(m) \in 1..64
         /\ Steps((m + 3) % 64) = StepsFrom(m) - 1 /\ (m + 3) % 64 \in 0..63
         /\ StepsFrom(0) = 21
  BY DEF Steps, StepsFrom

LEMMA CrunchedFits == ASSUME NEW m, NEW n PROVE Sprite!Crunched(m, n) \in 0..63
  <1>1. ASSUME NEW w \in Nat
        PROVE  Sprite!Both(m, n, w) \in {0, w} /\ Sprite!Either(m, n, w) \in {0, w}
    BY DEF Sprite!Both, Sprite!Either
  <1> QED BY <1>1 DEF Sprite!Crunched

\* What the five visits do to a sprite, whose registers stay as they are.
Kept == /\ model' = model /\ enable' = enable /\ y_expansion' = y_expansion
Begun(flop, latest) ==
  /\ dma' = TRUE /\ mc_base' = 0 /\ mc' = mc /\ exp_flop' = flop
  /\ lines' = 0 /\ plain' = TRUE /\ late' = latest /\ height' = 0
Ended ==
  /\ dma' = FALSE /\ mc_base' = mc /\ mc' = mc /\ exp_flop' = exp_flop
  /\ lines' = 0 /\ plain' = FALSE /\ late' = late
  /\ height' = IF plain THEN lines ELSE 0
Continued(base, counter, flop, more) ==
  /\ dma' = dma /\ mc_base' = base /\ mc' = counter /\ exp_flop' = flop
  /\ lines' = (IF dma THEN lines + more ELSE 0) /\ plain' = (plain /\ dma)
  /\ late' = late /\ height' = height
Inverted == (exp_flop # (dma /\ y_expansion))

SpriteState == [exp : BOOLEAN, dma : BOOLEAN, base : Int, mc : Int]

LEMMA McUpdated ==
  ASSUME NEW s \in SpriteState
  PROVE  LET t == Sprite!UpdateMc(s)
         IN  /\ t.exp = s.exp /\ t.dma = s.dma /\ t.base = s.base
             /\ t.mc = IF s.dma THEN (s.mc + 3) % 64 ELSE s.mc
  BY DEF Sprite!UpdateMc, SpriteState

LEMMA McBaseUpdated ==
  ASSUME NEW s \in SpriteState
  PROVE  LET t == Sprite!UpdateMcBase(s)
         IN  /\ t.exp = s.exp /\ t.dma = (s.dma /\ ~(s.exp /\ s.mc = 63))
             /\ t.base = (IF s.exp THEN s.mc ELSE s.base) /\ t.mc = s.mc
  BY DEF Sprite!UpdateMcBase, SpriteState

Hit(match) == enable /\ match /\ ~dma

LEMMA DmaChecked ==
  ASSUME NEW s \in SpriteState, s.dma = dma, NEW match
  PROVE  LET t   == Sprite!CheckDma(s, match)
         IN  /\ t \in SpriteState
             /\ t.exp = (IF Hit(match) THEN TRUE ELSE s.exp)
             /\ t.dma = (IF Hit(match) THEN TRUE ELSE dma)
             /\ t.base = (IF Hit(match) THEN 0 ELSE s.base) /\ t.mc = s.mc
  <1>1. CASE Hit(match)
    <2>1. Sprite!CheckDma(s, match) = [s EXCEPT !.dma = TRUE, !.base = 0, !.exp = TRUE]
      BY <1>1 DEF Hit, Sprite!CheckDma
    <2>2. [s EXCEPT !.dma = TRUE, !.base = 0, !.exp = TRUE] \in SpriteState
      <3>1. ASSUME NEW t \in SpriteState
            PROVE  /\ [t EXCEPT !.dma = TRUE] \in SpriteState
                   /\ [t EXCEPT !.base = 0] \in SpriteState
                   /\ [t EXCEPT !.exp = TRUE] \in SpriteState
        <4>1. [t EXCEPT !.dma = TRUE] \in SpriteState
          BY DEF SpriteState
        <4>2. [t EXCEPT !.base = 0] \in SpriteState
          BY DEF SpriteState
        <4>3. [t EXCEPT !.exp = TRUE] \in SpriteState
          BY DEF SpriteState
        <4> QED BY <4>1, <4>2, <4>3
      <3> QED BY <3>1
    <2>3. LET t == [s EXCEPT !.dma = TRUE, !.base = 0, !.exp = TRUE]
          IN  t.exp = TRUE /\ t.dma = TRUE /\ t.base = 0 /\ t.mc = s.mc
      BY DEF SpriteState
    <2> QED BY <1>1, <2>1, <2>2, <2>3
  <1>2. CASE ~Hit(match)
    <2>1. Sprite!CheckDma(s, match) = s
      BY <1>2 DEF Hit, Sprite!CheckDma
    <2> QED BY <1>2, <2>1
  <1> QED BY <1>1, <1>2

LEMMA ExpChecked ==
  ASSUME NEW s \in SpriteState
  PROVE  LET t == Sprite!CheckExp(s)
         IN  /\ t.exp = (s.exp # (s.dma /\ y_expansion)) /\ t.dma = s.dma
             /\ t.base = s.base /\ t.mc = s.mc
  BY DEF Sprite!CheckExp, SpriteState

LEMMA Displayed ==
  ASSUME NEW s \in SpriteState
  PROVE  LET t == Sprite!CheckDisplay(s)
         IN  t.exp = s.exp /\ t.dma = s.dma /\ t.base = s.base /\ t.mc = s.base
  BY DEF Sprite!CheckDisplay, SpriteState

Turned ==
  /\ Kept /\ visit' = (visit % 5) + 1
  /\ visit = 5 => Continued(mc_base, IF dma THEN (mc + 3) % 64 ELSE mc, exp_flop, 1)
  /\ visit = 1 =>
       IF exp_flop THEN IF dma /\ mc = 63 THEN Ended ELSE Continued(mc, mc, exp_flop, 0)
       ELSE Continued(mc_base, mc, exp_flop, 0)
  /\ visit = 2 =>
       \/ ~dma /\ Begun((model = "NTSC" => ~y_expansion), FALSE)
       \/ Continued(mc_base, mc, IF model = "PAL" THEN exp_flop ELSE Inverted, 0)
  /\ visit = 3 =>
       \/ ~dma /\ Begun((model = "PAL" => ~y_expansion), model = "NTSC")
       \/ Continued(mc_base, mc, IF model = "PAL" THEN Inverted ELSE exp_flop, 0)
  /\ visit = 4 => Continued(mc_base, mc_base, exp_flop, 0)

LEMMA Visiting ==
  ASSUME SpriteTypes, Sprite!Visit, model' = model
  PROVE  Turned
  <1> DEFINE n == (visit % 5) + 1
  <1>1. PICK match \in BOOLEAN :
          LET s == Sprite!Visited(n, Sprite!Sprite, match)
              begins == s.dma /\ ~dma
              ends   == dma /\ ~s.dma
          IN  /\ visit' = n
              /\ exp_flop' = s.exp /\ dma' = s.dma /\ mc_base' = s.base /\ mc' = s.mc
              /\ lines' = IF begins \/ ~s.dma THEN 0 ELSE IF n = 1 THEN lines + 1 ELSE lines
              /\ plain' = (begins \/ (plain /\ s.dma))
              /\ late' = IF begins THEN n = 4 /\ model # "PAL" ELSE late
              /\ height' = IF ends THEN (IF plain THEN lines ELSE 0)
                           ELSE IF begins THEN 0 ELSE height
    BY DEF Sprite!Visit
  <1> DEFINE S == Sprite!Sprite
             s == Sprite!Visited(n, S, match)
             c == Sprite!CheckDma(S, match)
             e == Sprite!CheckExp(c)
             hit == Hit(match)
  <1>2. Kept
    BY DEF Kept, Sprite!Visit, Sprite!regs
  <1>3. model \in {"PAL", "NTSC"} /\ visit \in 1..5 /\ exp_flop \in BOOLEAN /\ dma \in BOOLEAN
        /\ y_expansion \in BOOLEAN /\ plain \in BOOLEAN /\ lines \in Nat /\ enable \in BOOLEAN
    BY DEF SpriteTypes, SpriteBits, SpriteNumbers
  <1>4. /\ S \in SpriteState
        /\ S.exp = exp_flop /\ S.dma = dma /\ S.base = mc_base /\ S.mc = mc
    BY DEF SpriteTypes, SpriteBits, SpriteNumbers, SpriteState, Sprite!Sprite
  <1>5. /\ c \in SpriteState
        /\ c.exp = (IF hit THEN TRUE ELSE exp_flop) /\ c.dma = (IF hit THEN TRUE ELSE dma)
        /\ c.base = (IF hit THEN 0 ELSE mc_base) /\ c.mc = mc
    <2> HIDE DEF S
    <2> QED BY <1>4, DmaChecked
  <1>6. /\ e.exp = (c.exp # (c.dma /\ y_expansion)) /\ e.dma = c.dma
        /\ e.base = c.base /\ e.mc = c.mc
    <2> HIDE DEF c
    <2> QED BY <1>5, ExpChecked
  <1>7. /\ visit = 5 => n = 1 /\ s = Sprite!UpdateMc(S)
        /\ visit = 1 => n = 2 /\ s = Sprite!UpdateMcBase(S)
        /\ visit = 2 => n = 3 /\ s = IF model = "PAL" THEN c ELSE e
        /\ visit = 3 => n = 4 /\ s = IF model = "PAL" THEN e ELSE c
        /\ visit = 4 => n = 5 /\ s = Sprite!CheckDisplay(S)
    <2>1. /\ visit = 5 => n = 1
          /\ visit = 1 => n = 2
          /\ visit = 2 => n = 3
          /\ visit = 3 => n = 4
          /\ visit = 4 => n = 5
      OBVIOUS
    <2> HIDE DEF n, S
    <2> QED BY <2>1 DEF Sprite!Visited
  <1> HIDE DEF S, s, c, e, n
  <1>8. /\ visit' = n
        /\ exp_flop' = s.exp /\ dma' = s.dma /\ mc_base' = s.base /\ mc' = s.mc
        /\ lines' = IF (s.dma /\ ~dma) \/ ~s.dma THEN 0 ELSE IF n = 1 THEN lines + 1 ELSE lines
        /\ plain' = ((s.dma /\ ~dma) \/ (plain /\ s.dma))
        /\ late' = IF s.dma /\ ~dma THEN n = 4 /\ model # "PAL" ELSE late
        /\ height' = IF dma /\ ~s.dma THEN (IF plain THEN lines ELSE 0)
                     ELSE IF s.dma /\ ~dma THEN 0 ELSE height
    BY <1>1 DEF s, S
  <1>9. visit' = (visit % 5) + 1
    BY <1>8 DEF n
  <1>10. visit = 5 => Continued(mc_base, IF dma THEN (mc + 3) % 64 ELSE mc, exp_flop, 1)
    BY <1>3, <1>4, <1>7, <1>8, McUpdated DEF Continued
  <1>11. visit = 1 =>
           IF exp_flop THEN IF dma /\ mc = 63 THEN Ended ELSE Continued(mc, mc, exp_flop, 0)
           ELSE Continued(mc_base, mc, exp_flop, 0)
    <2> HAVE visit = 1
    <2>1. /\ s.exp = exp_flop /\ s.dma = (dma /\ ~(exp_flop /\ mc = 63))
          /\ s.base = (IF exp_flop THEN mc ELSE mc_base) /\ s.mc = mc /\ n = 2
      BY <1>4, <1>7, McBaseUpdated
    <2>2. dma /\ exp_flop /\ mc = 63 => Ended
      BY <1>8, <2>1 DEF Ended
    <2>3. ~(dma /\ exp_flop /\ mc = 63) => s.dma = dma
      BY <1>3, <2>1
    <2>4. ~(dma /\ exp_flop /\ mc = 63)
            => Continued(IF exp_flop THEN mc ELSE mc_base, mc, exp_flop, 0)
      BY <1>3, <1>8, <2>1, <2>3 DEF Continued
    <2> QED BY <2>2, <2>4
  <1>12. visit = 2 =>
           \/ ~dma /\ Begun((model = "NTSC" => ~y_expansion), FALSE)
           \/ Continued(mc_base, mc, IF model = "PAL" THEN exp_flop ELSE Inverted, 0)
    <2> HAVE visit = 2
    <2>1. /\ s.dma = c.dma /\ s.base = c.base /\ s.mc = mc /\ n = 3
          /\ s.exp = IF model = "PAL" THEN c.exp ELSE (c.exp # (c.dma /\ y_expansion))
      BY <1>3, <1>5, <1>6, <1>7
    <2>2. hit => ~dma
      BY DEF Hit
    <2>3. CASE hit
      <3>1. /\ s.dma = TRUE /\ s.base = 0 /\ s.mc = mc /\ dma = FALSE
            /\ s.exp = (model = "NTSC" => ~y_expansion)
        BY <1>3, <1>5, <2>1, <2>2, <2>3
      <3>2. late' = FALSE /\ lines' = 0 /\ height' = 0
        BY <1>3, <1>8, <2>1, <3>1
      <3>3. /\ exp_flop' = s.exp /\ dma' = s.dma /\ mc_base' = s.base /\ mc' = s.mc
            /\ plain' = ((s.dma /\ ~dma) \/ (plain /\ s.dma))
        BY <1>8
      <3> QED BY <3>1, <3>2, <3>3 DEF Begun
    <2>4. CASE ~hit
      <3>1. /\ s.dma = dma /\ s.base = mc_base /\ s.mc = mc
            /\ s.exp = IF model = "PAL" THEN exp_flop ELSE Inverted
        BY <1>3, <1>5, <2>1, <2>4 DEF Inverted
      <3>2. lines' = (IF dma THEN lines + 0 ELSE 0)
        BY <1>3, <1>8, <2>1, <3>1
      <3>3. /\ exp_flop' = s.exp /\ dma' = s.dma /\ mc_base' = s.base /\ mc' = s.mc
            /\ plain' = (plain /\ dma) /\ late' = late /\ height' = height
        BY <1>3, <1>8, <3>1
      <3> QED BY <3>1, <3>2, <3>3 DEF Continued
    <2> QED BY <2>3, <2>4
  <1>13. visit = 3 =>
           \/ ~dma /\ Begun((model = "PAL" => ~y_expansion), model = "NTSC")
           \/ Continued(mc_base, mc, IF model = "PAL" THEN Inverted ELSE exp_flop, 0)
    <2> HAVE visit = 3
    <2>1. /\ s.dma = c.dma /\ s.base = c.base /\ s.mc = mc /\ n = 4
          /\ s.exp = IF model = "NTSC" THEN c.exp ELSE (c.exp # (c.dma /\ y_expansion))
      BY <1>3, <1>5, <1>6, <1>7
    <2>2. hit => ~dma
      BY DEF Hit
    <2>3. CASE hit
      <3>1. /\ s.dma = TRUE /\ s.base = 0 /\ s.mc = mc /\ dma = FALSE
            /\ s.exp = (model = "PAL" => ~y_expansion)
        BY <1>3, <1>5, <2>1, <2>2, <2>3
      <3>2. late' = (model = "NTSC") /\ lines' = 0 /\ height' = 0
        BY <1>3, <1>8, <2>1, <3>1
      <3>3. /\ exp_flop' = s.exp /\ dma' = s.dma /\ mc_base' = s.base /\ mc' = s.mc
            /\ plain' = ((s.dma /\ ~dma) \/ (plain /\ s.dma))
        BY <1>8
      <3> QED BY <3>1, <3>2, <3>3 DEF Begun
    <2>4. CASE ~hit
      <3>1. /\ s.dma = dma /\ s.base = mc_base /\ s.mc = mc
            /\ s.exp = IF model = "PAL" THEN Inverted ELSE exp_flop
        BY <1>3, <1>5, <2>1, <2>4 DEF Inverted
      <3>2. lines' = (IF dma THEN lines + 0 ELSE 0)
        BY <1>3, <1>8, <2>1, <3>1
      <3>3. /\ exp_flop' = s.exp /\ dma' = s.dma /\ mc_base' = s.base /\ mc' = s.mc
            /\ plain' = (plain /\ dma) /\ late' = late /\ height' = height
        BY <1>3, <1>8, <3>1
      <3> QED BY <3>1, <3>2, <3>3 DEF Continued
    <2> QED BY <2>3, <2>4
  <1>14. visit = 4 => Continued(mc_base, mc_base, exp_flop, 0)
    BY <1>3, <1>4, <1>7, <1>8, Displayed DEF Continued
  <1> QED BY <1>2, <1>9, <1>10, <1>11, <1>12, <1>13, <1>14 DEF Turned

\* What a sprite has fetched and what it has left make its height, from the
\* beginning of its DMA to the end.
LEMMA SumKept ==
  ASSUME SpriteInv, Turned, dma = TRUE, dma' = TRUE
  PROVE  /\ lines' + LinesLeft' = lines + LinesLeft /\ lines' + LinesLeft' \in Int
         /\ late' = late /\ plain' = plain /\ y_expansion' = y_expansion /\ height' = height
  <1> DEFINE s == StepsFrom(mc_base)
  <1>1. /\ mc_base \in 0..63 /\ mc \in 0..63 /\ lines \in Nat /\ visit \in 1..5
        /\ s \in 1..64 /\ Steps((mc_base + 3) % 64) = s - 1 /\ Steps(mc) \in 0..63
        /\ (mc # 63 => StepsFrom(mc) = Steps(mc))
    BY StepsOf DEF SpriteInv, SpriteTypes, SpriteNumbers, StepsFrom
  <1>2. /\ y_expansion \in {TRUE, FALSE} /\ exp_flop \in {TRUE, FALSE}
        /\ plain \in {TRUE, FALSE} /\ model \in {"PAL", "NTSC"}
        /\ (y_expansion = FALSE => exp_flop = TRUE)
    BY DEF SpriteInv, SpriteTypes, SpriteBits
  <1>3. model' = model /\ y_expansion' = y_expansion
    BY DEF Turned, Kept
  <1>4. CASE visit = 5
    <2>1. /\ visit' = 1 /\ mc' = (mc_base + 3) % 64 /\ mc_base' = mc_base
          /\ exp_flop' = exp_flop /\ lines' = lines + 1
          /\ late' = late /\ plain' = plain /\ height' = height
      <3>1. Continued(mc_base, (mc_base + 3) % 64, exp_flop, 1) /\ visit' = 1
        BY <1>4 DEF Turned, SpriteInv
      <3> QED BY <1>2, <3>1 DEF Continued
    <2>2. LinesLeft = IF y_expansion THEN 2 * s - (IF exp_flop THEN 1 ELSE 0) ELSE s
      BY <1>4 DEF LinesLeft, InversionDue, Half
    <2>3. LinesLeft' = IF y_expansion THEN IF exp_flop THEN 2 * (s - 1) ELSE 2 * s - 1 ELSE s - 1
      BY <1>1, <1>3, <2>1 DEF LinesLeft
    <2> HIDE DEF s
    <2> QED BY <1>1, <1>2, <1>3, <2>1, <2>2, <2>3
  <1>5. CASE visit = 1
    <2>0. lines + 0 = lines
      BY <1>1
    <2>1. /\ visit' = 2 /\ mc_base' = (IF exp_flop THEN mc ELSE mc_base)
          /\ exp_flop' = exp_flop /\ lines' = lines /\ (exp_flop => mc # 63)
          /\ late' = late /\ plain' = plain /\ height' = height
      <3>1. visit' = 2 /\ ~Ended
        BY <1>5 DEF Turned, Ended
      <3>2. /\ exp_flop => mc # 63
            /\ Continued(IF exp_flop THEN mc ELSE mc_base, mc, exp_flop, 0)
        BY <1>5, <3>1 DEF Turned
      <3> QED BY <1>2, <2>0, <3>1, <3>2 DEF Continued
    <2>2. LinesLeft = IF y_expansion THEN IF exp_flop THEN 2 * Steps(mc) ELSE 2 * s - 1 ELSE Steps(mc)
      BY <1>5 DEF LinesLeft
    <2>3. LinesLeft' = IF y_expansion THEN 2 * StepsFrom(mc_base') - (IF exp_flop THEN 0 ELSE 1)
                       ELSE StepsFrom(mc_base')
      BY <1>3, <2>1 DEF LinesLeft, InversionDue, Half
    <2> HIDE DEF s
    <2>4. CASE exp_flop = TRUE
      BY <1>1, <1>2, <1>3, <2>1, <2>2, <2>3, <2>4
    <2>5. CASE exp_flop = FALSE
      BY <1>1, <1>2, <1>3, <2>1, <2>2, <2>3, <2>5 DEF s
    <2> QED BY <1>2, <2>4, <2>5
  <1>6. CASE visit \in {2, 3}
    <2>00. lines + 0 = lines
      BY <1>1
    <2>0. /\ visit' = visit + 1
          /\ visit = 2 => Continued(mc_base, mc, IF model = "PAL" THEN exp_flop ELSE Inverted, 0)
          /\ visit = 3 => Continued(mc_base, mc, IF model = "PAL" THEN Inverted ELSE exp_flop, 0)
      BY <1>6 DEF Turned
    <2>1. /\ visit' = visit + 1 /\ mc_base' = mc_base /\ lines' = lines
          /\ late' = late /\ plain' = plain /\ height' = height
      <3>1. visit = 2 \/ visit = 3
        BY <1>6
      <3>2. CASE visit = 2
        BY <1>2, <2>00, <2>0, <3>2 DEF Continued
      <3>3. CASE visit = 3
        BY <1>2, <2>00, <2>0, <3>3 DEF Continued
      <3> QED BY <3>1, <3>2, <3>3
    <2>2. exp_flop' = IF (visit = 2) = (model = "PAL") THEN exp_flop ELSE (exp_flop # y_expansion)
      BY <1>2, <1>6, <2>0 DEF Continued, Inverted
    <2>3. CASE y_expansion = FALSE
      BY <1>1, <1>3, <1>6, <2>1, <2>3 DEF LinesLeft
    <2>4. CASE y_expansion = TRUE
      <3>1. LinesLeft = 2 * s - (IF InversionDue THEN Half(~exp_flop) ELSE Half(exp_flop))
        BY <1>6, <2>4 DEF LinesLeft
      <3>2. LinesLeft' = 2 * s - (IF InversionDue' THEN Half(~exp_flop') ELSE Half(exp_flop'))
        BY <1>3, <1>6, <2>1, <2>4 DEF LinesLeft
      <3>3. /\ InversionDue = (visit = 2 \/ model = "PAL")
            /\ InversionDue' = (visit = 2 /\ model = "PAL")
        BY <1>3, <1>6, <2>1 DEF InversionDue
      <3>4. (IF InversionDue THEN Half(~exp_flop) ELSE Half(exp_flop))
              = (IF InversionDue' THEN Half(~exp_flop') ELSE Half(exp_flop'))
        <4>1. CASE exp_flop = TRUE
          BY <1>2, <1>6, <2>2, <2>4, <3>3, <4>1 DEF Half
        <4>2. CASE exp_flop = FALSE
          BY <1>2, <1>6, <2>2, <2>4, <3>3, <4>2 DEF Half
        <4> QED BY <1>2, <4>1, <4>2
      <3>5. LinesLeft \in Int
        BY <1>1, <3>1 DEF Half
      <3> QED BY <1>1, <1>3, <2>1, <3>1, <3>2, <3>4, <3>5
    <2> QED BY <1>2, <2>3, <2>4
  <1>7. CASE visit = 4
    <2>0. lines + 0 = lines
      BY <1>1
    <2>1. /\ visit' = 5 /\ mc_base' = mc_base /\ exp_flop' = exp_flop /\ lines' = lines
          /\ late' = late /\ plain' = plain /\ height' = height
      <3>1. Continued(mc_base, mc_base, exp_flop, 0) /\ visit' = 5
        BY <1>7 DEF Turned
      <3> QED BY <1>2, <2>0, <3>1 DEF Continued
    <2>2. LinesLeft' = LinesLeft
      BY <1>3, <1>7, <2>1 DEF LinesLeft, InversionDue
    <2>3. LinesLeft = IF y_expansion THEN 2 * s - (IF exp_flop THEN 1 ELSE 0) ELSE s
      BY <1>7 DEF LinesLeft, InversionDue, Half
    <2> HIDE DEF s
    <2> QED BY <1>1, <1>3, <2>1, <2>2, <2>3
  <1> QED BY <1>1, <1>4, <1>5, <1>6, <1>7

LEMMA SumBegins ==
  ASSUME SpriteInv, Turned, dma = FALSE, dma' = TRUE
  PROVE  /\ lines' + LinesLeft' = Lines' /\ height' = 0 /\ y_expansion' = y_expansion
  <1>1. /\ visit \in 1..5 /\ StepsFrom(0) = 21
        /\ y_expansion \in {TRUE, FALSE} /\ model \in {"PAL", "NTSC"}
    BY StepsOf DEF SpriteInv, SpriteTypes, SpriteNumbers, SpriteBits
  <1>2. /\ visit \in {2, 3} /\ visit' = visit + 1
        /\ mc_base' = 0 /\ lines' = 0 /\ height' = 0
        /\ late' = (visit = 3 /\ model = "NTSC")
        /\ exp_flop' = (((visit = 2) = (model = "NTSC")) => ~y_expansion)
        /\ model' = model /\ y_expansion' = y_expansion
    <2>1. ASSUME NEW base, NEW counter, NEW flop, NEW more PROVE ~Continued(base, counter, flop, more)
      BY DEF Continued
    <2>2. ~Ended
      BY DEF Ended
    <2>3. visit \in {2, 3} /\ Kept /\ visit' = visit + 1
      BY <1>1, <2>1, <2>2 DEF Turned
    <2>4. CASE visit = 2
      <3>1. Begun((model = "NTSC" => ~y_expansion), FALSE)
        BY <2>1, <2>4 DEF Turned
      <3>2. exp_flop' = (model = "NTSC" => ~y_expansion)
        BY <3>1 DEF Begun
      <3>3. /\ mc_base' = 0 /\ lines' = 0 /\ height' = 0 /\ late' = FALSE
            /\ model' = model /\ y_expansion' = y_expansion
        BY <2>3, <3>1 DEF Begun, Kept
      <3>4. late' = (visit = 3 /\ model = "NTSC")
        <4>1. (visit = 3 /\ model = "NTSC") = FALSE
          BY <2>4
        <4> QED BY ONLY <3>3, <4>1
      <3>5. exp_flop' = (((visit = 2) = (model = "NTSC")) => ~y_expansion)
        BY ONLY <1>1, <2>4, <3>2
      <3> QED BY <2>3, <2>4, <3>3, <3>4, <3>5
    <2>5. CASE visit = 3
      <3>1. Begun((model = "PAL" => ~y_expansion), model = "NTSC")
        BY <2>1, <2>5 DEF Turned
      <3>2. exp_flop' = (model = "PAL" => ~y_expansion)
        BY <3>1 DEF Begun
      <3> QED BY <1>1, <2>3, <2>5, <3>1, <3>2 DEF Begun, Kept
    <2> QED BY <2>3, <2>4, <2>5
  <1>3. CASE y_expansion = FALSE
    BY <1>1, <1>2, <1>3 DEF LinesLeft, Lines
  <1>4. CASE y_expansion = TRUE
    <2>1. LinesLeft' = 42 - (IF InversionDue' THEN Half(~exp_flop') ELSE Half(exp_flop'))
      BY <1>1, <1>2, <1>4 DEF LinesLeft
    <2>2. InversionDue' <=> (visit = 2 /\ model = "PAL")
      BY <1>2 DEF InversionDue
    <2>3. Lines' = IF visit = 3 /\ model = "NTSC" THEN 41 ELSE 42
      BY <1>2, <1>4 DEF Lines
    <2>4. (IF InversionDue' THEN Half(~exp_flop') ELSE Half(exp_flop'))
            = IF visit = 3 /\ model = "NTSC" THEN 1 ELSE 0
      <3>1. exp_flop' = ~((visit = 2) = (model = "NTSC"))
        BY <1>2, <1>4
      <3>2. CASE visit = 2
        <4>1. InversionDue' <=> model = "PAL"
          BY <1>1, <2>2, <3>2
        <4>2. exp_flop' = ~(model = "NTSC")
          BY <1>1, <3>1, <3>2
        <4>3. CASE model = "PAL"
          <5>1. InversionDue' /\ exp_flop' = TRUE
            BY <4>1, <4>2, <4>3
          <5> QED BY <3>2, <4>3, <5>1 DEF Half
        <4>4. CASE model = "NTSC"
          <5>1. ~InversionDue' /\ exp_flop' = FALSE
            BY <4>1, <4>2, <4>4
          <5> QED BY <3>2, <4>4, <5>1 DEF Half
        <4> QED BY <1>1, <4>3, <4>4
      <3>3. CASE visit = 3
        <4>1. ~InversionDue'
          BY ONLY <1>1, <2>2, <3>3
        <4>2. exp_flop' = (model = "NTSC")
          BY <1>1, <3>1, <3>3
        <4> QED BY <1>1, <3>3, <4>1, <4>2 DEF Half
      <3> QED BY <1>2, <3>2, <3>3
    <2> QED BY <1>2, <2>1, <2>3, <2>4
  <1> QED BY <1>1, <1>3, <1>4

LEMMA SumEnds ==
  ASSUME SpriteInv, Turned, dma = TRUE, dma' = FALSE
  PROVE  /\ height' = IF plain THEN Lines ELSE 0
         /\ late' = late /\ y_expansion' = y_expansion
  <1>1. /\ visit \in 1..5 /\ plain \in {TRUE, FALSE} /\ lines \in Nat
    BY DEF SpriteInv, SpriteTypes, SpriteNumbers, SpriteBits
  <1>2. /\ visit = 1 /\ exp_flop /\ mc = 63 /\ height' = (IF plain THEN lines ELSE 0)
        /\ late' = late /\ y_expansion' = y_expansion
    <2>1. ASSUME NEW base, NEW counter, NEW flop, NEW more PROVE ~Continued(base, counter, flop, more)
      BY DEF Continued
    <2>2. ASSUME NEW flop, NEW latest PROVE ~Begun(flop, latest)
      BY DEF Begun
    <2>3. visit = 1 /\ exp_flop /\ mc = 63 /\ Ended /\ Kept
      BY <1>1, <2>1, <2>2 DEF Turned
    <2> QED BY <2>3 DEF Ended, Kept
  <1>3. LinesLeft = 0
    BY <1>2, StepsOf DEF LinesLeft
  <1>4. plain => lines = Lines
    BY <1>1, <1>3 DEF SpriteInv
  <1> QED BY <1>1, <1>2, <1>4

LEMMA VisitKept ==
  ASSUME SpriteInv, Sprite!Visit, model' = model
  PROVE  SpriteInv'
  <1>1. SpriteTypes /\ Turned
    BY Visiting DEF SpriteInv
  <1>2. /\ mc_base \in 0..63 /\ mc \in 0..63 /\ lines \in Nat /\ height \in Nat
        /\ enable \in BOOLEAN
        /\ y_expansion \in BOOLEAN /\ exp_flop \in BOOLEAN /\ dma \in BOOLEAN
        /\ plain \in BOOLEAN /\ late \in BOOLEAN /\ model \in {"PAL", "NTSC"} /\ visit \in 1..5
        /\ (mc + 3) % 64 \in 0..63
    BY <1>1, StepsOf DEF SpriteTypes, SpriteBits, SpriteNumbers
  <1>3. /\ ~y_expansion => exp_flop
        /\ visit = 5 => mc = mc_base
        /\ dma => lines + LinesLeft <= (IF y_expansion THEN 128 ELSE 64)
        /\ dma /\ plain => lines + LinesLeft = Lines
        /\ height # 0 => height = Lines
    BY DEF SpriteInv, Lines, Sprite!SpriteHeight
  <1> SUFFICES /\ SpriteBits' /\ SpriteNumbers'
               /\ (~y_expansion => exp_flop)' /\ (visit = 5 => mc = mc_base)'
               /\ dma = FALSE /\ dma' = FALSE =>
                    height' = height /\ late' = late /\ y_expansion' = y_expansion
    <2>1. ASSUME /\ SpriteBits' /\ SpriteNumbers'
                 /\ (~y_expansion => exp_flop)' /\ (visit = 5 => mc = mc_base)'
                 /\ dma = FALSE /\ dma' = FALSE =>
                      height' = height /\ late' = late /\ y_expansion' = y_expansion
          PROVE  SpriteInv'
      <3>1. dma \in {TRUE, FALSE} /\ dma' \in {TRUE, FALSE} /\ plain \in {TRUE, FALSE}
        BY <1>2, <2>1 DEF SpriteBits
      <3>2. /\ (dma => lines + LinesLeft <= (IF y_expansion THEN 128 ELSE 64))'
            /\ (dma /\ plain => lines + LinesLeft = Lines)'
            /\ (height # 0 => height = Lines)'
        <4>1. CASE dma = TRUE /\ dma' = TRUE
          <5>1. Lines' = Lines
            BY <1>1, <4>1, SumKept DEF Lines
          <5> QED BY <1>1, <1>3, <3>1, <4>1, <5>1, SumKept
        <4>2. CASE dma = FALSE /\ dma' = TRUE
          <5>1. /\ lines' + LinesLeft' = Lines' /\ height' = 0 /\ y_expansion' = y_expansion
            BY <1>1, <4>2, SumBegins
          <5>2. Lines' \in {21, 41, 42} /\ (y_expansion' = FALSE => Lines' = 21)
            BY DEF Lines
          <5>3. Lines' <= IF y_expansion' THEN 128 ELSE 64
            BY <1>2, <5>1, <5>2
          <5> QED BY <5>1, <5>3
        <4>3. CASE dma = TRUE /\ dma' = FALSE
          <5>1. Lines' = Lines
            <6>1. late' = late /\ y_expansion' = y_expansion
              BY <1>1, <4>3, SumEnds
            <6> QED BY <6>1 DEF Lines
          <5> QED BY <1>1, <3>1, <4>3, <5>1, SumEnds
        <4>4. CASE dma = FALSE /\ dma' = FALSE
          <5>1. Lines' = Lines
            BY <2>1, <4>4 DEF Lines
          <5> QED BY <1>3, <2>1, <4>4, <5>1
        <4> QED BY <3>1, <4>1, <4>2, <4>3, <4>4
      <3> QED BY <2>1, <3>2 DEF SpriteInv, SpriteTypes, Lines, Sprite!SpriteHeight
    <2> QED BY <2>1
  <1>4. CASE visit = 5
    <2>1. SpriteBits'
      BY ONLY <1>1, <1>2, <1>4 DEF SpriteBits, Turned, Kept, Continued
    <2>2. SpriteNumbers'
      BY ONLY <1>1, <1>2, <1>4 DEF SpriteNumbers, Turned, Kept, Continued
    <2>3. /\ (~y_expansion => exp_flop)'
          /\ (visit = 5 => mc = mc_base)'
      BY ONLY <1>1, <1>2, <1>3, <1>4 DEF Turned, Kept, Continued
    <2>4. dma = FALSE /\ dma' = FALSE => height' = height /\ late' = late /\ y_expansion' = y_expansion
      BY ONLY <1>1, <1>2, <1>4 DEF Turned, Kept, Continued
    <2> QED BY <2>1, <2>2, <2>3, <2>4
  <1>5. CASE visit = 1
    <2>1. SpriteBits'
      BY ONLY <1>1, <1>2, <1>5 DEF SpriteBits, Turned, Kept, Continued, Ended
    <2>2. SpriteNumbers'
      BY ONLY <1>1, <1>2, <1>5 DEF SpriteNumbers, Turned, Kept, Continued, Ended
    <2>3. /\ (~y_expansion => exp_flop)'
          /\ (visit = 5 => mc = mc_base)'
      BY ONLY <1>1, <1>2, <1>3, <1>5 DEF Turned, Kept, Continued, Ended
    <2>4. dma = FALSE /\ dma' = FALSE => height' = height /\ late' = late /\ y_expansion' = y_expansion
      BY ONLY <1>1, <1>2, <1>5 DEF Turned, Kept, Continued, Ended
    <2> QED BY <2>1, <2>2, <2>3, <2>4
  <1>6. CASE visit = 2
    <2>1. SpriteBits'
      BY ONLY <1>1, <1>2, <1>6 DEF SpriteBits, Turned, Kept, Continued, Begun, Inverted
    <2>2. SpriteNumbers'
      BY ONLY <1>1, <1>2, <1>6 DEF SpriteNumbers, Turned, Kept, Continued, Begun, Inverted
    <2>3. /\ (~y_expansion => exp_flop)'
          /\ (visit = 5 => mc = mc_base)'
      BY ONLY <1>1, <1>2, <1>3, <1>6 DEF Turned, Kept, Continued, Begun, Inverted
    <2>4. dma = FALSE /\ dma' = FALSE => height' = height /\ late' = late /\ y_expansion' = y_expansion
      BY ONLY <1>1, <1>2, <1>6 DEF Turned, Kept, Continued, Begun, Inverted
    <2> QED BY <2>1, <2>2, <2>3, <2>4
  <1>7. CASE visit = 3
    <2>1. SpriteBits'
      BY ONLY <1>1, <1>2, <1>7 DEF SpriteBits, Turned, Kept, Continued, Begun, Inverted
    <2>2. SpriteNumbers'
      BY ONLY <1>1, <1>2, <1>7 DEF SpriteNumbers, Turned, Kept, Continued, Begun, Inverted
    <2>3. /\ (~y_expansion => exp_flop)'
          /\ (visit = 5 => mc = mc_base)'
      BY ONLY <1>1, <1>2, <1>3, <1>7 DEF Turned, Kept, Continued, Begun, Inverted
    <2>4. dma = FALSE /\ dma' = FALSE => height' = height /\ late' = late /\ y_expansion' = y_expansion
      BY ONLY <1>1, <1>2, <1>7 DEF Turned, Kept, Continued, Begun, Inverted
    <2> QED BY <2>1, <2>2, <2>3, <2>4
  <1>8. CASE visit = 4
    <2>1. SpriteBits'
      BY ONLY <1>1, <1>2, <1>8 DEF SpriteBits, Turned, Kept, Continued
    <2>2. SpriteNumbers'
      BY ONLY <1>1, <1>2, <1>8 DEF SpriteNumbers, Turned, Kept, Continued
    <2>3. /\ (~y_expansion => exp_flop)'
          /\ (visit = 5 => mc = mc_base)'
      BY ONLY <1>1, <1>2, <1>3, <1>8 DEF Turned, Kept, Continued
    <2>4. dma = FALSE /\ dma' = FALSE => height' = height /\ late' = late /\ y_expansion' = y_expansion
      BY ONLY <1>1, <1>2, <1>8 DEF Turned, Kept, Continued
    <2> QED BY <2>1, <2>2, <2>3, <2>4
  <1>9. visit = 5 \/ visit = 1 \/ visit = 2 \/ visit = 3 \/ visit = 4
    BY <1>2
  <1> QED BY ONLY <1>4, <1>5, <1>6, <1>7, <1>8, <1>9

LEMMA LineCrunchKept ==
  ASSUME SpriteInv, NEW data \in BOOLEAN, Sprite!LineCrunch(data), model' = model
  PROVE  SpriteInv'
  <1>1. /\ y_expansion' = data /\ exp_flop' = (exp_flop \/ (~data /\ ~exp_flop))
        /\ mc' \in {mc, Sprite!Crunched(mc_base, mc)} /\ (visit = 5 => mc' = mc)
        /\ lines' = 0 /\ plain' = FALSE /\ late' = FALSE /\ height' = 0
        /\ visit' = visit /\ enable' = enable /\ dma' = dma /\ mc_base' = mc_base
    BY DEF Sprite!LineCrunch, Sprite!Visits
  <1>2. mc' \in 0..63 /\ (visit = 5 => mc' = mc_base)
    BY <1>1, CrunchedFits DEF SpriteInv, SpriteTypes, SpriteBits, SpriteNumbers
  <1>3. SpriteTypes'
    BY <1>1, <1>2 DEF SpriteInv, SpriteTypes, SpriteBits, SpriteNumbers
  <1>4. /\ Steps(mc') \in 0..63 /\ StepsFrom(mc_base) \in 1..64
    BY <1>2, StepsOf DEF SpriteInv, SpriteTypes, SpriteBits, SpriteNumbers
  <1>5. LinesLeft' <= IF data THEN 128 ELSE 64
    BY <1>1, <1>4 DEF LinesLeft, Half
  <1>6. LinesLeft' \in Int
    BY <1>1, <1>4 DEF LinesLeft, Half
  <1>7. ~y_expansion => exp_flop
    BY DEF SpriteInv
  <1>8. (~y_expansion => exp_flop)'
    BY <1>1, <1>7
  <1>9. /\ (visit = 5 => mc = mc_base)'
        /\ (dma => lines + LinesLeft <= (IF y_expansion THEN 128 ELSE 64))'
        /\ (dma /\ plain => lines + LinesLeft = Lines)'
        /\ (Sprite!SpriteHeight)'
    <2>1. (dma => lines + LinesLeft <= (IF y_expansion THEN 128 ELSE 64))'
      <3>1. ASSUME NEW k \in Int, NEW n \in Int, k <= n PROVE 0 + k <= n
        BY <3>1
      <3>2. LinesLeft' <= IF y_expansion' THEN 128 ELSE 64
        BY <1>1, <1>5
      <3>3. lines' = 0 /\ (IF y_expansion' THEN 128 ELSE 64) \in Int
        BY <1>1
      <3> QED BY ONLY <1>6, <3>1, <3>2, <3>3
    <2> QED BY <1>1, <1>2, <2>1 DEF Sprite!SpriteHeight
  <1> QED BY <1>3, <1>8, <1>9 DEF SpriteInv

LEMMA SpriteInduction ==
  ASSUME SpriteInv, [VideoNext]_<<vars, sprite>>
  PROVE  SpriteInv'
  <1>1. CASE UNCHANGED sprite
    BY <1>1 DEF sprite, SpriteInv, SpriteTypes, SpriteBits, SpriteNumbers, LinesLeft, Lines, InversionDue, Sprite!SpriteHeight
  <1>2. CASE Sprite!Next
    <2>1. model' = model
      BY <1>2 DEF Sprite!Next
    <2>2. CASE Sprite!Enable
      BY <2>1, <2>2 DEF Sprite!Enable, SpriteInv, SpriteTypes, SpriteBits, SpriteNumbers, LinesLeft, Lines, InversionDue,
                        Sprite!SpriteHeight
    <2> QED BY <1>2, <2>1, <2>2, VisitKept, LineCrunchKept DEF Sprite!Next
  <1> QED BY <1>1, <1>2 DEF VideoNext

\* A sprite that wants its data fetches the lines it has left and no more, and
\* they are those of its height if no register was written since it began.
THEOREM SpriteInvariance == VideoSpec => []SpriteInv
  <1>1. VideoInit => SpriteInv
    <2>1. Sprite!Init => SpriteTypes
      <3>1. Sprite!Init => SpriteBits
        BY DEF Sprite!Init, SpriteBits
      <3>2. Sprite!Init => SpriteNumbers
        BY DEF Sprite!Init, SpriteNumbers
      <3> QED BY <3>1, <3>2 DEF SpriteTypes
    <2>2. Sprite!Init => exp_flop /\ ~dma /\ mc = mc_base /\ height = 0
      BY DEF Sprite!Init
    <2> QED BY <2>1, <2>2 DEF VideoInit, SpriteInv, Sprite!SpriteHeight
  <1>2. SpriteInv /\ [VideoNext]_<<vars, sprite>> => SpriteInv'
    BY SpriteInduction
  <1> QED BY <1>1, <1>2, PTL DEF VideoSpec

\* A sprite whose registers are left alone is 21 lines high, or 42 when expanded,
\* one less for an NTSC chip that noticed it late (SpriteHeight).
THEOREM SpriteHeightCorrect == VideoSpec => []SpriteHeight
  <1>1. SpriteInv => SpriteHeight
    BY DEF SpriteInv, SpriteHeight
  <1> QED BY <1>1, SpriteInvariance, PTL

\* Whatever a program crunches, a sprite's fetching ends within 64 lines of the
\* last write, 128 if it is expanded (FetchingEnds).
THEOREM FetchingEndsCorrect == VideoSpec => []FetchingEnds
  <1>1. SpriteInv => FetchingEnds
    <2>1. SpriteInv => Steps(mc) \in 0..63 /\ StepsFrom(mc_base) \in 1..64
      BY StepsOf DEF SpriteInv, SpriteTypes, SpriteBits, SpriteNumbers
    <2>2. SpriteInv => LinesLeft \in Nat
      BY <2>1 DEF LinesLeft, Half, SpriteInv, SpriteTypes, SpriteBits, SpriteNumbers
    <2> QED BY <2>2 DEF SpriteInv, SpriteTypes, SpriteBits, SpriteNumbers, FetchingEnds, Sprite!FetchingEnds
  <1> QED BY <1>1, SpriteInvariance, PTL
=============================================================================

------------------------------ MODULE Sprites ------------------------------
(***************************************************************************)
(* One of the VIC's sprites (src/c64/VIC_II/sprites.h): when its data is   *)
(* fetched, which of its bytes come next and how it is expanded. The code  *)
(* keeps the eight sprites in bit masks and treats each alike; here is one *)
(* of them. The chip visits it in five cycles of a raster line, between    *)
(* which a program may write its registers.                                *)
(***************************************************************************)
EXTENDS Integers

CONSTANT Models  \* of "PAL" and "NTSC", those that are built in

VARIABLE Model

(* The cycles of a line in which the sprite is visited, in order. (The last *)
(* one is 57 in the old NTSC chip, which changes nothing here.)            *)
Visits == IF Model = "PAL" THEN <<14, 15, 54, 55, 57>> ELSE <<14, 15, 55, 56, 58>>

VARIABLES
  visit,         \* the last visit, as an index of Visits
  enable, y_expansion,
  exp_flop, dma, mc_base, mc,
  lines,         \* lines fetched since the DMA began or a register was written
  plain, late,   \* no register was written since; the DMA began after checkExp
  height         \* the lines of the last sprite that was fetched undisturbed

regs == <<enable, y_expansion>>
vars == <<Model, visit, enable, y_expansion, exp_flop, dma, mc_base, mc, lines, plain, late, height>>

Init ==
  /\ Model \in Models
  /\ visit = 5
  /\ enable = FALSE /\ y_expansion = FALSE
  /\ exp_flop = TRUE /\ dma = FALSE
  /\ mc_base = 0 /\ mc = 0
  /\ lines = 0 /\ plain = FALSE /\ late = FALSE /\ height = 0

(* What a visit does to exp_flop, dma, mc_base and mc.                     *)
UpdateMcUnwrapped(s) == IF s.dma THEN [s EXCEPT !.mc = @ + 3] ELSE s  \* as if it had no width
UpdateMc(s) == IF s.dma THEN [s EXCEPT !.mc = (@ + 3) % 64] ELSE s

UpdateMcBaseAlways(s) ==  \* as if the expansion did not repeat lines
  [s EXCEPT !.base = s.mc, !.dma = @ /\ s.mc # 63]
UpdateMcBase(s) == IF s.exp THEN [s EXCEPT !.base = s.mc, !.dma = @ /\ s.mc # 63] ELSE s

CheckDma(s, match) ==
  IF enable /\ match /\ ~s.dma
  THEN [s EXCEPT !.dma = TRUE, !.base = 0, !.exp = TRUE] ELSE s
CheckExp(s) == [s EXCEPT !.exp = (@ # (s.dma /\ y_expansion))]
CheckDisplay(s) == [s EXCEPT !.mc = s.base]

Sprite == [exp |-> exp_flop, dma |-> dma, base |-> mc_base, mc |-> mc]

Visited(n, s, match) ==
  CASE n = 1 -> UpdateMc(s)
    [] n = 2 -> UpdateMcBase(s)
    [] n = 3 -> IF Model = "PAL" THEN CheckDma(s, match) ELSE CheckExp(CheckDma(s, match))
    [] n = 4 -> IF Model = "PAL" THEN CheckExp(CheckDma(s, match)) ELSE CheckDma(s, match)
    [] n = 5 -> CheckDisplay(s)

(* The sprite's Y register may equal the line, or be made to, at either    *)
(* check.                                                                  *)
Visit ==
  LET n == (visit % 5) + 1
  IN  \E match \in BOOLEAN :
        LET s      == Visited(n, Sprite, match)
            begins == s.dma /\ ~dma
            ends   == dma /\ ~s.dma
        IN  /\ match => n \in {3, 4}
            /\ visit' = n
            /\ exp_flop' = s.exp /\ dma' = s.dma /\ mc_base' = s.base /\ mc' = s.mc
            /\ lines' = IF begins \/ ~s.dma THEN 0 ELSE IF n = 1 THEN lines + 1 ELSE lines
            /\ plain' = (begins \/ (plain /\ s.dma))
            /\ late' = IF begins THEN n = 4 /\ Model # "PAL" ELSE late
            /\ height' = IF ends THEN (IF plain THEN lines ELSE 0)
                         ELSE IF begins THEN 0 ELSE height
  /\ UNCHANGED regs

Enable ==
  /\ enable' = ~enable
  /\ UNCHANGED <<visit, y_expansion, exp_flop, dma, mc_base, mc, lines, plain, late, height>>

(* Taking the expansion away in cycle 14 of a line that is to be repeated  *)
(* mixes the bits of the two counters: of bits 5, 3 and 1 both must be     *)
(* set, of bits 4, 2 and 0 one is enough.                                  *)
HasBit(n, weight) == (n \div weight) % 2 = 1
Both(m, n, weight) == IF HasBit(m, weight) /\ HasBit(n, weight) THEN weight ELSE 0
Either(m, n, weight) == IF HasBit(m, weight) \/ HasBit(n, weight) THEN weight ELSE 0
Crunched(m, n) ==
  Both(m, n, 32) + Either(m, n, 16) + Both(m, n, 8) + Either(m, n, 4) + Both(m, n, 2) + Either(m, n, 1)

(* A write to register $d017, whose bit for the sprite becomes "data".     *)
LineCrunch(data) ==
  LET crunched == ~data /\ ~exp_flop
  IN  /\ y_expansion' = data
      /\ exp_flop' = (exp_flop \/ crunched)
      /\ mc' = IF crunched /\ Visits[visit] = 14 THEN Crunched(mc_base, mc) ELSE mc
      /\ lines' = 0 /\ plain' = FALSE /\ late' = FALSE /\ height' = 0
      /\ UNCHANGED <<visit, enable, dma, mc_base>>

Next == (Visit \/ Enable \/ \E data \in BOOLEAN : LineCrunch(data)) /\ UNCHANGED Model

Spec == Init /\ [][Next]_vars

-----------------------------------------------------------------------------
(* The counters have six bits.                                             *)
TypeOK ==
  /\ Model \in Models
  /\ visit \in 1..5
  /\ {enable, y_expansion, exp_flop, dma, plain, late} \subseteq BOOLEAN
  /\ mc_base \in 0..63 /\ mc \in 0..63

(* A sprite whose registers are left alone is 21 lines high, or 42 when    *)
(* expanded; one line less for an NTSC chip that noticed it only after     *)
(* expansion was decided.                                                  *)
SpriteHeight == height # 0 => height = IF ~y_expansion THEN 21 ELSE IF late THEN 41 ELSE 42

(* Whatever a program crunches, the fetching ends within 64 lines, 128     *)
(* expanded, of its last write: the counter, in steps of 3 modulo 64,      *)
(* cannot miss 63.                                                         *)
FetchingEnds == dma => lines <= IF y_expansion THEN 128 ELSE 64
=============================================================================

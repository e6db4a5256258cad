-------------------------------- MODULE Mmu --------------------------------
(***************************************************************************)
(* The memory as the CPU sees it (src/c64/mmu.cpp, Banks/ZeroRAMBank.h):   *)
(* the processor port at addresses 0 and 1 and the map of 4k blocks that   *)
(* follows from it. The port's bits are names; "UNUSED" is one of the two  *)
(* that are not connected and hold their charge for a while when they are  *)
(* turned from outputs into inputs. The cassette's bits are left out.      *)
(***************************************************************************)
EXTENDS Integers

CONSTANT FALL_OFF     \* cycles that an unused bit holds its charge

ASSUME FallOffAssumption == FALL_OFF \in Nat

Bank == {"LORAM", "HIRAM", "CHAREN"}
Bit == Bank \union {"UNUSED"}

(* The registers, the bank bits as the map was last made from, and the     *)
(* capacitor: its value, whether it is discharging and the cycles to       *)
(* dataSetClk, -1 once that has passed.                                    *)
Port ==
  [dir : SUBSET Bit, data : SUBSET Bit, pla : SUBSET Bank,
   charged : BOOLEAN, isFallingOff : BOOLEAN, left : -1..FALL_OFF]

-----------------------------------------------------------------------------
(* updateMappingPHI2(): what the CPU reads from a block, and where its     *)
(* writes go.                                                              *)

HasIO(pla) == "CHAREN" \in pla /\ pla \intersect {"LORAM", "HIRAM"} # {}

ReadMap(pla, block) ==
  CASE block = 0 -> "ZERO"
    [] block \in {14, 15} /\ "HIRAM" \in pla -> "KERNAL"
    [] block \in {10, 11} /\ {"LORAM", "HIRAM"} \subseteq pla -> "BASIC"
    [] block = 13 /\ HasIO(pla) -> "IO"
    [] block = 13 /\ "CHAREN" \notin pla /\ pla # {} -> "CHARACTER"
    [] OTHER -> "RAM"

-----------------------------------------------------------------------------
(* ZeroRAMBank.                                                            *)

UpdateCpuPort(p) == [p EXCEPT !.pla = (p.data \union (Bit \ p.dir)) \intersect Bank]

Charge(p, value) ==
  [p EXCEPT !.charged = "UNUSED" \in value, !.isFallingOff = TRUE, !.left = FALL_OFF]

Discharged(p) == p.isFallingOff /\ p.left < 0

(* peek(1): the value, and what reading it leaves behind.                  *)
DataRead(p) ==
  ((p.data \intersect Bank) \union (Bank \ p.dir)) \union
    {b \in {"UNUSED"} : IF b \in p.dir THEN b \in p.data ELSE p.charged /\ ~Discharged(p)}
Peeked(p) ==
  IF "UNUSED" \notin p.dir /\ Discharged(p)
  THEN [p EXCEPT !.charged = FALSE, !.isFallingOff = FALSE] ELSE p

PokeDirUncharged(p, value) ==   \* as if no charge were left on a bit that becomes an input
  IF value = p.dir THEN p ELSE UpdateCpuPort([p EXCEPT !.dir = value])
PokeDir(p, value) ==
  IF value = p.dir THEN p
  ELSE LET c == IF "UNUSED" \in p.dir \ value THEN Charge(p, p.data) ELSE p
       IN  UpdateCpuPort([c EXCEPT !.dir = value])

PokeData(p, value) ==
  LET c == IF "UNUSED" \in p.dir THEN Charge(p, value) ELSE p
  IN  IF value = p.data THEN c ELSE UpdateCpuPort([c EXCEPT !.data = value])

Tick(p) == IF p.left < 0 THEN p ELSE [p EXCEPT !.left = @ - 1]

(* MMU::reset() maps nothing, whatever the port says; the CPU's reset,     *)
(* which writes the port, is to follow.                                    *)
ResetPort ==
  [dir |-> {}, data |-> Bank, pla |-> {}, charged |-> FALSE, isFallingOff |-> FALSE, left |-> -1]

ResetCpu(p) == PokeData(PokeDir(p, Bank), Bank)
=============================================================================

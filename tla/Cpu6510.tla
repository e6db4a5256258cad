--------------------------------- MODULE Cpu6510 ---------------------------------
(***************************************************************************)
(* The instructions of the CPU, cycle by cycle (src/c64/CPU/mos6510.cpp),  *)
(* with the bus taken from it in any cycle and interrupts between          *)
(* instructions.  When an interrupt is recognised is the matter of         *)
(* CpuInterrupt; here one may follow any instruction that leaves           *)
(* interrupts enabled.  RST is never signalled by the library.             *)
(*                                                                         *)
(* c is the MOS6510 object, as a record: its registers, flags and signals, *)
(* EA, Ptr and Data for Cycle_EffectiveAddress, Cycle_Pointer and          *)
(* Cycle_Data, instr and cycle for the two parts of cycleCount.  Three     *)
(* more fields are its environment: mem, the memory that differs from a    *)
(* background made from seed, and bus, the writes of the instruction.      *)
(***************************************************************************)
EXTENDS Opcodes, FiniteSets

CONSTANTS
  Codes,       \* the opcodes that may be executed
  Starts,      \* addresses of the instruction
  Accumulators, Indexes, Statuses, \* values of A, of <<X, Y>> and of the flags
  Operands, Seeds                  \* operand bytes, and backgrounds

Byte == 0 .. 255
ASSUME CodesAssumption == Codes \subseteq Byte
ASSUME InputAssumption ==
  /\ Starts \subseteq Nat /\ \A at \in Starts : at + 2 < 65536
  /\ Accumulators \cup Statuses \cup Seeds \subseteq Byte
  /\ Indexes \cup Operands \subseteq Byte \X Byte

VARIABLES
  cpu,       \* the MOS6510 object and the bus
  start,     \* cpu when the instruction began
  time,      \* cycles since then, stolen ones left out
  stolen,    \* cycles of the instruction in which an SH* instruction waited for the bus
  signalled, \* an NMI came during the interrupt sequence
  count      \* opcodes fetched since Init or the last reset, up to 1
vars == <<cpu, start, time, stolen, signalled, count>>

-----------------------------------------------------------------------------
(* Bytes as numbers from 0 to 255: their bits and the bitwise operators of *)
(* C++ on them.  A table over pairs of nibbles is computed once.           *)

\* Bit n of v; a negative v stands for its two's complement.
Bit(v, n) == (v \div 2 ^ n) % 2 = 1

AsInt(b) == IF b THEN 1 ELSE 0

NibbleAnd ==
  [a \in 0 .. 15 |-> [b \in 0 .. 15 |->
     AsInt(Bit(a, 0) /\ Bit(b, 0)) + 2 * AsInt(Bit(a, 1) /\ Bit(b, 1))
       + 4 * AsInt(Bit(a, 2) /\ Bit(b, 2)) + 8 * AsInt(Bit(a, 3) /\ Bit(b, 3))]]

And(a, b) == 16 * NibbleAnd[a \div 16][b \div 16] + NibbleAnd[a % 16][b % 16]

Or(a, b) == a + b - And(a, b)

Xor(a, b) == a + b - 2 * And(a, b)

Lo(w) == w % 256
Hi(w) == w \div 256

-----------------------------------------------------------------------------
(* The bus.                                                                *)

Background(seed, a) == (Lo(a) + Hi(a) + seed) % 256

cpuRead(c, a) == IF a \in DOMAIN c.mem THEN c.mem[a] ELSE Background(c.seed, a)

cpuWrite(c, a, v) ==
  [c EXCEPT !.mem = [x \in DOMAIN @ \cup {a} |-> IF x = a THEN v ELSE @[x]], !.bus = Append(@, <<a, v>>)]

IncPC(c) == [c EXCEPT !.PC = (@ + 1) % 65536]

-----------------------------------------------------------------------------
(* Flags (src/c64/CPU/flags.h).                                            *)

setNZ(c, v) == [c EXCEPT !.Z = Lo(v) = 0, !.N = Bit(v, 7)]

StatusOf(c) ==
  AsInt(c.C) + 2 * AsInt(c.Z) + 4 * AsInt(c.I) + 8 * AsInt(c.D) + 64 * AsInt(c.V) + 128 * AsInt(c.N)

SetStatus(c, sr) ==
  [c EXCEPT !.C = Bit(sr, 0), !.Z = Bit(sr, 1), !.I = Bit(sr, 2),
            !.D = Bit(sr, 3), !.V = Bit(sr, 6), !.N = Bit(sr, 7)]

-----------------------------------------------------------------------------
(* The ends of an instruction: the cycle also fetches the next opcode, or  *)
(* enters an interrupt. What comes next is chosen by the action.           *)

\* interruptsAndNextOpcode().
Done(c) == [c EXCEPT !.ends = "interrupts"]

\* fetchNextOpcode(), apart from the recognition of interrupts.
fetchNextOpcode(c) ==
  [IncPC(c) EXCEPT !.rdyOnThrowAwayRead = FALSE, !.instr = cpuRead(c, c.PC), !.cycle = 0, !.ends = "no"]

EnterInterrupt(c) == [c EXCEPT !.instr = BRKn, !.cycle = 0, !.d1x1 = TRUE, !.ends = "no"]

-----------------------------------------------------------------------------
(* Addressing.                                                             *)

throwAwayRead(c) == IF c.adl_carry THEN [c EXCEPT !.EA = (@ + 256) % 65536] ELSE c

FetchDataByte(c) ==
  LET d == [c EXCEPT !.Data = cpuRead(c, c.PC)] IN IF c.d1x1 THEN d ELSE IncPC(d)

FetchLowAddr(c) == IncPC([c EXCEPT !.EA = cpuRead(c, c.PC)])

\* FetchLowAddrX() and FetchLowAddrY().
FetchLowAddrIndexed(c, index) == [FetchLowAddr(c) EXCEPT !.EA = Lo(@ + index)]

FetchHighAddr(c) == IncPC([c EXCEPT !.EA = 256 * cpuRead(c, c.PC) + Lo(@)])

\* FetchHighAddrX() and FetchHighAddrY().
FetchHighAddrIndexed(c, index) ==
  FetchHighAddr([c EXCEPT !.EA = @ + index, !.adl_carry = c.EA + index > 255])

\* The correction of the address is skipped when there is no carry.
Skip(c) == IF c.adl_carry THEN c ELSE [c EXCEPT !.cycle = @ + 1]

FetchLowPointer(c) == IncPC([c EXCEPT !.Ptr = cpuRead(c, c.PC)])

FetchLowPointerX(c) == [c EXCEPT !.Ptr = 256 * Hi(@) + Lo(@ + c.X)]

FetchHighPointer(c) == IncPC([c EXCEPT !.Ptr = 256 * cpuRead(c, c.PC) + Lo(@)])

FetchLowEffAddr(c) == [c EXCEPT !.EA = cpuRead(c, c.Ptr)]

\* A variant: the pointer's second byte is in the next page.
FetchHighEffAddrUnwrapped(c) ==
  LET next == (c.Ptr + 1) % 65536
  IN [c EXCEPT !.Ptr = next, !.EA = 256 * cpuRead(c, next) + Lo(@)]

FetchHighEffAddr(c) ==
  LET next == 256 * Hi(c.Ptr) + Lo(c.Ptr + 1)
  IN [c EXCEPT !.Ptr = next, !.EA = 256 * cpuRead(c, next) + Lo(@)]

FetchHighEffAddrY(c) ==
  FetchHighEffAddr([c EXCEPT !.EA = @ + c.Y, !.adl_carry = c.EA + c.Y > 255])

FetchEffAddrDataByte(c) == [c EXCEPT !.Data = cpuRead(c, c.EA)]

PutEffAddrDataByte(c) == cpuWrite(c, c.EA, c.Data)

-----------------------------------------------------------------------------
(* The stack.                                                              *)

Push(c, v) == [cpuWrite(c, 256 + c.S, v) EXCEPT !.S = Lo(@ - 1)]

\* Pop() moves the stack pointer and returns what Top reads.
Pop(c) == [c EXCEPT !.S = Lo(@ + 1)]
Top(c) == cpuRead(c, 256 + Lo(c.S + 1))

PushSR(c) == Push(c, StatusOf(c) + IF c.d1x1 THEN \h20 ELSE \h30)
PopSR(c) == SetStatus(Pop(c), Top(c))
PopLowPC(c) == [Pop(c) EXCEPT !.EA = 256 * Hi(@) + Top(c)]
PopHighPC(c) == [Pop(c) EXCEPT !.EA = 256 * Top(c) + Lo(@)]

brkPushLowPC(c) ==
  [Push(c, Lo(c.PC)) EXCEPT !.EA = IF c.nmiFlag THEN \hFFFA ELSE \hFFFE, !.nmiFlag = FALSE]

IRQLoRequest(c) == [c EXCEPT !.PC = 256 * Hi(@) + cpuRead(c, c.EA), !.d1x1 = FALSE]
IRQHiRequest(c) == [c EXCEPT !.PC = 256 * cpuRead(c, c.EA + 1) + Lo(@), !.I = TRUE]

rts_instr(c) == [c EXCEPT !.PC = (c.EA + 1) % 65536]

\* jmp_instr() and rti_instr().
jmp_instr(c) == Done([c EXCEPT !.PC = c.EA])

-----------------------------------------------------------------------------
(* Arithmetic.                                                             *)

doADC(c) ==
  LET A == c.A  s == c.Data  carry == AsInt(c.C)
      sum == A + s + carry
      low == (A % 16) + (s % 16) + carry
      lo == IF low > 9 THEN low + 6 ELSE low
      hi == 16 * (A \div 16 + s \div 16) + IF lo > 15 THEN 16 ELSE 0
      top == IF hi > \h90 THEN hi + \h60 ELSE hi
  IN IF c.D
     THEN [c EXCEPT !.Z = Lo(sum) = 0, !.N = Bit(hi, 7),
                    !.V = Bit(hi, 7) # Bit(A, 7) /\ Bit(A, 7) = Bit(s, 7),
                    !.C = top > 255, !.A = Lo(top) + (lo % 16)]
     ELSE [setNZ(c, sum) EXCEPT !.C = sum > 255,
                    !.V = Bit(sum, 7) # Bit(A, 7) /\ Bit(A, 7) = Bit(s, 7), !.A = Lo(sum)]

doSBC(c) ==
  LET A == c.A  s == c.Data  borrow == AsInt(~c.C)
      difference == A - s - borrow
      low == (A % 16) - (s % 16) - borrow
      lo == IF Bit(low, 4) THEN low - 6 ELSE low
      high == 16 * (A \div 16 - s \div 16) - IF Bit(low, 4) THEN 16 ELSE 0
      hi == IF Bit(high, 8) THEN high - \h60 ELSE high
  IN [setNZ(c, difference) EXCEPT
        !.C = difference >= 0,
        !.V = Bit(difference, 7) # Bit(A, 7) /\ Bit(A, 7) # Bit(s, 7),
        !.A = IF c.D THEN Lo(hi) + (lo % 16) ELSE Lo(difference)]

\* compare(), and the comparison of sbx_instr() and dcm_instr().
Compare(c, v) == [setNZ(c, v - c.Data) EXCEPT !.C = v >= c.Data]

\* The four shifts of v: the value and the new carry.
Shifted(op, v, carry) ==
  CASE op = "ASL" -> <<Lo(2 * v), Bit(v, 7)>>
    [] op = "LSR" -> <<v \div 2, Bit(v, 0)>>
    [] op = "ROL" -> <<Lo(2 * v) + AsInt(carry), Bit(v, 7)>>
    [] op = "ROR" -> <<v \div 2 + 128 * AsInt(carry), Bit(v, 0)>>

\* asla_instr(), lsra_instr(), rola_instr(), rora_instr().
ShiftAccumulator(c, op) ==
  LET s == Shifted(op, c.A, c.C)
  IN Done([setNZ(c, s[1]) EXCEPT !.A = s[1], !.C = s[2]])

\* asl_instr(), lsr_instr(), rol_instr(), ror_instr(): the old value is written first.
ShiftMemory(c, op) ==
  LET s == Shifted(op, c.Data, c.C)
  IN [setNZ(PutEffAddrDataByte(c), s[1]) EXCEPT !.Data = s[1], !.C = s[2]]

\* dec_instr() and inc_instr().
Step(c, by) ==
  LET v == Lo(c.Data + by) IN [setNZ(PutEffAddrDataByte(c), v) EXCEPT !.Data = v]

\* Loads and transfers to a register, with the flags.
Load(c, register, v) == [setNZ(c, v) EXCEPT ![register] = v]

-----------------------------------------------------------------------------
(* The operations, in the order of the source.                             *)

CommonOperation(f, c) ==
  CASE f = "CLD" -> Done([c EXCEPT !.D = FALSE])
    [] f = "CLI" -> Done([c EXCEPT !.I = FALSE])
    [] f \in {"JMP", "RTI"} -> jmp_instr(c)
    [] f = "PHA" -> Push(c, c.A)
    [] f = "RTS" -> rts_instr(c)
    [] f = "SED" -> Done([c EXCEPT !.D = TRUE])
    [] f = "SEI" -> Done([c EXCEPT !.I = TRUE])
    [] f = "STA" -> PutEffAddrDataByte([c EXCEPT !.Data = c.A])
    [] f = "STX" -> PutEffAddrDataByte([c EXCEPT !.Data = c.X])
    [] f = "STY" -> PutEffAddrDataByte([c EXCEPT !.Data = c.Y])
    [] f = "SAX" -> PutEffAddrDataByte([c EXCEPT !.Data = And(c.A, c.X)])

\* sh_instr(), for the value v.
sh_instr(c, v) ==
  LET high == Hi(c.EA)
      mask == IF c.adl_carry THEN high ELSE Lo(high + 1)
  IN PutEffAddrDataByte(
       [c EXCEPT !.EA = IF c.adl_carry THEN 256 * And(high, v) + Lo(@) ELSE @,
                 !.Data = IF c.rdyOnThrowAwayRead THEN v ELSE And(v, mask)])

UnstableStore(f, c) ==
  CASE f = "SHA" -> sh_instr(c, And(c.X, c.A))
    [] f = "SHY" -> sh_instr(c, c.Y)
    [] f = "SHX" -> sh_instr(c, c.X)
    [] f = "SHS" -> LET s == And(c.A, c.X) IN sh_instr([c EXCEPT !.S = s], s)

\* branch_instr(): a branch to another page takes one more cycle.
branch_instr(c, condition) ==
  LET low == Lo(c.PC) + c.Data
      crossed == (low > 255) # (c.Data > \h7F)
      target == 256 * Hi(c.PC) + Lo(low)
  IN IF ~condition THEN Done(c)
     ELSE Skip([c EXCEPT !.EA = target, !.PC = target, !.adl_carry = crossed])

fix_branch(c) == [c EXCEPT !.PC = (@ + IF c.Data < \h80 THEN \h0100 ELSE \hFF00) % 65536]

OperationAtoB(f, c) ==
  CASE f = "ADC" -> Done(doADC(c))
    [] f = "AND" -> Done(Load(c, "A", And(c.A, c.Data)))
    [] f = "ANE" -> Done(Load(c, "A", And(And(Or(c.A, \hEF), c.X), c.Data)))
    [] f = "ASL" -> ShiftMemory(c, "ASL")
    [] f = "ASLA" -> ShiftAccumulator(c, "ASL")
    [] f = "fix_branch" -> fix_branch(c)
    [] f = "BCC" -> branch_instr(c, ~c.C)
    [] f = "BCS" -> branch_instr(c, c.C)
    [] f = "BEQ" -> branch_instr(c, c.Z)
    [] f = "BIT" -> Done([c EXCEPT !.Z = And(c.A, c.Data) = 0, !.N = Bit(c.Data, 7), !.V = Bit(c.Data, 6)])
    [] f = "BMI" -> branch_instr(c, c.N)
    [] f = "BNE" -> branch_instr(c, ~c.Z)
    [] f = "BPL" -> branch_instr(c, ~c.N)
    [] f = "BVC" -> branch_instr(c, ~c.V)
    [] f = "BVS" -> branch_instr(c, c.V)

OperationCtoL(f, c) ==
  CASE f = "CLC" -> Done([c EXCEPT !.C = FALSE])
    [] f = "CLV" -> Done([c EXCEPT !.V = FALSE])
    [] f = "CMP" -> Done(Compare(c, c.A))
    [] f = "CPX" -> Done(Compare(c, c.X))
    [] f = "CPY" -> Done(Compare(c, c.Y))
    [] f = "DEC" -> Step(c, -1)
    [] f = "DEX" -> Done(Load(c, "X", Lo(c.X - 1)))
    [] f = "DEY" -> Done(Load(c, "Y", Lo(c.Y - 1)))
    [] f = "EOR" -> Done(Load(c, "A", Xor(c.A, c.Data)))
    [] f = "INC" -> Step(c, 1)
    [] f = "INX" -> Done(Load(c, "X", Lo(c.X + 1)))
    [] f = "INY" -> Done(Load(c, "Y", Lo(c.Y + 1)))
    [] f = "LDA" -> Done(Load(c, "A", c.Data))
    [] f = "LDX" -> Done(Load(c, "X", c.Data))
    [] f = "LDY" -> Done(Load(c, "Y", c.Data))
    [] f = "LSR" -> ShiftMemory(c, "LSR")
    [] f = "LSRA" -> ShiftAccumulator(c, "LSR")

OperationOtoT(f, c) ==
  CASE f = "ORA" -> Done(Load(c, "A", Or(c.A, c.Data)))
    [] f = "PLA" -> Load(Pop(c), "A", Top(c))
    [] f \in {"ROL", "ROR"} -> ShiftMemory(c, f)
    [] f = "ROLA" -> ShiftAccumulator(c, "ROL")
    [] f = "RORA" -> ShiftAccumulator(c, "ROR")
    [] f = "SBX" -> LET x == And(c.X, c.A)
                    IN Done([Compare(c, x) EXCEPT !.X = Lo(x - c.Data)])
    [] f = "SBC" -> Done(doSBC(c))
    [] f = "SEC" -> Done([c EXCEPT !.C = TRUE])
    [] f = "TAX" -> Done(Load(c, "X", c.A))
    [] f = "TAY" -> Done(Load(c, "Y", c.A))
    [] f = "TSX" -> Done(Load(c, "X", c.S))
    [] f = "TXA" -> Done(Load(c, "A", c.X))
    [] f = "TXS" -> Done([c EXCEPT !.S = c.X])
    [] f = "TYA" -> Done(Load(c, "A", c.Y))
    [] f = "invalidOpcode" -> [c EXCEPT !.halted = TRUE]

arr_instr(c) ==
  LET data == And(c.Data, c.A)
      shifted == data \div 2 + 128 * AsInt(c.C)
      adjusted == IF (data % 16) + (data % 2) > 5
                  THEN 16 * (shifted \div 16) + ((shifted + 6) % 16) ELSE shifted
      high == 16 * ((data \div 16) + ((data \div 16) % 2))
      a == IF c.D THEN adjusted + IF high > \h50 THEN \h60 ELSE 0 ELSE shifted
  IN Done([setNZ(c, shifted) EXCEPT
             !.A = Lo(a),
             !.C = IF c.D THEN high > \h50 ELSE Bit(shifted, 6),
             !.V = IF c.D THEN Bit(data, 6) # Bit(shifted, 6) ELSE Bit(shifted, 6) # Bit(shifted, 5)])

UndocumentedOperation(f, c) ==
  CASE f = "ASR" -> ShiftAccumulator([c EXCEPT !.A = And(@, c.Data)], "LSR")
    [] f = "ANC" -> LET a == And(c.A, c.Data) IN Done([Load(c, "A", a) EXCEPT !.C = Bit(a, 7)])
    [] f = "ARR" -> arr_instr(c)
    [] f = "SLO" -> LET d == ShiftMemory(c, "ASL") IN Load(d, "A", Or(d.A, d.Data))
    [] f = "DCP" -> LET d == Step(c, -1) IN Compare(d, d.A)
    [] f = "ISB" -> doSBC(Step(c, 1))
    [] f = "LAS" -> LET v == And(c.Data, c.S) IN Done([Load(c, "A", v) EXCEPT !.X = v, !.S = v, !.Data = v])
    [] f = "LAX" -> Done([Load(c, "A", c.Data) EXCEPT !.X = c.Data])
    [] f = "SRE" -> LET d == ShiftMemory(c, "LSR") IN Load(d, "A", Xor(d.A, d.Data))
    [] f = "LXA" -> LET v == And(c.Data, Or(c.A, \hEE)) IN Done([Load(c, "A", v) EXCEPT !.X = v])
    [] f = "RLA" -> LET d == ShiftMemory(c, "ROL") IN Load(d, "A", And(d.A, d.Data))
    [] f = "RRA" -> doADC(ShiftMemory(c, "ROR"))

AddressingCycle(f, c) ==
  CASE f \in {"throwAwayFetch", "WasteCycle"} -> c
    [] f = "throwAwayRead" -> throwAwayRead(c)
    [] f = "FetchDataByte" -> FetchDataByte(c)
    [] f = "FetchLowAddr" -> FetchLowAddr(c)
    [] f = "FetchLowAddrX" -> FetchLowAddrIndexed(c, c.X)
    [] f = "FetchLowAddrY" -> FetchLowAddrIndexed(c, c.Y)
    [] f = "FetchHighAddr" -> FetchHighAddr(c)
    [] f = "FetchHighAddrX" -> FetchHighAddrIndexed(c, c.X)
    [] f = "FetchHighAddrY" -> FetchHighAddrIndexed(c, c.Y)
    [] f = "FetchHighAddrX2" -> Skip(FetchHighAddrIndexed(c, c.X))
    [] f = "FetchHighAddrY2" -> Skip(FetchHighAddrIndexed(c, c.Y))
    [] f = "FetchLowPointer" -> FetchLowPointer(c)
    [] f = "FetchLowPointerX" -> FetchLowPointerX(c)
    [] f = "FetchHighPointer" -> FetchHighPointer(c)
    [] f = "FetchLowEffAddr" -> FetchLowEffAddr(c)
    [] f = "FetchHighEffAddr" -> FetchHighEffAddr(c)
    [] f = "FetchHighEffAddrY" -> FetchHighEffAddrY(c)
    [] f = "FetchHighEffAddrY2" -> Skip(FetchHighEffAddrY(c))
    [] f = "FetchEffAddrDataByte" -> FetchEffAddrDataByte(c)
    [] f = "PutEffAddrDataByte" -> PutEffAddrDataByte(c)

StackCycle(f, c) ==
  CASE f = "PushHighPC" -> Push(c, Hi(c.PC))
    [] f = "PushLowPC" -> Push(c, Lo(c.PC))
    [] f = "PushSR" -> PushSR(c)
    [] f = "PopSR" -> PopSR(c)
    [] f = "PopLowPC" -> PopLowPC(c)
    [] f = "PopHighPC" -> PopHighPC(c)
    [] f = "brkPushLowPC" -> brkPushLowPC(c)
    [] f = "IRQLoRequest" -> IRQLoRequest(c)
    [] f = "IRQHiRequest" -> IRQHiRequest(c)
    [] f = "interruptsAndNextOpcode" -> Done(c)
    [] f = "fetchNextOpcode" -> [c EXCEPT !.ends = "fetch"]

Common == {"CLD", "CLI", "JMP", "PHA", "RTI", "RTS", "SED", "SEI", "STA", "STX", "STY", "SAX"}
Unstable == {"SHA", "SHX", "SHY", "SHS"}
AtoB == {"ADC", "AND", "ANE", "ASL", "ASLA", "fix_branch", "BIT", "BCC", "BCS", "BEQ", "BMI", "BNE", "BPL", "BVC", "BVS"}
CtoL == {"CLC", "CLV", "CMP", "CPX", "CPY", "DEC", "DEX", "DEY", "EOR", "INC", "INX", "INY",
         "LDA", "LDX", "LDY", "LSR", "LSRA"}
OtoT == {"ORA", "PLA", "ROL", "ROR", "ROLA", "RORA", "SBX", "SBC", "SEC", "TAX", "TAY", "TSX",
         "TXA", "TXS", "TYA", "invalidOpcode"}
Undocumented == {"ASR", "ANC", "ARR", "SLO", "DCP", "ISB", "LAS", "LAX", "SRE", "LXA", "RLA", "RRA"}
OfStack == {"PushHighPC", "PushLowPC", "PushSR", "PopSR", "PopLowPC", "PopHighPC", "brkPushLowPC",
            "IRQLoRequest", "IRQHiRequest", "interruptsAndNextOpcode", "fetchNextOpcode"}

Perform(f, c) ==
  CASE f \in Common -> CommonOperation(f, c)
    [] f \in Unstable -> UnstableStore(f, c)
    [] f \in AtoB -> OperationAtoB(f, c)
    [] f \in CtoL -> OperationCtoL(f, c)
    [] f \in OtoT -> OperationOtoT(f, c)
    [] f \in Undocumented -> UndocumentedOperation(f, c)
    [] f \in OfStack -> StackCycle(f, c)
    [] OTHER -> AddressingCycle(f, c)

-----------------------------------------------------------------------------
(* The events.                                                             *)

ThisCycle == instrTable[cpu.instr][cpu.cycle + 1]

\* What the present cycle makes of the object; a new instruction has written nothing.
Operate ==
  Perform(ThisCycle.func, [cpu EXCEPT !.cycle = @ + 1, !.bus = IF cpu.cycle = 0 THEN <<>> ELSE @])

\* Where an instruction may lead: to the next one, or to an interrupt if they are
\* enabled, or were until this cycle.
Continues(c) ==
  CASE c.ends = "no" -> {c}
    [] c.ends = "fetch" -> {fetchNextOpcode(c)}
    [] c.ends = "interrupts" -> {fetchNextOpcode(c)} \cup IF c.I /\ cpu.I THEN {} ELSE {EnterInterrupt(c)}

\* One instruction is executed, and the interrupt that follows it; after a reset only
\* its opcode is fetched.
Bound == count = 0 \/ cpu.d1x1 \/ cpu.cycle > 0

\* eventWithoutSteals(), and the cycles of eventWithSteals() that cannot be stolen.
Run ==
  /\ ~cpu.halted /\ Bound
  /\ cpu' \in Continues(Operate)
  /\ IF cpu'.cycle = 0
     THEN /\ start' = cpu' /\ time' = 0 /\ stolen' = {} /\ signalled' = FALSE
          /\ count' = 1
     ELSE time' = time + 1 /\ UNCHANGED <<start, stolen, signalled, count>>

\* The operation of opcode i.
Name(i) == IF i \in DOMAIN Opcode THEN Opcode[i].op ELSE "HLT"

\* eventWithSteals() in a cycle that can be stolen: the CPU waits.
Stall ==
  /\ ~cpu.halted /\ Bound
  /\ ~ThisCycle.nosteal
  /\ cpu' = CASE cpu.instr = \h58 /\ cpu.cycle = 0 -> [cpu EXCEPT !.I = FALSE]
              [] cpu.instr = \h78 /\ cpu.cycle = 0 -> [cpu EXCEPT !.I = TRUE]
              [] \/ cpu.instr = \h93 /\ cpu.cycle = 3
                 \/ cpu.instr \in {\h9B, \h9C, \h9E, \h9F} /\ cpu.cycle = 2
                   -> [cpu EXCEPT !.rdyOnThrowAwayRead = TRUE]
              [] OTHER -> cpu
  /\ stolen' = IF Name(cpu.instr) \in Unstable THEN stolen \cup {cpu.cycle} ELSE stolen
  /\ UNCHANGED <<start, time, signalled, count>>

\* triggerNMI(), seen as far as it chooses the vector.
TriggerNMI ==
  /\ cpu.instr = BRKn /\ cpu.cycle < 4 /\ ~signalled
  /\ cpu' = [cpu EXCEPT !.nmiFlag = TRUE]
  /\ signalled' = TRUE
  /\ UNCHANGED <<start, time, stolen, count>>

\* Initialise(): the registers keep their values.
Initialised(c) ==
  [c EXCEPT !.S = \hFF, !.instr = BRKn, !.cycle = 6, !.C = FALSE, !.Z = FALSE, !.I = FALSE,
            !.D = FALSE, !.V = FALSE, !.N = FALSE, !.PC = 0, !.nmiFlag = FALSE, !.d1x1 = FALSE]

\* reset(), with new contents of the memory.
Reset ==
  /\ cpu.halted \/ (cpu.cycle = 0 /\ ~Bound)
  /\ LET reloaded == [Initialised(cpu) EXCEPT !.mem = <<>>, !.halted = FALSE]
         c == cpuWrite(cpuWrite(reloaded, 0, \h2F), 1, \h37)
         vector == 256 * cpuRead(c, \hFFFD) + cpuRead(c, \hFFFC)
     IN cpu' = [c EXCEPT !.EA = vector, !.PC = vector, !.bus = <<>>]
  /\ start' = cpu' /\ time' = 0 /\ stolen' = {} /\ signalled' = FALSE /\ count' = 0

\* The CPU has fetched the opcode of the instruction.
Init ==
  \E code \in Codes, at \in Starts, a \in Accumulators, xy \in Indexes, p \in Statuses, o \in Operands, seed \in Seeds :
    /\ cpu = SetStatus(
         [PC |-> at + 1, S |-> xy[1], A |-> a, X |-> xy[1], Y |-> xy[2],
          C |-> FALSE, Z |-> FALSE, I |-> FALSE, D |-> FALSE, V |-> FALSE, N |-> FALSE,
          EA |-> 0, Ptr |-> 0, Data |-> 0, adl_carry |-> FALSE, d1x1 |-> FALSE,
          nmiFlag |-> FALSE, rdyOnThrowAwayRead |-> FALSE, halted |-> FALSE, ends |-> "no",
          instr |-> code, cycle |-> 0, bus |-> <<>>, seed |-> seed,
          mem |-> [x \in at .. at + 2 |-> <<code, o[1], o[2]>>[x - at + 1]]], p)
    /\ start = cpu /\ time = 0 /\ stolen = {} /\ signalled = FALSE /\ count = 0

Next == Run \/ Stall \/ TriggerNMI \/ Reset

Spec == Init /\ [][Next]_vars

-----------------------------------------------------------------------------

\* "Reads are always stealable": while the bus is taken the CPU goes on exactly in the
\* cycles that write.
OnlyReadsStolen == ThisCycle.nosteal <=> Operate.bus # (IF cpu.cycle = 0 THEN <<>> ELSE cpu.bus)

=============================================================================

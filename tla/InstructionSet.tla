----------------------------- MODULE InstructionSet -----------------------------
(***************************************************************************)
(* What the instructions of the 6510 do, and how long they take, by their  *)
(* documentation: the abstract specification of Cpu6510.  An instruction   *)
(* is one function of the registers and the memory, with no cycles; the    *)
(* undocumented ones are put together from the documented ones.            *)
(*                                                                         *)
(* s is the machine when the instruction begins, its PC behind the opcode. *)
(***************************************************************************)
EXTENDS Cpu6510

Mem(s, a) == cpuRead(s, a % 65536)

OpOf(s) == Opcode[s.instr].op
ModeOf(s) == Opcode[s.instr].mode

Operand(s) == Mem(s, s.PC)
Absolute(s) == Operand(s) + 256 * Mem(s, s.PC + 1)
ZeroPageWord(s, p) == Mem(s, p) + 256 * Mem(s, (p + 1) % 256)

\* The address before indexing.
BaseAddress(s) ==
  CASE ModeOf(s) \in {"z", "zx", "zy"} -> Operand(s)
    [] ModeOf(s) \in {"a", "ax", "ay", "w", "i"} -> Absolute(s)
    [] ModeOf(s) = "ix" -> ZeroPageWord(s, (Operand(s) + s.X) % 256)
    [] ModeOf(s) = "iy" -> ZeroPageWord(s, Operand(s))

IndexOf(s) ==
  CASE ModeOf(s) \in {"zx", "ax"} -> s.X
    [] ModeOf(s) \in {"zy", "ay", "iy"} -> s.Y
    [] OTHER -> 0

\* Indexing stays in the zero page.
Address(s) ==
  (BaseAddress(s) + IndexOf(s)) % (IF ModeOf(s) \in {"z", "zx", "zy"} THEN 256 ELSE 65536)

PageCrossed(s) == Address(s) \div 256 # BaseAddress(s) \div 256

\* The operand's value.
Value(s) == IF ModeOf(s) \in {"b", "r"} THEN Operand(s) ELSE Mem(s, Address(s))

Length(s) == CASE ModeOf(s) = "n" -> 1 [] ModeOf(s) \in {"a", "ax", "ay", "w", "i"} -> 3 [] OTHER -> 2

-----------------------------------------------------------------------------
(* Arithmetic, in numbers.                                                 *)

Signed(v) == IF v > 127 THEN v - 256 ELSE v
Decimal(v) == 10 * (v \div 16) + (v % 16)
IsDecimal(v) == v \div 16 < 10 /\ v % 16 < 10
Coded(n) == 16 * ((n \div 10) % 10) + (n % 10)

\* A register gets v.
Gets(s, r, v) == [s EXCEPT ![r] = v, !.Z = v = 0, !.N = v > 127]

Added(s, v) ==
  LET carry == AsInt(s.C)
      signed == Signed(s.A) + Signed(v) + carry
      binary == [Gets(s, "A", (s.A + v + carry) % 256) EXCEPT !.C = s.A + v + carry > 255,
                                                             !.V = signed \notin -128 .. 127]
      decimal == Decimal(s.A) + Decimal(v) + carry
  IN IF s.D THEN [binary EXCEPT !.A = Coded(decimal), !.C = decimal > 99] ELSE binary

Subtracted(s, v) ==
  LET borrow == AsInt(~s.C)
      signed == Signed(s.A) - Signed(v) - borrow
      binary == [Gets(s, "A", (s.A - v - borrow) % 256) EXCEPT !.C = s.A >= v + borrow,
                                                             !.V = signed \notin -128 .. 127]
  IN IF s.D THEN [binary EXCEPT !.A = Coded(Decimal(s.A) - Decimal(v) - borrow + 100)] ELSE binary

Compared(s, r, v) == [s EXCEPT !.C = r >= v, !.Z = r = v, !.N = (r - v) % 256 > 127]

\* A byte that is modified: the value, the carry.
Modified(s, op, v) ==
  CASE op = "ASL" -> <<(2 * v) % 256, v > 127>>
    [] op = "ROL" -> <<(2 * v + AsInt(s.C)) % 256, v > 127>>
    [] op = "LSR" -> <<v \div 2, v % 2 = 1>>
    [] op = "ROR" -> <<(v + 256 * AsInt(s.C)) \div 2, v % 2 = 1>>
    [] op = "INC" -> <<(v + 1) % 256, s.C>>
    [] op = "DEC" -> <<(v + 255) % 256, s.C>>

\* The undocumented ones modify a byte and then use it.
Halves == [SLO |-> <<"ASL", "ORA">>, RLA |-> <<"ROL", "AND">>, SRE |-> <<"LSR", "EOR">>,
           RRA |-> <<"ROR", "ADC">>, DCP |-> <<"DEC", "CMP">>, ISB |-> <<"INC", "SBC">>]

FirstHalf(op) == IF op \in DOMAIN Halves THEN Halves[op][1] ELSE op

\* The operation of op on the value v, with the magic constant of the unstable ones.
Effect(s, op, v, magic) ==
  CASE op \in {"LDA", "PLA"} -> Gets(s, "A", v)
    [] op = "LDX" -> Gets(s, "X", v)
    [] op = "LDY" -> Gets(s, "Y", v)
    [] op = "LAX" -> Gets(Gets(s, "A", v), "X", v)
    [] op = "TAX" -> Gets(s, "X", s.A) [] op = "TXA" -> Gets(s, "A", s.X)
    [] op = "TAY" -> Gets(s, "Y", s.A) [] op = "TYA" -> Gets(s, "A", s.Y)
    [] op = "TSX" -> Gets(s, "X", s.S) [] op = "TXS" -> [s EXCEPT !.S = s.X]
    [] op = "INX" -> Gets(s, "X", (s.X + 1) % 256) [] op = "DEX" -> Gets(s, "X", (s.X + 255) % 256)
    [] op = "INY" -> Gets(s, "Y", (s.Y + 1) % 256) [] op = "DEY" -> Gets(s, "Y", (s.Y + 255) % 256)
    [] op = "ORA" -> Gets(s, "A", Or(s.A, v))
    [] op = "AND" -> Gets(s, "A", And(s.A, v))
    [] op = "EOR" -> Gets(s, "A", Xor(s.A, v))
    [] op = "ADC" -> Added(s, v)
    [] op = "SBC" -> Subtracted(s, v)
    [] op = "CMP" -> Compared(s, s.A, v)
    [] op = "CPX" -> Compared(s, s.X, v)
    [] op = "CPY" -> Compared(s, s.Y, v)
    [] op = "BIT" -> [s EXCEPT !.Z = And(s.A, v) = 0, !.N = v \in 128 .. 255, !.V = (v % 128) > 63]
    [] op \in {"ASL", "ROL", "LSR", "ROR", "INC", "DEC"} ->
         LET m == Modified(s, op, v) IN [s EXCEPT !.C = m[2], !.Z = m[1] = 0, !.N = m[1] > 127]
    [] op = "ASLA" -> LET m == Modified(s, "ASL", s.A) IN [Gets(s, "A", m[1]) EXCEPT !.C = m[2]]
    [] op = "ROLA" -> LET m == Modified(s, "ROL", s.A) IN [Gets(s, "A", m[1]) EXCEPT !.C = m[2]]
    [] op = "LSRA" -> LET m == Modified(s, "LSR", s.A) IN [Gets(s, "A", m[1]) EXCEPT !.C = m[2]]
    [] op = "RORA" -> LET m == Modified(s, "ROR", s.A) IN [Gets(s, "A", m[1]) EXCEPT !.C = m[2]]
    [] op = "CLC" -> [s EXCEPT !.C = FALSE] [] op = "SEC" -> [s EXCEPT !.C = TRUE]
    [] op = "CLI" -> [s EXCEPT !.I = FALSE] [] op = "SEI" -> [s EXCEPT !.I = TRUE]
    [] op = "CLD" -> [s EXCEPT !.D = FALSE] [] op = "SED" -> [s EXCEPT !.D = TRUE]
    [] op = "CLV" -> [s EXCEPT !.V = FALSE]
    [] op \in {"PLP", "RTI"} -> SetStatus(s, Mem(s, 256 + ((s.S + 1) % 256)))
    [] op = "BRK" -> [s EXCEPT !.I = TRUE]
    [] op = "ANC" -> LET m == Gets(s, "A", And(s.A, v)) IN [m EXCEPT !.C = m.N]
    [] op = "ASR" -> LET m == Modified(s, "LSR", And(s.A, v)) IN [Gets(s, "A", m[1]) EXCEPT !.C = m[2]]
    [] op = "ARR" -> LET m == Modified(s, "ROR", And(s.A, v))[1]
                     IN [Gets(s, "A", m) EXCEPT !.C = (m \div 64) % 2 = 1,
                                                !.V = (m \div 64) % 2 # (m \div 32) % 2]
    [] op = "SBX" -> LET x == And(s.A, s.X) IN [Compared(s, x, v) EXCEPT !.X = (x - v) % 256]
    [] op = "LAS" -> LET m == Gets(s, "A", And(s.S, v)) IN [m EXCEPT !.X = m.A, !.S = m.A]
    [] op = "LXA" -> LET m == Gets(s, "A", And(Or(s.A, magic), v)) IN [m EXCEPT !.X = m.A]
    [] op = "ANE" -> Gets(s, "A", And(And(Or(s.A, magic), s.X), v))
    [] op = "SHS" -> [s EXCEPT !.S = And(s.A, s.X)]
    [] OTHER -> s

\* The registers and flags after the whole instruction.
After(s, magic) ==
  LET op == OpOf(s)
      v == IF op = "PLA" THEN Mem(s, 256 + ((s.S + 1) % 256))
           ELSE IF ModeOf(s) \in {"n", "i", "w"} THEN 0 ELSE Value(s)
      first == Effect(s, FirstHalf(op), v, magic)
      whole == IF op \in DOMAIN Halves
               THEN Effect([s EXCEPT !.C = first.C], Halves[op][2], Modified(s, FirstHalf(op), v)[1], magic)
               ELSE first
      pushed == CASE op \in {"PHA", "PHP"} -> 1 [] op = "JSR" -> 2 [] op = "BRK" -> 3
                  [] op \in {"PLA", "PLP"} -> -1 [] op = "RTS" -> -2 [] op = "RTI" -> -3 [] OTHER -> 0
  IN [whole EXCEPT !.S = (@ - pushed) % 256]

\* What is left open: flags of decimal additions, results of digits that are none.
Unspecified(s) ==
  LET op == OpOf(s)
      v == IF op \in DOMAIN Halves THEN Modified(s, FirstHalf(op), Value(s))[1] ELSE Value(s)
  IN CASE ~s.D -> {}
       [] op \in {"ADC", "RRA"} -> {"N", "V"} \cup IF IsDecimal(s.A) /\ IsDecimal(v) THEN {} ELSE {"A", "C"}
       [] op \in {"SBC", "ISB"} -> IF IsDecimal(s.A) /\ IsDecimal(v) THEN {} ELSE {"A"}
       [] op = "ARR" -> {"A", "C", "V", "N", "Z"}
       [] OTHER -> {}

-----------------------------------------------------------------------------
(* What is written, and where the program goes on.                         *)

Taken(s) ==
  \/ OpOf(s) \in {"BPL", "BMI"} /\ s.N = (OpOf(s) = "BMI")
  \/ OpOf(s) \in {"BVC", "BVS"} /\ s.V = (OpOf(s) = "BVS")
  \/ OpOf(s) \in {"BCC", "BCS"} /\ s.C = (OpOf(s) = "BCS")
  \/ OpOf(s) \in {"BNE", "BEQ"} /\ s.Z = (OpOf(s) = "BEQ")

Following(s) == (s.PC + Length(s) - 1) % 65536

StackTop(s, n) == Mem(s, 256 + ((s.S + n) % 256))

\* vector is the interrupt's; c is the machine afterwards, whose memory JSR reads.
NextPC(s, vector, c) ==
  LET op == OpOf(s)
  IN CASE op = "JMP" /\ ModeOf(s) = "w" -> Absolute(s)
       [] op = "JMP" -> Mem(s, Absolute(s))
                          + 256 * Mem(s, 256 * (Absolute(s) \div 256) + ((Absolute(s) + 1) % 256))
       [] op = "JSR" -> Operand(s) + 256 * Mem(c, s.PC + 1)
       [] op = "RTS" -> (StackTop(s, 1) + 256 * StackTop(s, 2) + 1) % 65536
       [] op = "RTI" -> StackTop(s, 2) + 256 * StackTop(s, 3)
       [] op = "BRK" -> Mem(s, vector) + 256 * Mem(s, vector + 1)
       [] ModeOf(s) = "r" /\ Taken(s) -> (Following(s) + Signed(Operand(s))) % 65536
       [] OTHER -> Following(s)

\* The unstable stores: the value is masked with the page that follows the base, unless
\* the CPU was held up in the cycle before the store; the address's page, if it changed.
UnstableWrite(s, v, held) ==
  LET page == (BaseAddress(s) \div 256 + 1) % 256
  IN <<IF PageCrossed(s) THEN 256 * And(v, page) + (Address(s) % 256) ELSE Address(s),
       IF held THEN v ELSE And(v, page)>>

Pushed(s, values) == [k \in DOMAIN values |-> <<256 + ((s.S - (k - 1)) % 256), values[k]>>]

\* The writes, in order. A byte to be modified is first written as it was.
Written(s, held) ==
  LET op == OpOf(s)
      return == IF op = "JSR" THEN s.PC + 1 ELSE IF s.d1x1 THEN s.PC ELSE s.PC + 1
  IN CASE op = "STA" -> << <<Address(s), s.A>> >>
       [] op = "STX" -> << <<Address(s), s.X>> >>
       [] op = "STY" -> << <<Address(s), s.Y>> >>
       [] op = "SAX" -> << <<Address(s), And(s.A, s.X)>> >>
       [] op \in {"SHA", "SHS"} -> << UnstableWrite(s, And(s.A, s.X), held) >>
       [] op = "SHX" -> << UnstableWrite(s, s.X, held) >>
       [] op = "SHY" -> << UnstableWrite(s, s.Y, held) >>
       [] op \in ReadModifyWrites ->
            << <<Address(s), Value(s)>>, <<Address(s), Modified(s, FirstHalf(op), Value(s))[1]>> >>
       [] op = "PHA" -> Pushed(s, <<s.A>>)
       [] op = "PHP" -> Pushed(s, <<StatusOf(s) + 48>>)
       [] op = "JSR" -> Pushed(s, <<(return % 65536) \div 256, return % 256>>)
       [] op = "BRK" -> Pushed(s, <<(return % 65536) \div 256, return % 256,
                                    StatusOf(s) + IF s.d1x1 THEN 32 ELSE 48>>)
       [] OTHER -> <<>>

\* The cycles of an instruction.
Duration(s) ==
  LET op == OpOf(s)  mode == ModeOf(s)
      read == [n |-> 2, b |-> 2, z |-> 3, zx |-> 4, zy |-> 4, a |-> 4, ax |-> 4, ay |-> 4, ix |-> 6, iy |-> 5]
      crossing == AsInt(mode \in {"ax", "ay", "iy"})
  IN CASE op = "BRK" -> 7
       [] op \in {"JSR", "RTS", "RTI"} -> 6
       [] op \in {"PHA", "PHP"} -> 3
       [] op \in {"PLA", "PLP"} -> 4
       [] op = "JMP" -> IF mode = "i" THEN 5 ELSE 3
       [] mode = "r" -> IF ~Taken(s) THEN 2
                        ELSE IF Following(s) \div 256 = NextPC(s, 0, s) \div 256 THEN 3 ELSE 4
       [] op \in ReadModifyWrites -> read[mode] + crossing + 2
       [] op \in Stores -> read[mode] + crossing
       [] OTHER -> read[mode] + AsInt(crossing = 1 /\ PageCrossed(s))

=============================================================================

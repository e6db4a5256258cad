-------------------------------- MODULE Opcodes --------------------------------
(***************************************************************************)
(* The opcodes of the 6510 (src/c64/CPU/opcodes.h) and the cycles that     *)
(* MOS6510::buildInstructionTable() gives each of them.                    *)
(*                                                                         *)
(* An opcode is an operation and an addressing mode, named by the suffix   *)
(* that opcodes.h puts on the operation.  Most operations come in columns  *)
(* of eight opcodes, 32 apart.                                             *)
(***************************************************************************)
EXTENDS Integers, Sequences

\* The tables of a sequence as one.
Joined(tables) ==
  [x \in UNION {DOMAIN tables[k] : k \in DOMAIN tables} |->
     tables[CHOOSE k \in DOMAIN tables : x \in DOMAIN tables[k]][x]]

At(op, mode, codes) == [o \in codes |-> [op |-> op, mode |-> mode]]

Column(first, mode, ops) ==
  [o \in {first + 32 * k : k \in 0 .. 7} |->
     [op |-> ops[(o - first) \div 32 + 1], mode |-> mode]]

Alu == <<"ORA", "AND", "EOR", "ADC", "STA", "LDA", "CMP", "SBC">>
Shifts == <<"ASL", "ROL", "LSR", "ROR", "STX", "LDX", "DEC", "INC">>
Combined == <<"SLO", "RLA", "SRE", "RRA", "SAX", "LAX", "DCP", "ISB">>

\* Opcodes whose low five bits are below 16. ASLA is opcodes.h's ASLn, and so on.
LowColumns ==
  Joined(<<
    At("BRK", "n", {\h00}), At("JSR", "w", {\h20}), At("RTI", "n", {\h40}), At("RTS", "n", {\h60}),
    At("NOP", "b", {\h80, \h82, \hC2, \hE2, \h89}),
    At("LDY", "b", {\hA0}), At("CPY", "b", {\hC0}), At("CPX", "b", {\hE0}),
    Column(\h01, "ix", Alu), At("LDX", "b", {\hA2}), Column(\h03, "ix", Combined),
    At("NOP", "z", {\h04, \h44, \h64}), At("BIT", "z", {\h24}), At("STY", "z", {\h84}),
    At("LDY", "z", {\hA4}), At("CPY", "z", {\hC4}), At("CPX", "z", {\hE4}),
    Column(\h05, "z", Alu), Column(\h06, "z", Shifts), Column(\h07, "z", Combined),
    Column(\h08, "n", <<"PHP", "PLP", "PHA", "PLA", "DEY", "TAY", "INY", "INX">>),
    Column(\h09, "b", Alu), At("SBC", "b", {\hEB}),
    Column(\h0A, "n", <<"ASLA", "ROLA", "LSRA", "RORA", "TXA", "TAX", "DEX", "NOP">>),
    At("NOP", "n", {\h1A, \h3A, \h5A, \h7A, \hDA, \hFA}),
    At("ANC", "b", {\h0B, \h2B}), At("ASR", "b", {\h4B}), At("ARR", "b", {\h6B}),
    At("ANE", "b", {\h8B}), At("LXA", "b", {\hAB}), At("SBX", "b", {\hCB}),
    At("NOP", "a", {\h0C}), At("BIT", "a", {\h2C}), At("JMP", "w", {\h4C}), At("JMP", "i", {\h6C}),
    At("STY", "a", {\h8C}), At("LDY", "a", {\hAC}), At("CPY", "a", {\hCC}), At("CPX", "a", {\hEC}),
    Column(\h0D, "a", Alu), Column(\h0E, "a", Shifts), Column(\h0F, "a", Combined)>>)

\* The other opcodes.
HighColumns ==
  Joined(<<
    Column(\h10, "r", <<"BPL", "BMI", "BVC", "BVS", "BCC", "BCS", "BNE", "BEQ">>),
    Column(\h11, "iy", Alu),
    At("SHA", "iy", {\h93}), Column(\h13, "iy", Combined),
    At("NOP", "zx", {\h14, \h34, \h54, \h74, \hD4, \hF4}), At("STY", "zx", {\h94}), At("LDY", "zx", {\hB4}),
    Column(\h15, "zx", Alu),
    At("STX", "zy", {\h96}), At("LDX", "zy", {\hB6}), Column(\h16, "zx", Shifts),
    At("SAX", "zy", {\h97}), At("LAX", "zy", {\hB7}), Column(\h17, "zx", Combined),
    Column(\h18, "n", <<"CLC", "SEC", "CLI", "SEI", "TYA", "CLV", "CLD", "SED">>),
    Column(\h19, "ay", Alu),
    At("TXS", "n", {\h9A}), At("TSX", "n", {\hBA}),
    At("SHS", "ay", {\h9B}), At("LAS", "ay", {\hBB}), Column(\h1B, "ay", Combined),
    At("NOP", "ax", {\h1C, \h3C, \h5C, \h7C, \hDC, \hFC}), At("SHY", "ax", {\h9C}), At("LDY", "ax", {\hBC}),
    Column(\h1D, "ax", Alu),
    At("SHX", "ay", {\h9E}), At("LDX", "ay", {\hBE}), Column(\h1E, "ax", Shifts),
    At("SHA", "ay", {\h9F}), At("LAX", "ay", {\hBF}), Column(\h1F, "ax", Combined)>>)

Opcode == Joined(<<LowColumns, HighColumns>>)

\* The opcode of software and hardware interrupts.
BRKn == \h00

-----------------------------------------------------------------------------
(* The cycles.  A cycle with nosteal runs even while the bus is taken.     *)

Cycles(funcs, nosteal) == [k \in DOMAIN funcs |-> [func |-> funcs[k], nosteal |-> nosteal]]
R(funcs) == Cycles(funcs, FALSE)
W(funcs) == Cycles(funcs, TRUE)

Stores == {"STA", "STX", "STY", "SAX", "SHA", "SHS", "SHX", "SHY"}
ReadModifyWrites ==
  {"ASL", "LSR", "ROL", "ROR", "DEC", "INC", "SLO", "RLA", "SRE", "RRA", "DCP", "ISB"}
\* AccessMode::READ, given a mode that addresses memory.
ReadsOperand(op) == op \notin Stores \cup {"JMP", "JSR"}
\* The address is corrected only when a page is crossed.
Plain(op) == op \notin Stores \cup ReadModifyWrites

ShortAddressing(op, mode) ==
  CASE op \in {"BRK", "RTI", "RTS"} \/ mode \in {"b", "r"} -> <<"FetchDataByte">>
    [] mode = "n" /\ op \notin {"BRK", "RTI", "RTS"} -> <<"throwAwayFetch">>
    [] mode = "z"  -> <<"FetchLowAddr">>
    [] mode = "zx" -> <<"FetchLowAddrX", "WasteCycle">>
    [] mode = "zy" -> <<"FetchLowAddrY", "WasteCycle">>
    [] mode \in {"a", "w"} -> IF op = "JSR" THEN <<"FetchLowAddr">> ELSE <<"FetchLowAddr", "FetchHighAddr">>

LongAddressing(op, mode) ==
  CASE mode = "ax" -> <<"FetchLowAddr", IF Plain(op) THEN "FetchHighAddrX2" ELSE "FetchHighAddrX", "throwAwayRead">>
    [] mode = "ay" -> <<"FetchLowAddr", IF Plain(op) THEN "FetchHighAddrY2" ELSE "FetchHighAddrY", "throwAwayRead">>
    [] mode = "i"  -> <<"FetchLowPointer", "FetchHighPointer", "FetchLowEffAddr", "FetchHighEffAddr">>
    [] mode = "ix" -> <<"FetchLowPointer", "FetchLowPointerX", "FetchLowEffAddr", "FetchHighEffAddr">>
    [] mode = "iy" -> <<"FetchLowPointer", "FetchLowEffAddr",
                        IF Plain(op) THEN "FetchHighEffAddrY2" ELSE "FetchHighEffAddrY", "throwAwayRead">>

Short == {"n", "b", "r", "z", "zx", "zy", "a", "w"}

\* A variant: an absolute indexed read always takes the cycle that corrects its address.
AddressingUnskipped(op, mode) ==
  R((CASE mode = "ax" -> LongAddressing("STA", mode)
       [] mode \in Short -> ShortAddressing(op, mode)
       [] OTHER -> LongAddressing(op, mode))
    \o IF mode \in {"z", "zx", "zy", "a", "ax", "ay", "ix", "iy"} /\ ReadsOperand(op)
       THEN <<"FetchEffAddrDataByte">> ELSE <<>>)

Addressing(op, mode) ==
  R((IF mode \in Short THEN ShortAddressing(op, mode) ELSE LongAddressing(op, mode))
    \o IF mode \in {"z", "zx", "zy", "a", "ax", "ay", "ix", "iy"} /\ ReadsOperand(op)
       THEN <<"FetchEffAddrDataByte">> ELSE <<>>)

Simple(ops) == [op \in ops |-> R(<<op>>)]
Branches(ops) == [op \in ops |-> R(<<op, "fix_branch">>)]
Storing(ops) == [op \in ops |-> W(<<op>>)]
Modifying(ops) == [op \in ops |-> W(<<op, "PutEffAddrDataByte">>)]

\* The second switch, in the order of the source.
OperationsAtoD ==
  Joined(<<
    Simple({"ADC", "ANC", "AND", "ANE", "ARR", "ASLA", "ASR", "BIT"}),
    Simple({"CLC", "CLD", "CLI", "CLV", "CMP", "CPX", "CPY", "DEX", "DEY"}),
    Branches({"BCC", "BCS", "BEQ", "BMI", "BNE", "BPL", "BVC", "BVS"}),
    Modifying({"ASL", "DCP", "DEC"}),
    [BRK |->
       W(<<"PushHighPC", "brkPushLowPC", "PushSR">>) \o R(<<"IRQLoRequest", "IRQHiRequest", "fetchNextOpcode">>)]>>)

OperationsEtoN ==
  Joined(<<
    Simple({"EOR", "INX", "INY", "LAS", "LAX", "LDA", "LDX", "LDY", "LSRA"}),
    Modifying({"INC", "ISB", "LSR"}),
    [JSR |-> R(<<"WasteCycle">>) \o W(<<"PushHighPC", "PushLowPC">>) \o R(<<"FetchHighAddr", "JMP">>),
     JMP |-> R(<<"JMP">>),
     NOP |-> <<>>]>>)

\* A variant: the push of PHA can be stolen.
OperationsLtoRStealable ==
  Joined(<<
    Simple({"LXA", "ORA", "ROLA", "RORA", "PHA"}),
    Modifying({"RLA", "ROL", "ROR", "RRA"}),
    [PHP |-> W(<<"PushSR">>),
     PLA |-> R(<<"WasteCycle", "PLA">>),
     PLP |-> R(<<"WasteCycle", "PopSR">>),
     RTI |-> R(<<"WasteCycle", "PopSR", "PopLowPC", "PopHighPC", "RTI">>),
     RTS |-> R(<<"WasteCycle", "PopLowPC", "PopHighPC", "RTS">>)]>>)

OperationsLtoR ==
  Joined(<<
    Simple({"LXA", "ORA", "ROLA", "RORA"}),
    Modifying({"RLA", "ROL", "ROR", "RRA"}),
    [PHA |-> W(<<"PHA">>),
     PHP |-> W(<<"PushSR">>),
     PLA |-> R(<<"WasteCycle", "PLA">>),
     PLP |-> R(<<"WasteCycle", "PopSR">>),
     RTI |-> R(<<"WasteCycle", "PopSR", "PopLowPC", "PopHighPC", "RTI">>),
     RTS |-> R(<<"WasteCycle", "PopLowPC", "PopHighPC", "RTS">>)]>>)

OperationsStoT ==
  Joined(<<
    Simple({"SBC", "SBX", "SEC", "SED", "SEI", "TAX", "TAY", "TSX", "TXA", "TXS", "TYA"}),
    Storing({"SAX", "SHA", "SHS", "SHX", "SHY", "STA", "STX", "STY"}),
    Modifying({"SLO", "SRE"})>>)

Operations == Joined(<<OperationsAtoD, OperationsEtoN, OperationsLtoR, OperationsStoT>>)

\* buildInstructionTable().
instrTable ==
  [i \in 0 .. 255 |->
     (IF i \in DOMAIN Opcode
      THEN Addressing(Opcode[i].op, Opcode[i].mode) \o Operations[Opcode[i].op]
      ELSE R(<<"invalidOpcode">>))
     \o R(<<"interruptsAndNextOpcode">>)]

=============================================================================

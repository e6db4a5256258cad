---------------------------- MODULE Cpu6510_proof ----------------------------
(***************************************************************************)
(* Proofs about module Cpu6510, for every opcode, every contents of the    *)
(* registers and of the memory, and every way of taking the bus: the bus   *)
(* is taken from the CPU in the cycles that read and in no others.         *)
(***************************************************************************)
EXTENDS Cpu6510, SequenceTheorems, TLAPS

Word == {w \in Nat : w < 65536}

Words == {"PC", "EA", "Ptr"}
Bytes == {"S", "A", "X", "Y", "Data", "instr", "seed"}
Flags == {"C", "Z", "I", "D", "V", "N", "adl_carry", "d1x1", "nmiFlag", "rdyOnThrowAwayRead", "halted"}
Fields == Words \cup Bytes \cup Flags \cup {"ends", "cycle", "bus", "mem"}

\* What a field of the object may hold; a flag may hold anything.
Fits(r, v) ==
  /\ r \in Words => v \in Word
  /\ r \in Bytes => v \in Byte
  /\ r = "cycle" => v \in Nat
  /\ r = "mem" => \A a \in DOMAIN v : v[a] \in Byte
  /\ r = "bus" => v \in Seq(Word \X Byte)

Typed(c) == DOMAIN c = Fields /\ \A r \in Fields : Fits(r, c[r])

Keeps(c, d, fields) == \A r \in fields : d[r] = c[r]

\* What a function of the CPU makes of the object c: it goes on,
Goes(c, d) == Typed(d) /\ Keeps(c, d, {"instr", "cycle", "ends", "bus"})
\* it leaves out the next cycle,
Skips(c, d) == Typed(d) /\ Keeps(c, d, {"instr", "ends", "bus"}) /\ d.cycle = c.cycle + 1
\* it is the last one of the instruction,
Finishes(c, d) ==
  Typed(d) /\ Keeps(c, d, {"instr", "cycle", "bus"}) /\ d.ends \in {"interrupts", "fetch"}
\* or it writes.
WritesOnce(c, d) ==
  Typed(d) /\ Keeps(c, d, {"instr", "cycle", "ends"}) /\ Len(d.bus) = Len(c.bus) + 1

\* The functions that write to the bus, and those that may leave out a cycle.
Writers ==
  Stores \cup ReadModifyWrites
    \cup {"PHA", "PushSR", "PushHighPC", "PushLowPC", "brkPushLowPC", "PutEffAddrDataByte"}
Skippers ==
  {"BCC", "BCS", "BEQ", "BMI", "BNE", "BPL", "BVC", "BVS",
   "FetchHighAddrX2", "FetchHighAddrY2", "FetchHighEffAddrY2"}

\* What is known of the object d that function f makes of c.
Outcome(f, c, d) ==
  IF f \in Writers THEN WritesOnce(c, d)
  ELSE Goes(c, d) \/ Finishes(c, d) \/ (f \in Skippers /\ Skips(c, d))

-----------------------------------------------------------------------------
(* Objects.                                                                *)

LEMMA WordsHeld ==
  ASSUME NEW c, Typed(c)
  PROVE  c.PC \in Word /\ c.EA \in Word /\ c.Ptr \in Word
BY DEF Typed, Fits, Fields, Words

LEMMA BytesHeld ==
  ASSUME NEW c, Typed(c)
  PROVE  /\ c.S \in Byte /\ c.A \in Byte /\ c.X \in Byte /\ c.Y \in Byte /\ c.Data \in Byte
         /\ c.instr \in Byte /\ c.seed \in Byte
BY DEF Typed, Fits, Fields, Bytes

LEMMA OthersHeld ==
  ASSUME NEW c, Typed(c)
  PROVE  /\ c.cycle \in Nat /\ c.bus \in Seq(Word \X Byte)
         /\ \A a \in DOMAIN c.mem : c.mem[a] \in Byte
BY DEF Typed, Fits, Fields

LEMMA Changed ==
  ASSUME NEW c, Typed(c), NEW r \in Fields, NEW v, Fits(r, v)
  PROVE  /\ Typed([c EXCEPT ![r] = v])
         /\ [c EXCEPT ![r] = v][r] = v
         /\ \A s \in Fields \ {r} : [c EXCEPT ![r] = v][s] = c[s]
BY DEF Typed

LEMMA Onwards ==
  ASSUME NEW c, NEW d, Goes(c, d), NEW e
  PROVE  /\ Goes(d, e) => Goes(c, e)
         /\ Skips(d, e) => Skips(c, e)
         /\ Finishes(d, e) => Finishes(c, e)
         /\ WritesOnce(d, e) => WritesOnce(c, e)
BY DEF Goes, Skips, Finishes, WritesOnce, Keeps

LEMMA OnceWritten ==
  ASSUME NEW c, NEW d, WritesOnce(c, d), NEW e, Goes(d, e)
  PROVE  WritesOnce(c, e)
BY DEF Goes, WritesOnce, Keeps

LEMMA WordPut ==
  ASSUME NEW c, NEW d, Goes(c, d), NEW r \in Words, NEW v \in Word
  PROVE  Goes(c, [d EXCEPT ![r] = v])
<1>1. r \in Fields /\ {"instr", "cycle", "ends", "bus"} \subseteq Fields \ {r}
  BY DEF Fields, Words, Bytes, Flags
<1>2. Fits(r, v)
  BY DEF Fits, Words, Bytes
<1>3. Goes(d, [d EXCEPT ![r] = v])
  BY <1>1, <1>2, Changed DEF Goes, Keeps
<1> QED BY <1>3, Onwards

LEMMA BytePut ==
  ASSUME NEW c, NEW d, Goes(c, d), NEW r \in Bytes \ {"instr"}, NEW v \in Byte
  PROVE  Goes(c, [d EXCEPT ![r] = v])
<1>1. r \in Fields /\ {"instr", "cycle", "ends", "bus"} \subseteq Fields \ {r}
  BY DEF Fields, Words, Bytes, Flags
<1>2. Fits(r, v)
  BY DEF Fits, Words, Bytes
<1>3. Goes(d, [d EXCEPT ![r] = v])
  BY <1>1, <1>2, Changed DEF Goes, Keeps
<1> QED BY <1>3, Onwards

LEMMA FlagPut ==
  ASSUME NEW c, NEW d, Goes(c, d), NEW r \in Flags, NEW v
  PROVE  Goes(c, [d EXCEPT ![r] = v])
<1>1. r \in Fields /\ {"instr", "cycle", "ends", "bus"} \subseteq Fields \ {r}
  BY DEF Fields, Words, Bytes, Flags
<1>2. Fits(r, v)
  BY DEF Fits, Words, Bytes, Flags
<1>3. Goes(d, [d EXCEPT ![r] = v])
  BY <1>1, <1>2, Changed DEF Goes, Keeps
<1> QED BY <1>3, Onwards

LEMMA Same ==
  ASSUME NEW c, Typed(c)
  PROVE  Goes(c, c)
BY DEF Goes, Keeps

LEMMA Names ==
  /\ "PC" \in Words /\ "EA" \in Words /\ "Ptr" \in Words
  /\ {"S", "A", "X", "Y", "Data"} \subseteq Bytes \ {"instr"}
  /\ {"C", "Z", "I", "D", "V", "N", "adl_carry", "d1x1", "nmiFlag", "rdyOnThrowAwayRead", "halted"} \subseteq Flags
BY DEF Words, Bytes, Flags

-----------------------------------------------------------------------------
(* Numbers.                                                                *)

LEMMA AsIntIs ==
  ASSUME NEW b
  PROVE  AsInt(b) \in 0 .. 1
BY DEF AsInt

LEMMA Nibbles ==
  ASSUME NEW a \in 0 .. 15, NEW b \in 0 .. 15
  PROVE  /\ NibbleAnd[a][b] \in 0 .. 15
         /\ a + b - NibbleAnd[a][b] \in 0 .. 15
         /\ a + b - 2 * NibbleAnd[a][b] \in 0 .. 15
<1> DEFINE p(n) == AsInt(Bit(a, n))
           q(n) == AsInt(Bit(b, n))
           r(n) == AsInt(Bit(a, n) /\ Bit(b, n))
<1>1. /\ a = p(0) + 2 * p(1) + 4 * p(2) + 8 * p(3)
      /\ b = q(0) + 2 * q(1) + 4 * q(2) + 8 * q(3)
  <2>1. \A x \in 0 .. 15 : x = AsInt(Bit(x, 0)) + 2 * AsInt(Bit(x, 1)) + 4 * AsInt(Bit(x, 2)) + 8 * AsInt(Bit(x, 3))
    BY DEF AsInt, Bit
  <2> QED BY <2>1, ZenonT(30)
<1>2. NibbleAnd[a][b] = r(0) + 2 * r(1) + 4 * r(2) + 8 * r(3)
  BY DEF NibbleAnd
<1>3. \A n : /\ p(n) \in 0 .. 1 /\ q(n) \in 0 .. 1 /\ r(n) \in 0 .. 1
             /\ r(n) <= p(n) /\ r(n) <= q(n) /\ p(n) + q(n) <= 1 + r(n)
  BY DEF AsInt
<1> HIDE DEF p, q, r
<1> QED BY ONLY <1>1, <1>2, <1>3

LEMMA Halves ==
  ASSUME NEW a \in Byte
  PROVE  a \div 16 \in 0 .. 15 /\ a % 16 \in 0 .. 15 /\ a = 16 * (a \div 16) + (a % 16)
<1>1. a \in Nat /\ a < 256
  BY DEF Byte
<1>2. a \div 16 \in Int /\ a % 16 \in 0 .. 15
  BY ONLY <1>1
<1>3. a = 16 * (a \div 16) + (a % 16)
  BY ONLY <1>1
<1> QED BY ONLY <1>1, <1>2, <1>3

LEMMA BitsOfByte ==
  ASSUME NEW a \in Byte, NEW b \in Byte
  PROVE  And(a, b) \in Byte /\ Or(a, b) \in Byte /\ Xor(a, b) \in Byte
<1> DEFINE h == NibbleAnd[a \div 16][b \div 16]
           l == NibbleAnd[a % 16][b % 16]
<1>1. /\ a \div 16 \in 0 .. 15 /\ a % 16 \in 0 .. 15 /\ a = 16 * (a \div 16) + (a % 16)
      /\ b \div 16 \in 0 .. 15 /\ b % 16 \in 0 .. 15 /\ b = 16 * (b \div 16) + (b % 16)
  BY Halves
<1>2. \A x, y \in 0 .. 15 :
        /\ NibbleAnd[x][y] \in 0 .. 15
        /\ x + y - NibbleAnd[x][y] \in 0 .. 15
        /\ x + y - 2 * NibbleAnd[x][y] \in 0 .. 15
  BY Nibbles, ZenonT(30)
<1>4. /\ h \in 0 .. 15 /\ a \div 16 + b \div 16 - h \in 0 .. 15 /\ a \div 16 + b \div 16 - 2 * h \in 0 .. 15
  BY ONLY <1>1, <1>2, ZenonT(30)
<1>5. /\ l \in 0 .. 15 /\ (a % 16) + (b % 16) - l \in 0 .. 15 /\ (a % 16) + (b % 16) - 2 * l \in 0 .. 15
  BY ONLY <1>1, <1>2, ZenonT(30)
<1>3. And(a, b) = 16 * h + l
  BY DEF And
<1> HIDE DEF h, l
<1> QED BY <1>1, <1>3, <1>4, <1>5 DEF Or, Xor, Byte

LEMMA LowByte ==
  ASSUME NEW w \in Int
  PROVE  Lo(w) \in Byte
BY DEF Lo, Byte

LEMMA WordParts ==
  ASSUME NEW w \in Word
  PROVE  Lo(w) \in Byte /\ Hi(w) \in Byte
BY DEF Lo, Hi, Byte, Word

LEMMA WordFrom ==
  ASSUME NEW h \in Byte, NEW l \in Byte
  PROVE  256 * h + l \in Word
BY DEF Byte, Word

LEMMA HighLow ==
  ASSUME NEW h \in Byte, NEW w \in Int
  PROVE  256 * h + Lo(w) \in Word
BY WordFrom, LowByte

LEMMA ByteIsInt ==
  ASSUME NEW b \in Byte
  PROVE  b \in Int /\ b \in Word
BY DEF Byte, Word

LEMMA WordIsInt ==
  ASSUME NEW w \in Word
  PROVE  w \in Int /\ w + 1 \in Int
BY DEF Word

LEMMA SumOfFlags ==
  ASSUME NEW p \in 0 .. 1, NEW q \in 0 .. 1, NEW r \in 0 .. 1,
         NEW s \in 0 .. 1, NEW t \in 0 .. 1, NEW u \in 0 .. 1
  PROVE  p + 2 * q + 4 * r + 8 * s + 64 * t + 128 * u \in 0 .. 207
OBVIOUS

LEMMA StatusIs ==
  ASSUME NEW c
  PROVE  StatusOf(c) + \h20 \in Byte /\ StatusOf(c) + \h30 \in Byte
<1>1. /\ AsInt(c.C) \in 0 .. 1 /\ AsInt(c.Z) \in 0 .. 1 /\ AsInt(c.I) \in 0 .. 1
      /\ AsInt(c.D) \in 0 .. 1 /\ AsInt(c.V) \in 0 .. 1 /\ AsInt(c.N) \in 0 .. 1
  BY AsIntIs
<1>2. StatusOf(c) = AsInt(c.C) + 2 * AsInt(c.Z) + 4 * AsInt(c.I) + 8 * AsInt(c.D) + 64 * AsInt(c.V) + 128 * AsInt(c.N)
  BY DEF StatusOf
<1> HIDE DEF AsInt
<1>3. AsInt(c.C) + 2 * AsInt(c.Z) + 4 * AsInt(c.I) + 8 * AsInt(c.D) + 64 * AsInt(c.V) + 128 * AsInt(c.N) \in 0 .. 207
  BY ONLY <1>1, SumOfFlags, SMTT(30)
<1>4. StatusOf(c) \in 0 .. 207
  BY ONLY <1>2, <1>3, ZenonT(30)
<1> QED BY ONLY <1>4 DEF Byte

LEMMA ShiftedIs ==
  ASSUME NEW op \in {"ASL", "LSR", "ROL", "ROR"}, NEW v \in Byte, NEW carry
  PROVE  Shifted(op, v, carry)[1] \in Byte
<1>1. AsInt(carry) \in 0 .. 1
  BY AsIntIs
<1>2. /\ Lo(2 * v) \in Byte /\ v \div 2 \in Byte
      /\ Lo(2 * v) + AsInt(carry) \in Byte /\ v \div 2 + 128 * AsInt(carry) \in Byte
  BY <1>1 DEF Byte, Lo
<1> QED BY <1>2 DEF Shifted

LEMMA Decimal ==
  ASSUME NEW h \in Int, NEW l \in Int
  PROVE  Lo(16 * h) + (l % 16) \in Byte
BY DEF Lo, Byte

-----------------------------------------------------------------------------
(* The elementary operations.                                              *)

LEMMA ReadIs ==
  ASSUME NEW c, Typed(c), NEW a \in Int
  PROVE  cpuRead(c, a) \in Byte
<1>1. Background(c.seed, a) \in Byte
  <2>1. a % 256 \in Int /\ a \div 256 \in Int /\ c.seed \in Int
    BY BytesHeld DEF Byte
  <2> QED BY <2>1 DEF Background, Lo, Hi, Byte
<1> QED BY <1>1, OthersHeld DEF cpuRead

LEMMA setNZGoes ==
  ASSUME NEW c, NEW d, Goes(c, d), NEW v
  PROVE  Goes(c, setNZ(d, v))
<1> DEFINE e == [d EXCEPT !.Z = Lo(v) = 0]
<1>1. Goes(c, e)
  BY Names, FlagPut
<1>2. Goes(c, [e EXCEPT !.N = Bit(v, 7)])
  BY <1>1, Names, FlagPut
<1>3. setNZ(d, v) = [e EXCEPT !.N = Bit(v, 7)]
  BY DEF setNZ
<1> QED BY <1>2, <1>3

LEMMA SetStatusGoes ==
  ASSUME NEW c, NEW d, Goes(c, d), NEW sr
  PROVE  Goes(c, SetStatus(d, sr))
<1> DEFINE d1 == [d EXCEPT !.C = Bit(sr, 0)]
           d2 == [d1 EXCEPT !.Z = Bit(sr, 1)]
           d3 == [d2 EXCEPT !.I = Bit(sr, 2)]
           d4 == [d3 EXCEPT !.D = Bit(sr, 3)]
           d5 == [d4 EXCEPT !.V = Bit(sr, 6)]
           d6 == [d5 EXCEPT !.N = Bit(sr, 7)]
<1>1. SetStatus(d, sr) = d6
  BY DEF SetStatus
<1>2. Goes(c, d1)
  BY Names, FlagPut
<1>3. Goes(c, d2)
  BY <1>2, Names, FlagPut
<1>4. Goes(c, d3)
  BY <1>3, Names, FlagPut
<1>5. Goes(c, d4)
  BY <1>4, Names, FlagPut
<1>6. Goes(c, d5)
  BY <1>5, Names, FlagPut
<1>7. Goes(c, d6)
  BY <1>6, Names, FlagPut
<1> QED BY <1>1, <1>7

LEMMA IncPCGoes ==
  ASSUME NEW c, NEW d, Goes(c, d)
  PROVE  Goes(c, IncPC(d))
<1>1. (d.PC + 1) % 65536 \in Word
  BY WordsHeld DEF Word, Goes
<1> QED BY <1>1, Names, WordPut DEF IncPC

LEMMA DoneFinishes ==
  ASSUME NEW c, NEW d, Goes(c, d)
  PROVE  Finishes(c, Done(d))
<1>1. "ends" \in Fields /\ {"instr", "cycle", "bus"} \subseteq Fields \ {"ends"} /\ Fits("ends", "interrupts")
  BY DEF Fields, Words, Bytes, Flags, Fits
<1>2. Finishes(d, Done(d))
  BY <1>1, Changed DEF Done, Finishes, Goes, Keeps
<1> QED BY <1>2, Onwards

LEMMA SkipSkips ==
  ASSUME NEW c, NEW d, Goes(c, d)
  PROVE  Goes(c, Skip(d)) \/ Skips(c, Skip(d))
<1>1. "cycle" \in Fields /\ {"instr", "ends", "bus"} \subseteq Fields \ {"cycle"}
  BY DEF Fields, Words, Bytes, Flags
<1>2. Fits("cycle", d.cycle + 1)
  BY OthersHeld DEF Goes, Fits, Words, Bytes
<1>3. Goes(d, d) /\ Skips(d, [d EXCEPT !.cycle = @ + 1])
  BY <1>1, <1>2, Changed DEF Goes, Skips, Keeps
<1> QED BY <1>3, Onwards DEF Skip

LEMMA Writes ==
  ASSUME NEW c, Typed(c), NEW a \in Word, NEW v \in Byte
  PROVE  WritesOnce(c, cpuWrite(c, a, v))
<1> DEFINE m == [x \in DOMAIN c.mem \cup {a} |-> IF x = a THEN v ELSE c.mem[x]]
           b == Append(c.bus, <<a, v>>)
           d == [c EXCEPT !.mem = m]
<1>1. /\ "mem" \in Fields /\ {"instr", "cycle", "ends", "bus"} \subseteq Fields \ {"mem"}
      /\ "bus" \in Fields /\ {"instr", "cycle", "ends"} \subseteq Fields \ {"bus"}
  BY DEF Fields, Words, Bytes, Flags
<1>2. Fits("mem", m)
  <2>1. \A x \in DOMAIN c.mem : c.mem[x] \in Byte
    BY OthersHeld
  <2>2. \A x \in DOMAIN m : m[x] \in Byte
    BY <2>1
  <2> QED BY <2>2 DEF Fits, Words, Bytes
<1>3. Fits("bus", b) /\ Len(b) = Len(c.bus) + 1
  <2>1. b \in Seq(Word \X Byte) /\ Len(b) = Len(c.bus) + 1
    BY OthersHeld
  <2> QED BY <2>1 DEF Fits, Words, Bytes
<1>4. cpuWrite(c, a, v) = [d EXCEPT !.bus = b]
  BY DEF cpuWrite
<1> HIDE DEF m, b
<1>5. Typed(d) /\ Keeps(c, d, {"instr", "cycle", "ends", "bus"})
  BY <1>1, <1>2, Changed DEF Keeps
<1> HIDE DEF d
<1>6. Typed([d EXCEPT !.bus = b]) /\ Keeps(d, [d EXCEPT !.bus = b], {"instr", "cycle", "ends"})
      /\ [d EXCEPT !.bus = b].bus = b
  BY <1>1, <1>3, <1>5, Changed DEF Keeps
<1> QED BY <1>3, <1>4, <1>5, <1>6 DEF WritesOnce, Keeps

LEMMA WriteWrites ==
  ASSUME NEW c, NEW d, Goes(c, d), NEW a \in Word, NEW v \in Byte
  PROVE  WritesOnce(c, cpuWrite(d, a, v))
BY Writes, Onwards DEF Goes

LEMMA LoadGoes ==
  ASSUME NEW c, NEW d, Goes(c, d), NEW r \in {"A", "X", "Y"}, NEW v \in Byte
  PROVE  Goes(c, Load(d, r, v))
BY setNZGoes, BytePut, Names DEF Load

LEMMA CompareGoes ==
  ASSUME NEW c, NEW d, Goes(c, d), NEW v
  PROVE  Goes(c, Compare(d, v))
BY setNZGoes, FlagPut, Names DEF Compare

-----------------------------------------------------------------------------
(* Addressing and the stack.                                               *)

LEMMA throwAwayReadGoes ==
  ASSUME NEW c, Typed(c)
  PROVE  Goes(c, throwAwayRead(c))
<1>1. (c.EA + 256) % 65536 \in Word
  BY WordsHeld DEF Word
<1> QED BY <1>1, Same, Names, WordPut DEF throwAwayRead

LEMMA FetchDataByteGoes ==
  ASSUME NEW c, Typed(c)
  PROVE  Goes(c, FetchDataByte(c))
<1>1. cpuRead(c, c.PC) \in Byte
  BY WordsHeld, ReadIs DEF Word
<1>2. Goes(c, [c EXCEPT !.Data = cpuRead(c, c.PC)])
  BY <1>1, Same, Names, BytePut
<1> QED BY <1>2, IncPCGoes DEF FetchDataByte

LEMMA FetchLowAddrGoes ==
  ASSUME NEW c, Typed(c)
  PROVE  Goes(c, FetchLowAddr(c))
<1>1. cpuRead(c, c.PC) \in Word
  BY WordsHeld, ReadIs, ByteIsInt DEF Word
<1>2. Goes(c, [c EXCEPT !.EA = cpuRead(c, c.PC)])
  BY <1>1, Same, Names, WordPut
<1> QED BY <1>2, IncPCGoes DEF FetchLowAddr

LEMMA FetchLowAddrIndexedGoes ==
  ASSUME NEW c, Typed(c), NEW index \in Byte
  PROVE  Goes(c, FetchLowAddrIndexed(c, index))
<1> DEFINE d == FetchLowAddr(c)
<1>1. Goes(c, d)
  BY FetchLowAddrGoes
<1>2. Lo(d.EA + index) \in Word
  BY <1>1, WordsHeld, LowByte, ByteIsInt DEF Word, Goes
<1> HIDE DEF d
<1>3. Goes(c, [d EXCEPT !.EA = Lo(d.EA + index)])
  BY <1>1, <1>2, Names, WordPut
<1> QED BY <1>3 DEF FetchLowAddrIndexed, d

LEMMA FetchHighAddrGoes ==
  ASSUME NEW c, Typed(c)
  PROVE  Goes(c, FetchHighAddr(c))
<1>1. 256 * cpuRead(c, c.PC) + Lo(c.EA) \in Word
  <2>1. c.PC \in Int /\ c.EA \in Int
    BY WordsHeld, WordIsInt
  <2> QED BY <2>1, ReadIs, HighLow
<1>2. Goes(c, [c EXCEPT !.EA = 256 * cpuRead(c, c.PC) + Lo(c.EA)])
  BY <1>1, Same, Names, WordPut
<1> QED BY <1>2, IncPCGoes DEF FetchHighAddr

\* Adding the index may carry out of the low byte of the address for a moment.
LEMMA FetchHighAddrIndexedGoes ==
  ASSUME NEW c, Typed(c), NEW index \in Byte
  PROVE  Goes(c, FetchHighAddrIndexed(c, index))
<1> DEFINE w == 256 * cpuRead(c, c.PC) + Lo(c.EA + index)
           d == [c EXCEPT !.adl_carry = c.EA + index > 255]
           e == [c EXCEPT !.EA = @ + index, !.adl_carry = c.EA + index > 255]
<1>1. w \in Word
  <2>1. c.PC \in Int /\ c.EA \in Int /\ index \in Int
    BY WordsHeld, WordIsInt, ByteIsInt
  <2>2. c.EA + index \in Int
    BY ONLY <2>1
  <2> QED BY <2>1, <2>2, ReadIs, HighLow
<1>2. Goes(c, d)
  BY Same, Names, FlagPut
<1> HIDE DEF w, d
<1>3. Goes(c, [d EXCEPT !.EA = w])
  BY <1>1, <1>2, Names, WordPut
<1>4. cpuRead(e, e.PC) = cpuRead(c, c.PC) /\ e.EA = c.EA + index
  <2>1. DOMAIN c = Fields /\ {"EA", "adl_carry", "PC", "mem", "seed"} \subseteq Fields
    BY DEF Typed, Fields, Words, Bytes, Flags
  <2> QED BY <2>1 DEF cpuRead
<1>5. [e EXCEPT !.EA = w] = [d EXCEPT !.EA = w]
  BY ZenonT(60) DEF d
<1>6. FetchHighAddrIndexed(c, index) = FetchHighAddr(e)
  BY DEF FetchHighAddrIndexed
<1> HIDE DEF e
<1>7. FetchHighAddr(e) = IncPC([e EXCEPT !.EA = w])
  BY <1>4 DEF FetchHighAddr, w
<1> QED BY <1>3, <1>5, <1>6, <1>7, IncPCGoes

LEMMA FetchLowPointerGoes ==
  ASSUME NEW c, Typed(c)
  PROVE  Goes(c, FetchLowPointer(c))
<1>1. cpuRead(c, c.PC) \in Word
  BY WordsHeld, ReadIs, ByteIsInt DEF Word
<1>2. Goes(c, [c EXCEPT !.Ptr = cpuRead(c, c.PC)])
  BY <1>1, Same, Names, WordPut
<1> QED BY <1>2, IncPCGoes DEF FetchLowPointer

LEMMA FetchLowPointerXGoes ==
  ASSUME NEW c, Typed(c)
  PROVE  Goes(c, FetchLowPointerX(c))
<1>1. 256 * Hi(c.Ptr) + Lo(c.Ptr + c.X) \in Word
  <2>1. Hi(c.Ptr) \in Byte
    BY WordsHeld, WordParts
  <2>2. c.Ptr \in Int /\ c.X \in Int
    BY WordsHeld, BytesHeld, WordIsInt, ByteIsInt
  <2>3. c.Ptr + c.X \in Int
    BY ONLY <2>2
  <2> QED BY <2>1, <2>3, HighLow
<1> QED BY <1>1, Same, Names, WordPut DEF FetchLowPointerX

LEMMA FetchHighPointerGoes ==
  ASSUME NEW c, Typed(c)
  PROVE  Goes(c, FetchHighPointer(c))
<1>1. 256 * cpuRead(c, c.PC) + Lo(c.Ptr) \in Word
  <2>1. c.PC \in Int /\ c.Ptr \in Int
    BY WordsHeld, WordIsInt
  <2> QED BY <2>1, ReadIs, HighLow
<1>2. Goes(c, [c EXCEPT !.Ptr = 256 * cpuRead(c, c.PC) + Lo(c.Ptr)])
  BY <1>1, Same, Names, WordPut
<1> QED BY <1>2, IncPCGoes DEF FetchHighPointer

LEMMA FetchLowEffAddrGoes ==
  ASSUME NEW c, Typed(c)
  PROVE  Goes(c, FetchLowEffAddr(c))
<1>1. cpuRead(c, c.Ptr) \in Word
  BY WordsHeld, ReadIs, ByteIsInt DEF Word
<1> QED BY <1>1, Same, Names, WordPut DEF FetchLowEffAddr

LEMMA NextPointer ==
  ASSUME NEW c, Typed(c)
  PROVE  256 * Hi(c.Ptr) + Lo(c.Ptr + 1) \in Word
<1>1. c.Ptr \in Word /\ c.Ptr + 1 \in Int
  BY WordsHeld DEF Word
<1> QED BY <1>1, WordParts, LowByte, WordFrom

LEMMA FetchHighEffAddrGoes ==
  ASSUME NEW c, Typed(c)
  PROVE  Goes(c, FetchHighEffAddr(c))
<1> DEFINE next == 256 * Hi(c.Ptr) + Lo(c.Ptr + 1)
           d == [c EXCEPT !.Ptr = next]
<1>1. next \in Word
  BY NextPointer
<1> HIDE DEF next
<1>2. Goes(c, d)
  BY <1>1, Same, Names, WordPut
<1>3. 256 * cpuRead(c, next) + Lo(c.EA) \in Word
  BY <1>1, WordsHeld, WordIsInt, ReadIs, HighLow
<1>4. Goes(c, [d EXCEPT !.EA = 256 * cpuRead(c, next) + Lo(c.EA)])
  BY <1>2, <1>3, Names, WordPut, ZenonT(60)
<1>5. FetchHighEffAddr(c) = [d EXCEPT !.EA = 256 * cpuRead(c, next) + Lo(c.EA)]
  BY DEF FetchHighEffAddr, next
<1> QED BY <1>4, <1>5

LEMMA FetchHighEffAddrYGoes ==
  ASSUME NEW c, Typed(c)
  PROVE  Goes(c, FetchHighEffAddrY(c))
<1> DEFINE next == 256 * Hi(c.Ptr) + Lo(c.Ptr + 1)
           w == 256 * cpuRead(c, next) + Lo(c.EA + c.Y)
           d == [c EXCEPT !.adl_carry = c.EA + c.Y > 255]
           f == [d EXCEPT !.Ptr = next]
           e == [c EXCEPT !.EA = @ + c.Y, !.adl_carry = c.EA + c.Y > 255]
<1>1. next \in Word
  BY NextPointer
<1>2. w \in Word
  <2>1. next \in Int /\ c.EA + c.Y \in Int
    BY <1>1, WordsHeld, BytesHeld, ByteIsInt DEF Word
  <2> HIDE DEF next
  <2> QED BY <2>1, ReadIs, LowByte, WordFrom
<1>3. Goes(c, d)
  BY Same, Names, FlagPut
<1>4. \A a : cpuRead(e, a) = cpuRead(c, a)
  <2>1. DOMAIN c = Fields /\ {"EA", "adl_carry", "PC", "mem", "seed"} \subseteq Fields
    BY DEF Typed, Fields, Words, Bytes, Flags
  <2> QED BY <2>1 DEF cpuRead
<1>5. e.EA = c.EA + c.Y /\ e.Ptr = c.Ptr
  <2>1. DOMAIN c = Fields /\ {"EA", "adl_carry", "Ptr"} \subseteq Fields
    BY DEF Typed, Fields, Words, Bytes, Flags
  <2> QED BY <2>1
<1>6. FetchHighEffAddrY(c) = FetchHighEffAddr(e)
  BY DEF FetchHighEffAddrY
<1>7. FetchHighEffAddr(e) = [e EXCEPT !.Ptr = next, !.EA = w]
  <2> HIDE DEF e
  <2>1. FetchHighEffAddr(e) =
          [e EXCEPT !.Ptr = 256 * Hi(e.Ptr) + Lo(e.Ptr + 1),
                    !.EA = 256 * cpuRead(e, 256 * Hi(e.Ptr) + Lo(e.Ptr + 1)) + Lo(@)]
    BY DEF FetchHighEffAddr
  <2>2. 256 * Hi(e.Ptr) + Lo(e.Ptr + 1) = next
    BY <1>5
  <2> HIDE DEF next
  <2>3. cpuRead(e, next) = cpuRead(c, next)
    BY <1>4
  <2>4. 256 * cpuRead(e, next) + Lo(e.EA) = w
    BY <1>5, <2>3
  <2>5. FetchHighEffAddr(e) = [e EXCEPT !.Ptr = next, !.EA = 256 * cpuRead(e, next) + Lo(@)]
    BY <2>1, <2>2
  <2> HIDE DEF w
  <2>6. [e EXCEPT !.Ptr = next, !.EA = 256 * cpuRead(e, next) + Lo(@)] =
          [e EXCEPT !.Ptr = next, !.EA = 256 * cpuRead(e, next) + Lo(e.EA)]
    OBVIOUS
  <2> QED BY <2>4, <2>5, <2>6
<1> HIDE DEF next, w
<1>8. [e EXCEPT !.Ptr = next, !.EA = w] = [f EXCEPT !.EA = w]
  BY ZenonT(60)
<1> HIDE DEF d, e
<1>9. Goes(c, f)
  BY <1>1, <1>3, Names, WordPut
<1> HIDE DEF f
<1>10. Goes(c, [f EXCEPT !.EA = w])
  BY <1>2, <1>9, Names, WordPut
<1> QED BY <1>6, <1>7, <1>8, <1>10

LEMMA FetchEffAddrDataByteGoes ==
  ASSUME NEW c, Typed(c)
  PROVE  Goes(c, FetchEffAddrDataByte(c))
<1>1. cpuRead(c, c.EA) \in Byte
  BY WordsHeld, ReadIs DEF Word
<1> QED BY <1>1, Same, Names, BytePut DEF FetchEffAddrDataByte

LEMMA PutWrites ==
  ASSUME NEW c, NEW d, Goes(c, d)
  PROVE  WritesOnce(c, PutEffAddrDataByte(d))
BY WordsHeld, BytesHeld, WriteWrites DEF PutEffAddrDataByte, Goes

LEMMA PushWrites ==
  ASSUME NEW c, Typed(c), NEW v \in Byte
  PROVE  WritesOnce(c, Push(c, v))
<1> DEFINE d == cpuWrite(c, 256 + c.S, v)
<1>1. 256 + c.S \in Word
  BY BytesHeld, SMTT(30) DEF Byte, Word
<1>2. WritesOnce(c, d)
  BY <1>1, Same, WriteWrites
<1> HIDE DEF d
<1>3. Lo(d.S - 1) \in Byte
  <2>1. d.S \in Int
    BY <1>2, BytesHeld, ByteIsInt DEF WritesOnce
  <2> QED BY <2>1, LowByte
<1>4. Goes(d, [d EXCEPT !.S = Lo(@ - 1)])
  BY <1>2, <1>3, Same, Names, BytePut DEF WritesOnce
<1>5. Push(c, v) = [d EXCEPT !.S = Lo(@ - 1)]
  BY DEF Push, d
<1> QED BY <1>2, <1>4, <1>5, OnceWritten

LEMMA PopGoes ==
  ASSUME NEW c, Typed(c)
  PROVE  Goes(c, Pop(c)) /\ Top(c) \in Byte
<1>1. c.S \in Int /\ c.S + 1 \in Int
  BY BytesHeld, ByteIsInt
<1>2. Lo(c.S + 1) \in Byte
  BY <1>1, LowByte
<1>3. 256 + Lo(c.S + 1) \in Int
  BY <1>2, ByteIsInt
<1> QED BY <1>2, <1>3, Same, Names, BytePut, ReadIs DEF Pop, Top

LEMMA PopLowPCGoes ==
  ASSUME NEW c, Typed(c)
  PROVE  Goes(c, PopLowPC(c))
<1> DEFINE d == Pop(c)
           v == Top(c)
<1>1. Goes(c, d) /\ v \in Byte
  BY PopGoes
<1>2. PopLowPC(c) = [d EXCEPT !.EA = 256 * Hi(d.EA) + v]
  BY DEF PopLowPC
<1> HIDE DEF d, v
<1>3. 256 * Hi(d.EA) + v \in Word
  BY <1>1, WordsHeld, WordParts, WordFrom DEF Goes
<1> QED BY <1>1, <1>2, <1>3, Names, WordPut

LEMMA PopHighPCGoes ==
  ASSUME NEW c, Typed(c)
  PROVE  Goes(c, PopHighPC(c))
<1> DEFINE d == Pop(c)
           v == Top(c)
<1>1. Goes(c, d) /\ v \in Byte
  BY PopGoes
<1>2. PopHighPC(c) = [d EXCEPT !.EA = 256 * v + Lo(d.EA)]
  BY DEF PopHighPC
<1> HIDE DEF d, v
<1>3. 256 * v + Lo(d.EA) \in Word
  BY <1>1, WordsHeld, WordParts, WordFrom DEF Goes
<1> QED BY <1>1, <1>2, <1>3, Names, WordPut

LEMMA brkPushLowPCWrites ==
  ASSUME NEW c, Typed(c)
  PROVE  WritesOnce(c, brkPushLowPC(c))
<1> DEFINE d == Push(c, Lo(c.PC))
           w == IF c.nmiFlag THEN \hFFFA ELSE \hFFFE
           e == [d EXCEPT !.EA = w]
<1>1. WritesOnce(c, d)
  BY WordsHeld, WordParts, PushWrites
<1>2. w \in Word
  BY DEF Word
<1>3. brkPushLowPC(c) = [e EXCEPT !.nmiFlag = FALSE]
  BY DEF brkPushLowPC
<1> HIDE DEF d, w
<1>4. Goes(d, e)
  BY <1>1, <1>2, Same, Names, WordPut DEF WritesOnce
<1>5. Goes(d, [e EXCEPT !.nmiFlag = FALSE])
  BY <1>4, Names, FlagPut
<1> QED BY <1>1, <1>3, <1>5, OnceWritten

LEMMA IRQLoRequestGoes ==
  ASSUME NEW c, Typed(c)
  PROVE  Goes(c, IRQLoRequest(c))
<1> DEFINE w == 256 * Hi(c.PC) + cpuRead(c, c.EA)
           d == [c EXCEPT !.PC = w]
<1>1. w \in Word
  <2>1. Hi(c.PC) \in Byte /\ c.EA \in Int
    BY WordsHeld, WordParts, WordIsInt
  <2> QED BY <2>1, ReadIs, WordFrom
<1>2. IRQLoRequest(c) = [d EXCEPT !.d1x1 = FALSE]
  BY DEF IRQLoRequest
<1> HIDE DEF w
<1>3. Goes(c, d)
  BY <1>1, Same, Names, WordPut
<1> HIDE DEF d
<1> QED BY <1>2, <1>3, Names, FlagPut

LEMMA IRQHiRequestGoes ==
  ASSUME NEW c, Typed(c)
  PROVE  Goes(c, IRQHiRequest(c))
<1> DEFINE w == 256 * cpuRead(c, c.EA + 1) + Lo(c.PC)
           d == [c EXCEPT !.PC = w]
<1>1. w \in Word
  <2>1. Lo(c.PC) \in Byte /\ c.EA + 1 \in Int
    BY WordsHeld, WordParts, WordIsInt
  <2> QED BY <2>1, ReadIs, WordFrom
<1>2. IRQHiRequest(c) = [d EXCEPT !.I = TRUE]
  BY DEF IRQHiRequest
<1> HIDE DEF w
<1>3. Goes(c, d)
  BY <1>1, Same, Names, WordPut
<1> HIDE DEF d
<1> QED BY <1>2, <1>3, Names, FlagPut

-----------------------------------------------------------------------------
(* Arithmetic.                                                             *)

LEMMA doADCGoes ==
  ASSUME NEW c, Typed(c)
  PROVE  Goes(c, doADC(c))
<1> DEFINE carry == AsInt(c.C)
           sum == c.A + c.Data + carry
           low == (c.A % 16) + (c.Data % 16) + carry
           lo == IF low > 9 THEN low + 6 ELSE low
           hi == 16 * (c.A \div 16 + c.Data \div 16) + IF lo > 15 THEN 16 ELSE 0
           top == IF hi > \h90 THEN hi + \h60 ELSE hi
           over == Bit(hi, 7) # Bit(c.A, 7) /\ Bit(c.A, 7) = Bit(c.Data, 7)
           d == setNZ(c, sum)
           v == Bit(sum, 7) # Bit(c.A, 7) /\ Bit(c.A, 7) = Bit(c.Data, 7)
<1>1. c.A \in Int /\ c.Data \in Int /\ carry \in Int
  BY BytesHeld, ByteIsInt, AsIntIs
<1>2. Lo(sum) \in Byte
  BY <1>1, LowByte
<1>3. Lo(top) + (lo % 16) \in Byte
  <2>1. PICK h \in Int : top = 16 * h
    <3> DEFINE n == c.A \div 16 + c.Data \div 16 + IF lo > 15 THEN 1 ELSE 0
    <3>1. n \in Int /\ hi = 16 * n
      BY <1>1
    <3> HIDE DEF n, hi
    <3>2. top = 16 * (n + 6) \/ top = 16 * n
      BY <3>1
    <3>3. n + 6 \in Int
      BY <3>1
    <3> HIDE DEF top
    <3> QED BY <3>1, <3>2, <3>3
  <2>2. lo \in Int
    BY <1>1
  <2> HIDE DEF top, lo
  <2> QED BY <2>1, <2>2, Decimal
<1>4. CASE c.D
  <2> DEFINE d1 == [c EXCEPT !.Z = Lo(sum) = 0]
             d2 == [d1 EXCEPT !.N = Bit(hi, 7)]
             d3 == [d2 EXCEPT !.V = over]
             d4 == [d3 EXCEPT !.C = top > 255]
             d5 == [d4 EXCEPT !.A = Lo(top) + (lo % 16)]
  <2>1. doADC(c) = d5
    BY <1>4 DEF doADC
  <2> HIDE DEF sum, hi, over, top, lo, d1, d2, d3, d4, d5
  <2>2. Goes(c, d1)
    BY Same, Names, FlagPut DEF d1
  <2>3. Goes(c, d2)
    BY <2>2, Names, FlagPut DEF d2
  <2>4. Goes(c, d3)
    BY <2>3, Names, FlagPut DEF d3
  <2>5. Goes(c, d4)
    BY <2>4, Names, FlagPut DEF d4
  <2>6. Goes(c, d5)
    BY <1>3, <2>5, Names, BytePut DEF d5
  <2> QED BY <2>1, <2>6
<1>5. CASE ~c.D
  <2> DEFINE d1 == [d EXCEPT !.C = sum > 255]
             d2 == [d1 EXCEPT !.V = v]
             d3 == [d2 EXCEPT !.A = Lo(sum)]
  <2>1. doADC(c) = d3
    BY <1>5 DEF doADC
  <2>2. Goes(c, d)
    BY Same, setNZGoes
  <2> HIDE DEF sum, v, d, d1, d2, d3
  <2>3. Goes(c, d1)
    BY <2>2, Names, FlagPut DEF d1
  <2>4. Goes(c, d2)
    BY <2>3, Names, FlagPut DEF d2
  <2>5. Goes(c, d3)
    BY <1>2, <2>4, Names, BytePut DEF d3
  <2> QED BY <2>1, <2>5
<1> QED BY <1>4, <1>5

LEMMA doSBCGoes ==
  ASSUME NEW c, Typed(c)
  PROVE  Goes(c, doSBC(c))
<1> DEFINE borrow == AsInt(~c.C)
           difference == c.A - c.Data - borrow
           low == (c.A % 16) - (c.Data % 16) - borrow
           lo == IF Bit(low, 4) THEN low - 6 ELSE low
           high == 16 * (c.A \div 16 - c.Data \div 16) - IF Bit(low, 4) THEN 16 ELSE 0
           hi == IF Bit(high, 8) THEN high - \h60 ELSE high
           over == Bit(difference, 7) # Bit(c.A, 7) /\ Bit(c.A, 7) # Bit(c.Data, 7)
           a == IF c.D THEN Lo(hi) + (lo % 16) ELSE Lo(difference)
           d1 == setNZ(c, difference)
           d2 == [d1 EXCEPT !.C = difference >= 0]
           d3 == [d2 EXCEPT !.V = over]
<1>1. c.A \in Int /\ c.Data \in Int /\ borrow \in Int
  BY BytesHeld, ByteIsInt, AsIntIs
<1>2. a \in Byte
  <2>1. Lo(difference) \in Byte
    BY <1>1, LowByte
  <2>2. PICK h \in Int : hi = 16 * h
    <3> DEFINE n == c.A \div 16 - c.Data \div 16 - IF Bit(low, 4) THEN 1 ELSE 0
    <3>1. n \in Int /\ high = 16 * n
      BY <1>1
    <3> HIDE DEF n, high
    <3>2. hi = 16 * (n - 6) \/ hi = 16 * n
      BY <3>1
    <3>3. n - 6 \in Int
      BY <3>1
    <3> HIDE DEF hi
    <3> QED BY <3>1, <3>2, <3>3
  <2>3. lo \in Int
    BY <1>1
  <2> HIDE DEF hi, lo, difference
  <2>4. Lo(hi) + (lo % 16) \in Byte
    BY <2>2, <2>3, Decimal
  <2> QED BY <2>1, <2>4
<1>3. doSBC(c) = [d3 EXCEPT !.A = a]
  BY DEF doSBC
<1>4. Goes(c, d1)
  BY Same, setNZGoes
<1> HIDE DEF difference, over, a, d1, d2, d3
<1>5. Goes(c, d2)
  BY <1>4, Names, FlagPut DEF d2
<1>6. Goes(c, d3)
  BY <1>5, Names, FlagPut DEF d3
<1>7. Goes(c, [d3 EXCEPT !.A = a])
  BY <1>2, <1>6, Names, BytePut
<1> QED BY <1>3, <1>7

LEMMA ShiftAccumulatorFinishes ==
  ASSUME NEW c, NEW d, Goes(c, d), NEW op \in {"ASL", "LSR", "ROL", "ROR"}
  PROVE  Finishes(c, ShiftAccumulator(d, op))
<1> DEFINE s == Shifted(op, d.A, d.C)
           e == setNZ(d, s[1])
           f == [e EXCEPT !.A = s[1]]
<1>1. s[1] \in Byte
  BY BytesHeld, ShiftedIs DEF Goes
<1>2. ShiftAccumulator(d, op) = Done([f EXCEPT !.C = s[2]])
  BY DEF ShiftAccumulator
<1>3. Goes(c, e)
  BY setNZGoes
<1> HIDE DEF s, e, f
<1>4. Goes(c, f)
  BY <1>1, <1>3, Names, BytePut DEF f
<1>5. Goes(c, [f EXCEPT !.C = s[2]])
  BY <1>4, Names, FlagPut
<1> QED BY <1>2, <1>5, DoneFinishes

LEMMA ShiftMemoryWrites ==
  ASSUME NEW c, Typed(c), NEW op \in {"ASL", "LSR", "ROL", "ROR"}
  PROVE  WritesOnce(c, ShiftMemory(c, op))
<1> DEFINE s == Shifted(op, c.Data, c.C)
           d == PutEffAddrDataByte(c)
           e == setNZ(d, s[1])
           f == [e EXCEPT !.Data = s[1]]
<1>1. s[1] \in Byte
  BY BytesHeld, ShiftedIs
<1>2. WritesOnce(c, d)
  BY Same, PutWrites
<1>3. ShiftMemory(c, op) = [f EXCEPT !.C = s[2]]
  BY DEF ShiftMemory
<1> HIDE DEF s, d, e, f
<1>4. Goes(d, e)
  BY <1>2, Same, setNZGoes DEF WritesOnce, e
<1>5. Goes(d, f)
  BY <1>1, <1>4, Names, BytePut DEF f
<1>6. Goes(d, [f EXCEPT !.C = s[2]])
  BY <1>5, Names, FlagPut
<1> QED BY <1>2, <1>3, <1>6, OnceWritten

LEMMA StepWrites ==
  ASSUME NEW c, Typed(c), NEW by \in {-1, 1}
  PROVE  WritesOnce(c, Step(c, by))
<1> DEFINE v == Lo(c.Data + by)
           d == PutEffAddrDataByte(c)
           e == setNZ(d, v)
<1>1. v \in Byte
  <2>1. c.Data + by \in Int
    BY BytesHeld, ByteIsInt
  <2> QED BY <2>1, LowByte
<1>2. WritesOnce(c, d)
  BY Same, PutWrites
<1>3. Step(c, by) = [e EXCEPT !.Data = v]
  BY DEF Step
<1> HIDE DEF v, d, e
<1>4. Goes(d, e)
  BY <1>2, Same, setNZGoes DEF WritesOnce, e
<1>5. Goes(d, [e EXCEPT !.Data = v])
  BY <1>1, <1>4, Names, BytePut
<1> QED BY <1>2, <1>3, <1>5, OnceWritten

LEMMA sh_instrWrites ==
  ASSUME NEW c, NEW d, Goes(c, d), NEW v \in Byte
  PROVE  WritesOnce(c, sh_instr(d, v))
<1> DEFINE high == Hi(d.EA)
           mask == IF d.adl_carry THEN high ELSE Lo(high + 1)
           w == IF d.adl_carry THEN 256 * And(high, v) + Lo(d.EA) ELSE d.EA
           b == IF d.rdyOnThrowAwayRead THEN v ELSE And(v, mask)
           e == [d EXCEPT !.EA = w]
           f == [e EXCEPT !.Data = b]
<1>1. high \in Byte /\ Lo(d.EA) \in Byte /\ d.EA \in Word
  BY WordsHeld, WordParts DEF Goes
<1>2. sh_instr(d, v) = PutEffAddrDataByte(f)
  BY DEF sh_instr
<1> HIDE DEF high
<1>3. mask \in Byte
  <2>1. high + 1 \in Int
    BY <1>1, ByteIsInt
  <2> QED BY <1>1, <2>1, LowByte
<1> HIDE DEF mask
<1>4. w \in Word /\ b \in Byte
  BY <1>1, <1>3, BitsOfByte, WordFrom
<1> HIDE DEF w, b, e, f
<1>5. Goes(c, e)
  BY <1>4, Names, WordPut DEF e
<1>6. Goes(c, f)
  BY <1>4, <1>5, Names, BytePut DEF f
<1> QED BY <1>2, <1>6, PutWrites

LEMMA branch_instrGoes ==
  ASSUME NEW c, Typed(c), NEW condition
  PROVE  LET d == branch_instr(c, condition) IN Goes(c, d) \/ Skips(c, d) \/ Finishes(c, d)
<1> DEFINE low == Lo(c.PC) + c.Data
           crossed == (low > 255) # (c.Data > \h7F)
           target == 256 * Hi(c.PC) + Lo(low)
           d == [c EXCEPT !.EA = target]
           e == [d EXCEPT !.PC = target]
           f == [e EXCEPT !.adl_carry = crossed]
<1>1. target \in Word
  <2>1. Hi(c.PC) \in Byte /\ Lo(c.PC) \in Int /\ c.Data \in Int
    BY WordsHeld, BytesHeld, WordParts, ByteIsInt
  <2>2. low \in Int
    BY <2>1
  <2> HIDE DEF low
  <2> QED BY <2>1, <2>2, HighLow
<1>2. CASE ~condition
  BY <1>2, Same, DoneFinishes DEF branch_instr
<1>3. CASE condition
  <2>1. branch_instr(c, condition) = Skip(f)
    BY <1>3 DEF branch_instr
  <2> HIDE DEF low, crossed, target, d, e, f
  <2>2. Goes(c, d)
    BY <1>1, Same, Names, WordPut DEF d
  <2>3. Goes(c, e)
    BY <1>1, <2>2, Names, WordPut DEF e
  <2>4. Goes(c, f)
    BY <2>3, Names, FlagPut DEF f
  <2> QED BY <2>1, <2>4, SkipSkips
<1> QED BY <1>2, <1>3

LEMMA fix_branchGoes ==
  ASSUME NEW c, Typed(c)
  PROVE  Goes(c, fix_branch(c))
<1> DEFINE w == (c.PC + IF c.Data < \h80 THEN \h0100 ELSE \hFF00) % 65536
<1>1. w \in Word
  BY WordsHeld DEF Word
<1>2. fix_branch(c) = [c EXCEPT !.PC = w]
  BY DEF fix_branch
<1> HIDE DEF w
<1> QED BY <1>1, <1>2, Same, Names, WordPut

LEMMA arr_instrFinishes ==
  ASSUME NEW c, Typed(c)
  PROVE  Finishes(c, arr_instr(c))
<1> DEFINE data == And(c.Data, c.A)
           shifted == data \div 2 + 128 * AsInt(c.C)
           adjusted == IF (data % 16) + (data % 2) > 5
                       THEN 16 * (shifted \div 16) + ((shifted + 6) % 16) ELSE shifted
           high == 16 * ((data \div 16) + ((data \div 16) % 2))
           a == IF c.D THEN adjusted + IF high > \h50 THEN \h60 ELSE 0 ELSE shifted
           carry == IF c.D THEN high > \h50 ELSE Bit(shifted, 6)
           over == IF c.D THEN Bit(data, 6) # Bit(shifted, 6) ELSE Bit(shifted, 6) # Bit(shifted, 5)
           d == setNZ(c, shifted)
           e == [d EXCEPT !.A = Lo(a)]
           f == [e EXCEPT !.C = carry]
           g == [f EXCEPT !.V = over]
<1>1. arr_instr(c) = Done(g)
  BY DEF arr_instr
<1>2. Lo(a) \in Byte
  <2>1. data \in Int /\ AsInt(c.C) \in Int
    BY BytesHeld, BitsOfByte, ByteIsInt, AsIntIs
  <2> HIDE DEF data
  <2>2. shifted \in Int
    BY <2>1
  <2> HIDE DEF shifted
  <2>3. a \in Int
    BY <2>1, <2>2
  <2> HIDE DEF a
  <2> QED BY <2>3, LowByte
<1> HIDE DEF data, shifted, adjusted, high, a, carry, over, d, e, f, g
<1>3. Goes(c, d)
  BY Same, setNZGoes DEF d
<1>4. Goes(c, e)
  BY <1>2, <1>3, Names, BytePut DEF e
<1>5. Goes(c, f)
  BY <1>4, Names, FlagPut DEF f
<1>6. Goes(c, g)
  BY <1>5, Names, FlagPut DEF g
<1> QED BY <1>1, <1>6, DoneFinishes

-----------------------------------------------------------------------------
(* The functions.                                                          *)

LEMMA FlagFinishes ==
  ASSUME NEW c, Typed(c), NEW r \in Flags, NEW v
  PROVE  Finishes(c, Done([c EXCEPT ![r] = v]))
BY Same, FlagPut, DoneFinishes

LEMMA LoadFinishes ==
  ASSUME NEW c, Typed(c), NEW r \in {"A", "X", "Y"}, NEW v \in Byte
  PROVE  Finishes(c, Done(Load(c, r, v)))
BY Same, LoadGoes, DoneFinishes

LEMMA CompareFinishes ==
  ASSUME NEW c, Typed(c), NEW v
  PROVE  Finishes(c, Done(Compare(c, v)))
BY Same, CompareGoes, DoneFinishes

LEMMA RegisterStored ==
  ASSUME NEW c, Typed(c), NEW v \in Byte
  PROVE  WritesOnce(c, PutEffAddrDataByte([c EXCEPT !.Data = v]))
BY Same, Names, BytePut, PutWrites

LEMMA CommonOutcome ==
  ASSUME NEW c, Typed(c), NEW f \in Common
  PROVE  Outcome(f, c, CommonOperation(f, c))
<1> USE DEF Outcome, Writers, Skippers, Stores, ReadModifyWrites
<1>1. CASE f \in {"CLD", "CLI", "SED", "SEI"}
  BY <1>1, Names, FlagFinishes DEF CommonOperation
<1>2. CASE f \in {"JMP", "RTI"}
  <2>1. Finishes(c, jmp_instr(c))
    BY WordsHeld, Same, Names, WordPut, DoneFinishes DEF jmp_instr
  <2> QED BY <1>2, <2>1 DEF CommonOperation
<1>3. CASE f = "RTS"
  <2>1. (c.EA + 1) % 65536 \in Word
    BY WordsHeld DEF Word
  <2>2. Goes(c, rts_instr(c))
    BY <2>1, Same, Names, WordPut DEF rts_instr
  <2> QED BY <1>3, <2>2 DEF CommonOperation
<1>4. CASE f = "PHA"
  BY <1>4, BytesHeld, PushWrites DEF CommonOperation
<1>5. CASE f \in {"STA", "STX", "STY", "SAX"}
  BY <1>5, BytesHeld, BitsOfByte, RegisterStored DEF CommonOperation
<1> QED BY <1>1, <1>2, <1>3, <1>4, <1>5 DEF Common

LEMMA UnstableOutcome ==
  ASSUME NEW c, Typed(c), NEW f \in Unstable
  PROVE  Outcome(f, c, UnstableStore(f, c))
<1> USE DEF Outcome, Writers, Stores
<1>1. /\ c.X \in Byte /\ c.Y \in Byte /\ And(c.X, c.A) \in Byte /\ And(c.A, c.X) \in Byte
      /\ Goes(c, c)
  BY BytesHeld, BitsOfByte, Same
<1>2. CASE f \in {"SHA", "SHX", "SHY"}
  BY <1>1, <1>2, sh_instrWrites DEF UnstableStore
<1>3. CASE f = "SHS"
  <2> DEFINE s == And(c.A, c.X)
             d == [c EXCEPT !.S = s]
  <2>1. Goes(c, d)
    BY <1>1, Names, BytePut
  <2>2. UnstableStore(f, c) = sh_instr(d, s)
    BY <1>3 DEF UnstableStore
  <2> HIDE DEF s, d
  <2>3. WritesOnce(c, sh_instr(d, s))
    BY <1>1, <2>1, sh_instrWrites DEF s
  <2> QED BY <1>3, <2>2, <2>3
<1> QED BY <1>2, <1>3 DEF Unstable

LEMMA AtoBOutcome ==
  ASSUME NEW c, Typed(c), NEW f \in AtoB
  PROVE  Outcome(f, c, OperationAtoB(f, c))
<1> USE DEF Outcome, Writers, Skippers, Stores, ReadModifyWrites
<1>1. CASE f = "ADC"
  BY <1>1, doADCGoes, DoneFinishes DEF OperationAtoB
<1>2. CASE f \in {"AND", "ANE"}
  <2>1. And(c.A, c.Data) \in Byte /\ And(And(Or(c.A, \hEF), c.X), c.Data) \in Byte
    <3>1. \hEF \in Byte
      BY DEF Byte
    <3> QED BY <3>1, BytesHeld, BitsOfByte
  <2> QED BY <1>2, <2>1, LoadFinishes DEF OperationAtoB
<1>3. CASE f = "ASL"
  BY <1>3, ShiftMemoryWrites DEF OperationAtoB
<1>4. CASE f = "ASLA"
  BY <1>4, Same, ShiftAccumulatorFinishes DEF OperationAtoB
<1>5. CASE f = "fix_branch"
  BY <1>5, fix_branchGoes DEF OperationAtoB
<1>6. CASE f = "BIT"
  <2> DEFINE d == [c EXCEPT !.Z = And(c.A, c.Data) = 0]
             e == [d EXCEPT !.N = Bit(c.Data, 7)]
  <2>1. Goes(c, d)
    BY Same, Names, FlagPut
  <2>2. OperationAtoB(f, c) = Done([e EXCEPT !.V = Bit(c.Data, 6)])
    BY <1>6 DEF OperationAtoB
  <2> HIDE DEF d, e
  <2>3. Goes(c, e)
    BY <2>1, Names, FlagPut DEF e
  <2>4. Goes(c, [e EXCEPT !.V = Bit(c.Data, 6)])
    BY <2>3, Names, FlagPut
  <2> QED BY <1>6, <2>2, <2>4, DoneFinishes
<1>7. CASE f \in {"BCC", "BCS", "BEQ", "BMI", "BNE", "BPL", "BVC", "BVS"}
  <2>1. PICK condition : OperationAtoB(f, c) = branch_instr(c, condition)
    BY <1>7 DEF OperationAtoB
  <2> QED BY <1>7, <2>1, branch_instrGoes
<1> QED BY <1>1, <1>2, <1>3, <1>4, <1>5, <1>6, <1>7 DEF AtoB

LEMMA CtoLOutcome ==
  ASSUME NEW c, Typed(c), NEW f \in CtoL
  PROVE  Outcome(f, c, OperationCtoL(f, c))
<1> USE DEF Outcome, Writers, Skippers, Stores, ReadModifyWrites
<1>1. CASE f \in {"CLC", "CLV"}
  BY <1>1, Names, FlagFinishes DEF OperationCtoL
<1>2. CASE f \in {"CMP", "CPX", "CPY"}
  BY <1>2, CompareFinishes DEF OperationCtoL
<1>3. CASE f \in {"DEC", "INC"}
  BY <1>3, StepWrites DEF OperationCtoL
<1>4. CASE f \in {"DEX", "DEY", "INX", "INY"}
  <2>1. /\ c.X - 1 \in Int /\ c.X + 1 \in Int /\ c.Y - 1 \in Int /\ c.Y + 1 \in Int
    BY BytesHeld, ByteIsInt
  <2>2. Lo(c.X - 1) \in Byte /\ Lo(c.X + 1) \in Byte /\ Lo(c.Y - 1) \in Byte /\ Lo(c.Y + 1) \in Byte
    BY <2>1, LowByte
  <2> QED BY <1>4, <2>2, LoadFinishes DEF OperationCtoL
<1>5. CASE f \in {"EOR", "LDA", "LDX", "LDY"}
  BY <1>5, BytesHeld, BitsOfByte, LoadFinishes DEF OperationCtoL
<1>6. CASE f = "LSR"
  BY <1>6, ShiftMemoryWrites DEF OperationCtoL
<1>7. CASE f = "LSRA"
  BY <1>7, Same, ShiftAccumulatorFinishes DEF OperationCtoL
<1> QED BY <1>1, <1>2, <1>3, <1>4, <1>5, <1>6, <1>7 DEF CtoL

LEMMA OtoTOutcome ==
  ASSUME NEW c, Typed(c), NEW f \in OtoT
  PROVE  Outcome(f, c, OperationOtoT(f, c))
<1> USE DEF Outcome, Writers, Skippers, Stores, ReadModifyWrites
<1>1. CASE f \in {"ORA", "TAX", "TAY", "TSX", "TXA", "TYA"}
  BY <1>1, BytesHeld, BitsOfByte, LoadFinishes DEF OperationOtoT
<1>2. CASE f = "PLA"
  BY <1>2, PopGoes, LoadGoes DEF OperationOtoT
<1>3. CASE f \in {"ROL", "ROR"}
  BY <1>3, ShiftMemoryWrites DEF OperationOtoT
<1>4. CASE f \in {"ROLA", "RORA"}
  BY <1>4, Same, ShiftAccumulatorFinishes DEF OperationOtoT
<1>5. CASE f = "SBX"
  <2> DEFINE x == And(c.X, c.A)
             d == Compare(c, x)
             v == Lo(x - c.Data)
  <2>1. v \in Byte
    <3>1. x \in Int /\ c.Data \in Int
      BY BytesHeld, BitsOfByte, ByteIsInt
    <3> HIDE DEF x
    <3>2. x - c.Data \in Int
      BY <3>1
    <3> QED BY <3>2, LowByte
  <2>2. Goes(c, d)
    BY Same, CompareGoes
  <2>3. OperationOtoT(f, c) = Done([d EXCEPT !.X = v])
    BY <1>5 DEF OperationOtoT
  <2> HIDE DEF x, d, v
  <2>4. Goes(c, [d EXCEPT !.X = v])
    BY <2>1, <2>2, Names, BytePut
  <2> QED BY <1>5, <2>3, <2>4, DoneFinishes
<1>6. CASE f = "SBC"
  BY <1>6, doSBCGoes, DoneFinishes DEF OperationOtoT
<1>7. CASE f = "SEC"
  BY <1>7, Names, FlagFinishes DEF OperationOtoT
<1>8. CASE f = "TXS"
  <2>1. Goes(c, [c EXCEPT !.S = c.X])
    BY BytesHeld, Same, Names, BytePut
  <2> QED BY <1>8, <2>1, DoneFinishes DEF OperationOtoT
<1>9. CASE f = "invalidOpcode"
  <2>1. Goes(c, [c EXCEPT !.halted = TRUE])
    BY Same, Names, FlagPut
  <2> QED BY <1>9, <2>1 DEF OperationOtoT
<1> QED BY <1>1, <1>2, <1>3, <1>4, <1>5, <1>6, <1>7, <1>8, <1>9 DEF OtoT

\* An instruction that reads, modifies and writes, and goes on with the result.
LEMMA Combination ==
  ASSUME NEW c, NEW d, WritesOnce(c, d)
  PROVE  /\ Typed(d)
         /\ \A v \in Byte : WritesOnce(c, Load(d, "A", v))
         /\ \A v : WritesOnce(c, Compare(d, v))
         /\ WritesOnce(c, doADC(d)) /\ WritesOnce(c, doSBC(d))
<1>1. Typed(d) /\ Goes(d, d)
  BY Same DEF WritesOnce
<1>2. \A v \in Byte : Goes(d, Load(d, "A", v))
  BY <1>1, LoadGoes
<1>3. \A v : Goes(d, Compare(d, v))
  BY <1>1, CompareGoes
<1>4. Goes(d, doADC(d)) /\ Goes(d, doSBC(d))
  BY <1>1, doADCGoes, doSBCGoes
<1> QED BY <1>1, <1>2, <1>3, <1>4, OnceWritten

LEMMA UndocumentedOutcome ==
  ASSUME NEW c, Typed(c), NEW f \in Undocumented
  PROVE  Outcome(f, c, UndocumentedOperation(f, c))
<1> USE DEF Outcome, Writers, Skippers, Stores, ReadModifyWrites
<1>1. CASE f = "ASR"
  <2> DEFINE a == And(c.A, c.Data)
  <2>1. Goes(c, [c EXCEPT !.A = a])
    BY BytesHeld, BitsOfByte, Same, Names, BytePut
  <2>2. UndocumentedOperation(f, c) = ShiftAccumulator([c EXCEPT !.A = a], "LSR")
    BY <1>1 DEF UndocumentedOperation
  <2> HIDE DEF a
  <2> QED BY <1>1, <2>1, <2>2, ShiftAccumulatorFinishes
<1>2. CASE f = "ANC"
  <2> DEFINE a == And(c.A, c.Data)
             d == Load(c, "A", a)
  <2>1. Goes(c, d)
    BY BytesHeld, BitsOfByte, Same, LoadGoes
  <2>2. UndocumentedOperation(f, c) = Done([d EXCEPT !.C = Bit(a, 7)])
    BY <1>2 DEF UndocumentedOperation
  <2> HIDE DEF a, d
  <2>3. Goes(c, [d EXCEPT !.C = Bit(a, 7)])
    BY <2>1, Names, FlagPut
  <2> QED BY <1>2, <2>2, <2>3, DoneFinishes
<1>3. CASE f = "ARR"
  BY <1>3, arr_instrFinishes DEF UndocumentedOperation
<1>4. CASE f \in {"SLO", "SRE", "RLA"}
  <2>1. PICK op \in {"ASL", "LSR", "ROL"} :
          LET d == ShiftMemory(c, op)
          IN UndocumentedOperation(f, c) \in
               {Load(d, "A", Or(d.A, d.Data)), Load(d, "A", Xor(d.A, d.Data)), Load(d, "A", And(d.A, d.Data))}
    BY <1>4 DEF UndocumentedOperation
  <2> DEFINE d == ShiftMemory(c, op)
  <2>2. WritesOnce(c, d)
    BY ShiftMemoryWrites
  <2> HIDE DEF d
  <2>3. Typed(d) /\ \A v \in Byte : WritesOnce(c, Load(d, "A", v))
    BY <2>2, Combination
  <2>4. Or(d.A, d.Data) \in Byte /\ Xor(d.A, d.Data) \in Byte /\ And(d.A, d.Data) \in Byte
    BY <2>3, BytesHeld, BitsOfByte
  <2>5. WritesOnce(c, UndocumentedOperation(f, c))
    BY <2>1, <2>3, <2>4 DEF d
  <2> QED BY <1>4, <2>5
<1>5. CASE f \in {"DCP", "ISB", "RRA"}
  <2>1. WritesOnce(c, Step(c, -1)) /\ WritesOnce(c, Step(c, 1)) /\ WritesOnce(c, ShiftMemory(c, "ROR"))
    BY StepWrites, ShiftMemoryWrites
  <2>2. /\ WritesOnce(c, Compare(Step(c, -1), Step(c, -1).A))
        /\ WritesOnce(c, doSBC(Step(c, 1)))
        /\ WritesOnce(c, doADC(ShiftMemory(c, "ROR")))
    BY <2>1, Combination
  <2> QED BY <1>5, <2>2 DEF UndocumentedOperation
<1>6. CASE f = "LAS"
  <2> DEFINE v == And(c.Data, c.S)
             d == Load(c, "A", v)
             e == [d EXCEPT !.X = v]
             g == [e EXCEPT !.S = v]
  <2>1. v \in Byte
    BY BytesHeld, BitsOfByte
  <2>2. UndocumentedOperation(f, c) = Done([g EXCEPT !.Data = v])
    BY <1>6 DEF UndocumentedOperation
  <2> HIDE DEF v, d, e, g
  <2>3. Goes(c, d)
    BY <2>1, Same, LoadGoes DEF d
  <2>4. Goes(c, e)
    BY <2>1, <2>3, Names, BytePut DEF e
  <2>5. Goes(c, g)
    BY <2>1, <2>4, Names, BytePut DEF g
  <2>6. Goes(c, [g EXCEPT !.Data = v])
    BY <2>1, <2>5, Names, BytePut
  <2> QED BY <1>6, <2>2, <2>6, DoneFinishes
<1>7. CASE f \in {"LAX", "LXA"}
  <2>1. PICK v \in Byte : UndocumentedOperation(f, c) = Done([Load(c, "A", v) EXCEPT !.X = v])
    <3>1. \hEE \in Byte
      BY DEF Byte
    <3>2. c.Data \in Byte /\ And(c.Data, Or(c.A, \hEE)) \in Byte
      BY <3>1, BytesHeld, BitsOfByte
    <3> QED BY <1>7, <3>2 DEF UndocumentedOperation
  <2>2. Goes(c, Load(c, "A", v))
    BY Same, LoadGoes
  <2>3. Goes(c, [Load(c, "A", v) EXCEPT !.X = v])
    BY <2>2, Names, BytePut
  <2> QED BY <1>7, <2>1, <2>3, DoneFinishes
<1> QED BY <1>1, <1>2, <1>3, <1>4, <1>5, <1>6, <1>7 DEF Undocumented

LEMMA StackOutcome ==
  ASSUME NEW c, Typed(c), NEW f \in OfStack
  PROVE  Outcome(f, c, StackCycle(f, c))
<1> USE DEF Outcome, Writers, Skippers, Stores, ReadModifyWrites
<1>1. CASE f \in {"PushHighPC", "PushLowPC"}
  BY <1>1, WordsHeld, WordParts, PushWrites DEF StackCycle
<1>2. CASE f = "PushSR"
  BY <1>2, StatusIs, PushWrites DEF StackCycle, PushSR
<1>3. CASE f = "PopSR"
  BY <1>3, PopGoes, SetStatusGoes DEF StackCycle, PopSR
<1>4. CASE f \in {"PopLowPC", "PopHighPC"}
  BY <1>4, PopLowPCGoes, PopHighPCGoes DEF StackCycle
<1>5. CASE f = "brkPushLowPC"
  BY <1>5, brkPushLowPCWrites DEF StackCycle
<1>6. CASE f \in {"IRQLoRequest", "IRQHiRequest"}
  BY <1>6, IRQLoRequestGoes, IRQHiRequestGoes DEF StackCycle
<1>7. CASE f = "interruptsAndNextOpcode"
  BY <1>7, Same, DoneFinishes DEF StackCycle
<1>8. CASE f = "fetchNextOpcode"
  <2>1. "ends" \in Fields /\ {"instr", "cycle", "bus"} \subseteq Fields \ {"ends"} /\ Fits("ends", "fetch")
    BY DEF Fields, Words, Bytes, Flags, Fits
  <2>2. Finishes(c, [c EXCEPT !.ends = "fetch"])
    BY <2>1, Changed DEF Finishes, Keeps
  <2> QED BY <1>8, <2>2 DEF StackCycle
<1> QED BY <1>1, <1>2, <1>3, <1>4, <1>5, <1>6, <1>7, <1>8 DEF OfStack

Addressings ==
  {"throwAwayFetch", "WasteCycle", "throwAwayRead", "FetchDataByte", "FetchLowAddr", "FetchLowAddrX",
   "FetchLowAddrY", "FetchHighAddr", "FetchHighAddrX", "FetchHighAddrY", "FetchHighAddrX2",
   "FetchHighAddrY2", "FetchLowPointer", "FetchLowPointerX", "FetchHighPointer", "FetchLowEffAddr",
   "FetchHighEffAddr", "FetchHighEffAddrY", "FetchHighEffAddrY2", "FetchEffAddrDataByte",
   "PutEffAddrDataByte"}

LEMMA AddressingOutcome ==
  ASSUME NEW c, Typed(c), NEW f \in Addressings
  PROVE  Outcome(f, c, AddressingCycle(f, c))
<1> USE DEF Outcome, Writers, Skippers, Stores, ReadModifyWrites
<1>1. c.X \in Byte /\ c.Y \in Byte
  BY BytesHeld
<1>2. CASE f \in {"throwAwayFetch", "WasteCycle", "throwAwayRead", "FetchDataByte", "FetchLowAddr"}
  BY <1>2, Same, throwAwayReadGoes, FetchDataByteGoes, FetchLowAddrGoes DEF AddressingCycle
<1>3. CASE f \in {"FetchLowAddrX", "FetchLowAddrY", "FetchHighAddr", "FetchHighAddrX", "FetchHighAddrY"}
  BY <1>1, <1>3, FetchLowAddrIndexedGoes, FetchHighAddrGoes, FetchHighAddrIndexedGoes DEF AddressingCycle
<1>4. CASE f \in {"FetchHighAddrX2", "FetchHighAddrY2"}
  <2>1. Goes(c, FetchHighAddrIndexed(c, c.X)) /\ Goes(c, FetchHighAddrIndexed(c, c.Y))
    BY <1>1, FetchHighAddrIndexedGoes
  <2> QED BY <1>4, <2>1, SkipSkips DEF AddressingCycle
<1>5. CASE f \in {"FetchLowPointer", "FetchLowPointerX", "FetchHighPointer", "FetchLowEffAddr", "FetchHighEffAddr"}
  BY <1>5, FetchLowPointerGoes, FetchLowPointerXGoes, FetchHighPointerGoes, FetchLowEffAddrGoes,
     FetchHighEffAddrGoes DEF AddressingCycle
<1>6. CASE f \in {"FetchHighEffAddrY", "FetchEffAddrDataByte"}
  BY <1>6, FetchHighEffAddrYGoes, FetchEffAddrDataByteGoes DEF AddressingCycle
<1>7. CASE f = "FetchHighEffAddrY2"
  BY <1>7, FetchHighEffAddrYGoes, SkipSkips DEF AddressingCycle
<1>8. CASE f = "PutEffAddrDataByte"
  BY <1>8, Same, PutWrites DEF AddressingCycle
<1> QED BY <1>2, <1>3, <1>4, <1>5, <1>6, <1>7, <1>8 DEF Addressings

Functions ==
  Common \cup Unstable \cup AtoB \cup CtoL \cup OtoT \cup Undocumented \cup OfStack \cup Addressings

LEMMA PerformOutcome ==
  ASSUME NEW c, Typed(c), NEW f \in Functions
  PROVE  Outcome(f, c, Perform(f, c))
<1>1. CASE f \in Common
  BY <1>1, CommonOutcome DEF Perform, Common, Unstable, AtoB, CtoL, OtoT, Undocumented, OfStack
<1>2. CASE f \in Unstable
  BY <1>2, UnstableOutcome DEF Perform, Common, Unstable, AtoB, CtoL, OtoT, Undocumented, OfStack
<1>3. CASE f \in AtoB
  BY <1>3, AtoBOutcome DEF Perform, Common, Unstable, AtoB, CtoL, OtoT, Undocumented, OfStack
<1>4. CASE f \in CtoL
  BY <1>4, CtoLOutcome DEF Perform, Common, Unstable, AtoB, CtoL, OtoT, Undocumented, OfStack
<1>5. CASE f \in OtoT
  BY <1>5, OtoTOutcome DEF Perform, Common, Unstable, AtoB, CtoL, OtoT, Undocumented, OfStack
<1>6. CASE f \in Undocumented
  BY <1>6, UndocumentedOutcome DEF Perform, Common, Unstable, AtoB, CtoL, OtoT, Undocumented, OfStack
<1>7. CASE f \in OfStack
  BY <1>7, StackOutcome DEF Perform, Common, Unstable, AtoB, CtoL, OtoT, Undocumented, OfStack
<1>8. CASE f \in Addressings
  BY <1>8, AddressingOutcome
    DEF Perform, Common, Unstable, AtoB, CtoL, OtoT, Undocumented, OfStack, Addressings
<1> QED BY <1>1, <1>2, <1>3, <1>4, <1>5, <1>6, <1>7, <1>8 DEF Functions

-----------------------------------------------------------------------------
(* The table of instructions.                                              *)

\* A cycle that cannot be stolen is one that writes.
SoundCycles == {x \in [func : Functions, nosteal : BOOLEAN] : x.nosteal <=> x.func \in Writers}

\* Cycles that do not end with one that leaves out the next.
Sound(s) == s \in Seq(SoundCycles) /\ (Len(s) > 0 => s[Len(s)].func \notin Skippers)

Readers == Functions \ Writers

LEMMA SoundLength ==
  ASSUME NEW s, Sound(s), NEW t, Sound(t)
  PROVE  s \o t \in Seq(SoundCycles) /\ Len(s \o t) = Len(s) + Len(t) /\ Len(s) \in Nat /\ Len(t) \in Nat
BY DEF Sound

LEMMA SoundJoint ==
  ASSUME NEW s, Sound(s), NEW t, Sound(t)
  PROVE  Sound(s \o t)
<1>1. s \o t \in Seq(SoundCycles) /\ Len(s \o t) = Len(s) + Len(t)
  BY DEF Sound
<1>2. CASE Len(t) = 0
  <2>1. t = <<>>
    BY <1>2 DEF Sound
  <2>2. s \o t = s
    BY <2>1 DEF Sound
  <2> QED BY <2>2
<1>3. CASE Len(t) > 0
  <2>1. (s \o t)[Len(s \o t)] = t[Len(t)]
    BY <1>1, <1>3 DEF Sound
  <2> QED BY <1>1, <1>3, <2>1 DEF Sound
<1>4. Len(t) = 0 \/ Len(t) > 0
  BY DEF Sound
<1> QED BY <1>2, <1>3, <1>4

LEMMA ReadsSound ==
  ASSUME NEW s \in Seq(Readers), Len(s) > 0 => s[Len(s)] \notin Skippers
  PROVE  Sound(R(s))
<1>1. R(s) = [k \in 1 .. Len(s) |-> [func |-> s[k], nosteal |-> FALSE]]
  BY DEF R, Cycles
<1>2. \A k \in 1 .. Len(s) : [func |-> s[k], nosteal |-> FALSE] \in SoundCycles
  BY DEF SoundCycles, Readers
<1>3. R(s) \in Seq(SoundCycles) /\ Len(R(s)) = Len(s)
  BY <1>1, <1>2
<1> QED BY <1>1, <1>3 DEF Sound

LEMMA WritesSound ==
  ASSUME NEW s \in Seq(Writers \cap Functions)
  PROVE  Sound(W(s))
<1>1. W(s) = [k \in 1 .. Len(s) |-> [func |-> s[k], nosteal |-> TRUE]]
  BY DEF W, Cycles
<1>2. \A k \in 1 .. Len(s) : [func |-> s[k], nosteal |-> TRUE] \in SoundCycles
  BY DEF SoundCycles
<1>3. W(s) \in Seq(SoundCycles) /\ Len(W(s)) = Len(s)
  BY <1>1, <1>2
<1>4. \A k \in 1 .. Len(s) : W(s)[k].func \notin Skippers
  <2>1. Writers \cap Skippers = {}
    BY DEF Writers, Skippers, Stores, ReadModifyWrites
  <2> QED BY <1>1, <2>1
<1> QED BY <1>3, <1>4 DEF Sound

Modes == {"n", "b", "r", "z", "zx", "zy", "a", "w", "ax", "ay", "i", "ix", "iy"}

Fetches == Addressings \ {"PutEffAddrDataByte"}

LEMMA FetchesRead == Fetches \subseteq Readers
BY DEF Fetches, Readers, Functions, Addressings, Writers, Stores, ReadModifyWrites

LEMMA ShortReads ==
  ASSUME NEW op, NEW mode \in Short
  PROVE  LET s == ShortAddressing(op, mode)
         IN s \in Seq(Fetches) /\ Len(s) > 0 /\ s[Len(s)] \notin Skippers
<1> DEFINE s == ShortAddressing(op, mode)
<1>1. {"FetchDataByte", "throwAwayFetch", "FetchLowAddr", "FetchLowAddrX", "WasteCycle", "FetchLowAddrY",
       "FetchHighAddr"} \subseteq Fetches \ Skippers
  BY DEF Fetches, Addressings, Skippers
<1>2. \/ s \in {<<"FetchDataByte">>, <<"throwAwayFetch">>, <<"FetchLowAddr">>}
      \/ s \in {<<"FetchLowAddrX", "WasteCycle">>, <<"FetchLowAddrY", "WasteCycle">>, <<"FetchLowAddr", "FetchHighAddr">>}
  BY DEF ShortAddressing, Short
<1> HIDE DEF s
<1>3. CASE s \in {<<"FetchDataByte">>, <<"throwAwayFetch">>, <<"FetchLowAddr">>}
  <2>1. PICK f \in Fetches \ Skippers : s = <<f>>
    BY <1>1, <1>3
  <2> QED BY <2>1 DEF s
<1>4. CASE s \in {<<"FetchLowAddrX", "WasteCycle">>, <<"FetchLowAddrY", "WasteCycle">>, <<"FetchLowAddr", "FetchHighAddr">>}
  <2>1. PICK f, g \in Fetches \ Skippers : s = <<f, g>>
    BY <1>1, <1>4
  <2> QED BY <2>1 DEF s
<1> QED BY <1>2, <1>3, <1>4

LEMMA LongReads ==
  ASSUME NEW op, NEW mode \in Modes \ Short
  PROVE  LET s == LongAddressing(op, mode)
         IN s \in Seq(Fetches) /\ Len(s) > 0 /\ s[Len(s)] \notin Skippers
<1> DEFINE s == LongAddressing(op, mode)
<1>1. CASE mode \in {"ax", "ay"}
  <2>1. PICK f \in {"FetchHighAddrX", "FetchHighAddrX2", "FetchHighAddrY", "FetchHighAddrY2"} :
          s = <<"FetchLowAddr", f, "throwAwayRead">>
    BY <1>1 DEF LongAddressing
  <2>2. "FetchLowAddr" \in Fetches /\ f \in Fetches /\ "throwAwayRead" \in Fetches \ Skippers
    BY DEF Fetches, Addressings, Skippers
  <2> QED BY <2>1, <2>2
<1>2. CASE mode \in {"i", "ix"}
  <2>1. PICK f \in {"FetchHighPointer", "FetchLowPointerX"} :
          s = <<"FetchLowPointer", f, "FetchLowEffAddr", "FetchHighEffAddr">>
    BY <1>2 DEF LongAddressing
  <2>2. /\ "FetchLowPointer" \in Fetches /\ f \in Fetches /\ "FetchLowEffAddr" \in Fetches
        /\ "FetchHighEffAddr" \in Fetches \ Skippers
    BY DEF Fetches, Addressings, Skippers
  <2> QED BY <2>1, <2>2
<1>3. CASE mode = "iy"
  <2>1. PICK f \in {"FetchHighEffAddrY", "FetchHighEffAddrY2"} :
          s = <<"FetchLowPointer", "FetchLowEffAddr", f, "throwAwayRead">>
    BY <1>3 DEF LongAddressing
  <2>2. /\ "FetchLowPointer" \in Fetches /\ f \in Fetches /\ "FetchLowEffAddr" \in Fetches
        /\ "throwAwayRead" \in Fetches \ Skippers
    BY DEF Fetches, Addressings, Skippers
  <2> QED BY <2>1, <2>2
<1> QED BY <1>1, <1>2, <1>3 DEF Modes, Short

LEMMA AddressingSound ==
  ASSUME NEW op, NEW mode \in Modes
  PROVE  Sound(Addressing(op, mode))
<1> DEFINE s == IF mode \in Short THEN ShortAddressing(op, mode) ELSE LongAddressing(op, mode)
           t == IF mode \in {"z", "zx", "zy", "a", "ax", "ay", "ix", "iy"} /\ ReadsOperand(op)
                THEN <<"FetchEffAddrDataByte">> ELSE <<>>
<1>1. s \in Seq(Fetches) /\ Len(s) > 0 /\ s[Len(s)] \notin Skippers
  BY ShortReads, LongReads
<1>2. t \in Seq(Fetches) /\ (Len(t) > 0 => t[Len(t)] \notin Skippers)
  <2>1. "FetchEffAddrDataByte" \in Fetches \ Skippers
    BY DEF Fetches, Addressings, Skippers
  <2>2. t = <<"FetchEffAddrDataByte">> \/ t = <<>>
    OBVIOUS
  <2> HIDE DEF t
  <2>3. CASE t = <<"FetchEffAddrDataByte">>
    <3>1. t \in Seq(Fetches) /\ Len(t) = 1 /\ t[1] = "FetchEffAddrDataByte"
      BY <2>1, <2>3
    <3> QED BY <2>1, <3>1
  <2>4. CASE t = <<>>
    BY <2>4
  <2> QED BY <2>2, <2>3, <2>4
<1>3. Addressing(op, mode) = R(s \o t)
  BY DEF Addressing
<1> HIDE DEF s, t
<1>4. s \o t \in Seq(Fetches) /\ Len(s \o t) = Len(s) + Len(t)
  BY <1>1, <1>2
<1>5. (s \o t)[Len(s \o t)] \notin Skippers
  <2>1. CASE Len(t) = 0
    <3>1. t = <<>>
      BY <1>2, <2>1
    <3>2. s \o t = s
      BY <1>1, <3>1
    <3> QED BY <1>1, <3>2
  <2>2. CASE Len(t) > 0
    <3>1. (s \o t)[Len(s \o t)] = t[Len(t)]
      BY <1>1, <1>2, <1>4, <2>2
    <3> QED BY <1>2, <2>2, <3>1
  <2>3. Len(t) = 0 \/ Len(t) > 0
    BY <1>2
  <2> QED BY <2>1, <2>2, <2>3
<1>6. s \o t \in Seq(Readers)
  BY <1>4, FetchesRead
<1> QED BY <1>3, <1>5, <1>6, ReadsSound

SoundTable(t) == \A x \in DOMAIN t : Sound(t[x])

LEMMA JoinedDomain ==
  ASSUME NEW tables, NEW k \in DOMAIN tables, NEW x \in DOMAIN tables[k]
  PROVE  x \in DOMAIN Joined(tables)
BY DEF Joined

LEMMA JoinedIs ==
  ASSUME NEW tables, NEW x \in DOMAIN Joined(tables)
  PROVE  \E k \in DOMAIN tables : x \in DOMAIN tables[k] /\ Joined(tables)[x] = tables[k][x]
<1> DEFINE k == CHOOSE k \in DOMAIN tables : x \in DOMAIN tables[k]
<1>1. \E j \in DOMAIN tables : x \in DOMAIN tables[j]
  BY DEF Joined
<1>2. k \in DOMAIN tables /\ x \in DOMAIN tables[k]
  BY <1>1
<1>3. Joined(tables)[x] = tables[k][x]
  BY DEF Joined
<1> QED BY <1>2, <1>3

LEMMA JoinedSound ==
  ASSUME NEW tables, \A k \in DOMAIN tables : SoundTable(tables[k])
  PROVE  SoundTable(Joined(tables))
BY JoinedIs DEF SoundTable

LEMMA SimpleSound ==
  ASSUME NEW ops, ops \subseteq Readers \ Skippers
  PROVE  SoundTable(Simple(ops))
<1>1. ASSUME NEW op \in ops PROVE Sound(R(<<op>>))
  <2>1. <<op>> \in Seq(Readers) /\ Len(<<op>>) = 1 /\ <<op>>[1] \notin Skippers
    OBVIOUS
  <2> QED BY <2>1, ReadsSound
<1> QED BY <1>1 DEF SoundTable, Simple

LEMMA BranchesSound ==
  ASSUME NEW ops, ops \subseteq Readers
  PROVE  SoundTable(Branches(ops))
<1>1. ASSUME NEW op \in ops PROVE Sound(R(<<op, "fix_branch">>))
  <2>1. "fix_branch" \in Readers \ Skippers
    BY DEF Readers, Functions, AtoB, Writers, Stores, ReadModifyWrites, Skippers
  <2>2. <<op, "fix_branch">> \in Seq(Readers) /\ Len(<<op, "fix_branch">>) = 2 /\ <<op, "fix_branch">>[2] \notin Skippers
    BY <2>1
  <2> QED BY <2>2, ReadsSound
<1> QED BY <1>1 DEF SoundTable, Branches

LEMMA StoringSound ==
  ASSUME NEW ops, ops \subseteq Writers \cap Functions
  PROVE  SoundTable(Storing(ops))
<1>1. ASSUME NEW op \in ops PROVE Sound(W(<<op>>))
  <2>1. <<op>> \in Seq(Writers \cap Functions)
    OBVIOUS
  <2> QED BY <2>1, WritesSound
<1> QED BY <1>1 DEF SoundTable, Storing

LEMMA ModifyingSound ==
  ASSUME NEW ops, ops \subseteq Writers \cap Functions
  PROVE  SoundTable(Modifying(ops))
<1>1. "PutEffAddrDataByte" \in Writers \cap Functions
  BY DEF Writers, Functions, Addressings
<1>2. ASSUME NEW op \in ops PROVE Sound(W(<<op, "PutEffAddrDataByte">>))
  <2>1. <<op, "PutEffAddrDataByte">> \in Seq(Writers \cap Functions)
    BY <1>1
  <2> QED BY <2>1, WritesSound
<1> QED BY <1>2 DEF SoundTable, Modifying

\* The functions as sets.
LEMMA Kinds ==
  /\ {"ADC", "ANC", "AND", "ANE", "ARR", "ASLA", "ASR", "BIT", "CLC", "CLD", "CLI", "CLV", "CMP", "CPX",
      "CPY", "DEX", "DEY", "EOR", "INX", "INY", "LAS", "LAX", "LDA", "LDX", "LDY", "LSRA", "LXA", "ORA",
      "ROLA", "RORA", "SBC", "SBX", "SEC", "SED", "SEI", "TAX", "TAY", "TSX", "TXA", "TXS", "TYA",
      "IRQLoRequest", "IRQHiRequest", "fetchNextOpcode", "WasteCycle", "FetchHighAddr", "JMP", "PLA", "PopSR",
      "PopLowPC", "PopHighPC", "RTI", "RTS", "invalidOpcode", "interruptsAndNextOpcode"}
       \subseteq Readers \ Skippers
  /\ {"BCC", "BCS", "BEQ", "BMI", "BNE", "BPL", "BVC", "BVS"} \subseteq Readers
  /\ {"ASL", "DCP", "DEC", "INC", "ISB", "LSR", "RLA", "ROL", "ROR", "RRA", "SLO", "SRE", "PHA", "PushSR",
      "PushHighPC", "brkPushLowPC", "PushLowPC", "SAX", "SHA", "SHS", "SHX", "SHY", "STA", "STX", "STY"}
       \subseteq Writers \cap Functions
<1>1. {"ADC", "ANC", "AND", "ANE", "ARR", "ASLA", "ASR", "BIT", "CLC", "CLD", "CLI", "CLV", "CMP", "CPX",
      "CPY", "DEX", "DEY", "EOR", "INX", "INY", "LAS", "LAX", "LDA", "LDX", "LDY", "LSRA", "LXA", "ORA",
      "ROLA", "RORA", "SBC", "SBX", "SEC", "SED", "SEI", "TAX", "TAY", "TSX", "TXA", "TXS", "TYA",
      "IRQLoRequest", "IRQHiRequest", "fetchNextOpcode", "WasteCycle", "FetchHighAddr", "JMP", "PLA", "PopSR",
      "PopLowPC", "PopHighPC", "RTI", "RTS", "invalidOpcode", "interruptsAndNextOpcode"}
       \subseteq Readers \ Skippers
  BY DEF Readers, Functions, Writers, Skippers, Stores, ReadModifyWrites, Common, AtoB, CtoL, OtoT,
         Undocumented, OfStack, Addressings
<1>2. {"BCC", "BCS", "BEQ", "BMI", "BNE", "BPL", "BVC", "BVS"} \subseteq Readers
  BY DEF Readers, Functions, Writers, Stores, ReadModifyWrites, AtoB
<1>3. {"ASL", "DCP", "DEC", "INC", "ISB", "LSR", "RLA", "ROL", "ROR", "RRA", "SLO", "SRE", "PHA", "PushSR",
      "PushHighPC", "brkPushLowPC", "PushLowPC", "SAX", "SHA", "SHS", "SHX", "SHY", "STA", "STX", "STY"}
       \subseteq Writers \cap Functions
  BY DEF Functions, Writers, Stores, ReadModifyWrites, Common, Unstable, AtoB, CtoL, OtoT, Undocumented, OfStack
<1> QED BY <1>1, <1>2, <1>3

LEMMA Writes1 ==
  ASSUME NEW a \in Writers \cap Functions
  PROVE  Sound(W(<<a>>))
<1>1. <<a>> \in Seq(Writers \cap Functions)
  OBVIOUS
<1> QED BY <1>1, WritesSound

LEMMA Reads1 ==
  ASSUME NEW a \in Readers, a \notin Skippers
  PROVE  Sound(R(<<a>>))
<1>1. <<a>> \in Seq(Readers) /\ Len(<<a>>) = 1 /\ <<a>>[1] = a
  OBVIOUS
<1> QED BY <1>1, ReadsSound

LEMMA Writes2 ==
  ASSUME NEW a \in Writers \cap Functions, NEW b \in Writers \cap Functions
  PROVE  Sound(W(<<a, b>>))
<1>1. <<a, b>> \in Seq(Writers \cap Functions)
  OBVIOUS
<1> QED BY <1>1, WritesSound

LEMMA Reads2 ==
  ASSUME NEW a \in Readers, NEW b \in Readers, b \notin Skippers
  PROVE  Sound(R(<<a, b>>))
<1>1. <<a, b>> \in Seq(Readers) /\ Len(<<a, b>>) = 2 /\ <<a, b>>[2] = b
  OBVIOUS
<1> QED BY <1>1, ReadsSound

LEMMA Writes3 ==
  ASSUME NEW a \in Writers \cap Functions, NEW b \in Writers \cap Functions, NEW c \in Writers \cap Functions
  PROVE  Sound(W(<<a, b, c>>))
<1>1. <<a, b, c>> \in Seq(Writers \cap Functions)
  OBVIOUS
<1> QED BY <1>1, WritesSound

LEMMA Reads3 ==
  ASSUME NEW a \in Readers, NEW b \in Readers, NEW c \in Readers, c \notin Skippers
  PROVE  Sound(R(<<a, b, c>>))
<1>1. <<a, b, c>> \in Seq(Readers) /\ Len(<<a, b, c>>) = 3 /\ <<a, b, c>>[3] = c
  OBVIOUS
<1> QED BY <1>1, ReadsSound

LEMMA Reads4 ==
  ASSUME NEW a \in Readers, NEW b \in Readers, NEW c \in Readers, NEW d \in Readers, d \notin Skippers
  PROVE  Sound(R(<<a, b, c, d>>))
<1>1. <<a, b, c, d>> \in Seq(Readers) /\ Len(<<a, b, c, d>>) = 4 /\ <<a, b, c, d>>[4] = d
  OBVIOUS
<1> QED BY <1>1, ReadsSound

LEMMA Reads5 ==
  ASSUME NEW a \in Readers, NEW b \in Readers, NEW c \in Readers, NEW d \in Readers, NEW e \in Readers, e \notin Skippers
  PROVE  Sound(R(<<a, b, c, d, e>>))
<1>1. <<a, b, c, d, e>> \in Seq(Readers) /\ Len(<<a, b, c, d, e>>) = 5 /\ <<a, b, c, d, e>>[5] = e
  OBVIOUS
<1> QED BY <1>1, ReadsSound

LEMMA Joined3 ==
  ASSUME NEW a, NEW b, NEW c,
         SoundTable(a), SoundTable(b), SoundTable(c)
  PROVE  SoundTable(Joined(<<a, b, c>>))
BY JoinedSound

LEMMA Joined4 ==
  ASSUME NEW a, NEW b, NEW c, NEW d,
         SoundTable(a), SoundTable(b), SoundTable(c), SoundTable(d)
  PROVE  SoundTable(Joined(<<a, b, c, d>>))
BY JoinedSound

LEMMA Joined5 ==
  ASSUME NEW a, NEW b, NEW c, NEW d, NEW e,
         SoundTable(a), SoundTable(b), SoundTable(c), SoundTable(d), SoundTable(e)
  PROVE  SoundTable(Joined(<<a, b, c, d, e>>))
BY JoinedSound

LEMMA OperationsAtoDSound == SoundTable(OperationsAtoD)
<1>1. SoundTable(Simple({"ADC", "ANC", "AND", "ANE", "ARR", "ASLA", "ASR", "BIT"}))
  BY Kinds, SimpleSound
<1>2. SoundTable(Simple({"CLC", "CLD", "CLI", "CLV", "CMP", "CPX", "CPY", "DEX", "DEY"}))
  BY Kinds, SimpleSound
<1>3. SoundTable(Branches({"BCC", "BCS", "BEQ", "BMI", "BNE", "BPL", "BVC", "BVS"}))
  BY Kinds, BranchesSound
<1>4. SoundTable(Modifying({"ASL", "DCP", "DEC"}))
  BY Kinds, ModifyingSound
<1> DEFINE w == W(<<"PushHighPC", "brkPushLowPC", "PushSR">>)
           r == R(<<"IRQLoRequest", "IRQHiRequest", "fetchNextOpcode">>)
<1>5. SoundTable([BRK |-> w \o r])
  <2>1. Sound(w)
    BY Kinds, Writes3
  <2>2. Sound(r)
    BY Kinds, Reads3
  <2> HIDE DEF w, r
  <2> DEFINE v == w \o r
  <2>3. Sound(v)
    BY <2>1, <2>2, SoundJoint
  <2> HIDE DEF v
  <2>4. SoundTable([BRK |-> v])
    BY <2>3 DEF SoundTable
  <2> QED BY <2>4 DEF v
<1> HIDE DEF w, r
<1> QED BY <1>1, <1>2, <1>3, <1>4, <1>5, Joined5 DEF OperationsAtoD, w, r

LEMMA OperationsEtoNSound == SoundTable(OperationsEtoN)
<1>1. SoundTable(Simple({"EOR", "INX", "INY", "LAS", "LAX", "LDA", "LDX", "LDY", "LSRA"}))
  BY Kinds, SimpleSound
<1>2. SoundTable(Modifying({"INC", "ISB", "LSR"}))
  BY Kinds, ModifyingSound
<1> DEFINE w == R(<<"WasteCycle">>)
           p == W(<<"PushHighPC", "PushLowPC">>)
           r == R(<<"FetchHighAddr", "JMP">>)
           j == R(<<"JMP">>)
<1>3. SoundTable([JSR |-> w \o p \o r, JMP |-> j, NOP |-> <<>>])
  <2>1. Sound(w) /\ Sound(r) /\ Sound(j)
    BY Kinds, Reads1, Reads2
  <2>2. Sound(p)
    BY Kinds, Writes2
  <2>3. Sound(<<>>)
    BY DEF Sound
  <2> HIDE DEF w, p, r, j
  <2> DEFINE v == w \o p \o r
  <2>4. Sound(v)
    BY <2>1, <2>2, SoundJoint
  <2> HIDE DEF v
  <2>5. SoundTable([JSR |-> v, JMP |-> j, NOP |-> <<>>])
    BY <2>1, <2>3, <2>4 DEF SoundTable
  <2> QED BY <2>5 DEF v
<1> HIDE DEF w, p, r, j
<1> QED BY <1>1, <1>2, <1>3, Joined3 DEF OperationsEtoN, w, p, r, j

LEMMA OperationsLtoRSound == SoundTable(OperationsLtoR)
<1>1. SoundTable(Simple({"LXA", "ORA", "ROLA", "RORA"}))
  BY Kinds, SimpleSound
<1>2. SoundTable(Modifying({"RLA", "ROL", "ROR", "RRA"}))
  BY Kinds, ModifyingSound
<1> DEFINE a == W(<<"PHA">>)
           p == W(<<"PushSR">>)
           pla == R(<<"WasteCycle", "PLA">>)
           plp == R(<<"WasteCycle", "PopSR">>)
           rti == R(<<"WasteCycle", "PopSR", "PopLowPC", "PopHighPC", "RTI">>)
           rts == R(<<"WasteCycle", "PopLowPC", "PopHighPC", "RTS">>)
<1>3. SoundTable([PHA |-> a, PHP |-> p, PLA |-> pla, PLP |-> plp, RTI |-> rti, RTS |-> rts])
  <2>1. Sound(a) /\ Sound(p)
    BY Kinds, Writes1
  <2>2. Sound(pla) /\ Sound(plp)
    BY Kinds, Reads2
  <2>3. Sound(rti) /\ Sound(rts)
    BY Kinds, Reads4, Reads5, ZenonT(60)
  <2> HIDE DEF a, p, pla, plp, rti, rts
  <2> QED BY <2>1, <2>2, <2>3 DEF SoundTable
<1> HIDE DEF a, p, pla, plp, rti, rts
<1> QED BY <1>1, <1>2, <1>3, Joined3 DEF OperationsLtoR, a, p, pla, plp, rti, rts

LEMMA OperationsStoTSound == SoundTable(OperationsStoT)
<1>1. SoundTable(Simple({"SBC", "SBX", "SEC", "SED", "SEI", "TAX", "TAY", "TSX", "TXA", "TXS", "TYA"}))
  BY Kinds, SimpleSound
<1>2. SoundTable(Storing({"SAX", "SHA", "SHS", "SHX", "SHY", "STA", "STX", "STY"}))
  BY Kinds, StoringSound
<1>3. SoundTable(Modifying({"SLO", "SRE"}))
  BY Kinds, ModifyingSound
<1> QED BY <1>1, <1>2, <1>3, Joined3 DEF OperationsStoT

LEMMA OperationsSound == SoundTable(Operations)
BY OperationsAtoDSound, OperationsEtoNSound, OperationsLtoRSound, OperationsStoTSound, Joined4 DEF Operations

-----------------------------------------------------------------------------
(* Every opcode has an operation and a mode of the tables.                 *)

Named(t) == \A o \in DOMAIN t : t[o].op \in DOMAIN Operations /\ t[o].mode \in Modes

LEMMA JoinedNamed ==
  ASSUME NEW tables, \A k \in DOMAIN tables : Named(tables[k])
  PROVE  Named(Joined(tables))
BY JoinedIs DEF Named

LEMMA AtNamed ==
  ASSUME NEW op \in DOMAIN Operations, NEW mode \in Modes, NEW codes
  PROVE  Named(At(op, mode, codes))
BY DEF Named, At

LEMMA ColumnNamed ==
  ASSUME NEW first \in Int, NEW mode \in Modes, NEW ops, \A k \in 1 .. 8 : ops[k] \in DOMAIN Operations
  PROVE  Named(Column(first, mode, ops))
<1>1. ASSUME NEW o \in {first + 32 * k : k \in 0 .. 7} PROVE (o - first) \div 32 + 1 \in 1 .. 8
  BY <1>1
<1> QED BY <1>1 DEF Named, Column

LEMMA OperationNames ==
  /\ {"ADC", "ANC", "AND", "ANE", "ARR", "ASLA", "ASR", "BIT", "CLC", "CLD", "CLI", "CLV", "CMP", "CPX",
      "CPY", "DEX", "DEY", "BCC", "BCS", "BEQ", "BMI", "BNE", "BPL", "BVC", "BVS", "ASL", "DCP", "DEC", "BRK"}
       \subseteq DOMAIN OperationsAtoD
  /\ {"EOR", "INX", "INY", "LAS", "LAX", "LDA", "LDX", "LDY", "LSRA", "INC", "ISB", "LSR", "JSR", "JMP", "NOP"}
       \subseteq DOMAIN OperationsEtoN
  /\ {"LXA", "ORA", "ROLA", "RORA", "RLA", "ROL", "ROR", "RRA", "PHA", "PHP", "PLA", "PLP", "RTI", "RTS"}
       \subseteq DOMAIN OperationsLtoR
  /\ {"SBC", "SBX", "SEC", "SED", "SEI", "TAX", "TAY", "TSX", "TXA", "TXS", "TYA", "SAX", "SHA", "SHS", "SHX",
      "SHY", "STA", "STX", "STY", "SLO", "SRE"}
       \subseteq DOMAIN OperationsStoT
<1>1. {"ADC", "ANC", "AND", "ANE", "ARR", "ASLA", "ASR", "BIT", "CLC", "CLD", "CLI", "CLV", "CMP", "CPX",
       "CPY", "DEX", "DEY", "BCC", "BCS", "BEQ", "BMI", "BNE", "BPL", "BVC", "BVS", "ASL", "DCP", "DEC", "BRK"}
        \subseteq DOMAIN OperationsAtoD
  BY DEF OperationsAtoD, Joined, Simple, Branches, Storing, Modifying
<1>2. {"EOR", "INX", "INY", "LAS", "LAX", "LDA", "LDX", "LDY", "LSRA", "INC", "ISB", "LSR", "JSR", "JMP", "NOP"}
        \subseteq DOMAIN OperationsEtoN
  BY DEF OperationsEtoN, Joined, Simple, Branches, Storing, Modifying
<1>3. {"LXA", "ORA", "ROLA", "RORA", "RLA", "ROL", "ROR", "RRA", "PHA", "PHP", "PLA", "PLP", "RTI", "RTS"}
        \subseteq DOMAIN OperationsLtoR
  BY DEF OperationsLtoR, Joined, Simple, Branches, Storing, Modifying
<1>4. {"SBC", "SBX", "SEC", "SED", "SEI", "TAX", "TAY", "TSX", "TXA", "TXS", "TYA", "SAX", "SHA", "SHS", "SHX",
       "SHY", "STA", "STX", "STY", "SLO", "SRE"}
        \subseteq DOMAIN OperationsStoT
  BY DEF OperationsStoT, Joined, Simple, Branches, Storing, Modifying
<1> QED BY <1>1, <1>2, <1>3, <1>4

LEMMA DomainParts ==
  /\ DOMAIN OperationsAtoD \subseteq DOMAIN Operations
  /\ DOMAIN OperationsEtoN \subseteq DOMAIN Operations
  /\ DOMAIN OperationsLtoR \subseteq DOMAIN Operations
  /\ DOMAIN OperationsStoT \subseteq DOMAIN Operations
<1> DEFINE tables == <<OperationsAtoD, OperationsEtoN, OperationsLtoR, OperationsStoT>>
<1>1. /\ 1 \in DOMAIN tables /\ tables[1] = OperationsAtoD
      /\ 2 \in DOMAIN tables /\ tables[2] = OperationsEtoN
      /\ 3 \in DOMAIN tables /\ tables[3] = OperationsLtoR
      /\ 4 \in DOMAIN tables /\ tables[4] = OperationsStoT
  OBVIOUS
<1>2. Operations = Joined(tables)
  BY DEF Operations
<1> HIDE DEF tables
<1> QED BY <1>1, <1>2, JoinedDomain

LEMMA HighColumnsNamed == Named(HighColumns)
<1>1. /\ Named(At("SHA", "iy", {\h93}))
      /\ Named(At("NOP", "zx", {\h14, \h34, \h54, \h74, \hD4, \hF4}))
      /\ Named(At("STY", "zx", {\h94}))
      /\ Named(At("LDY", "zx", {\hB4}))
      /\ Named(At("STX", "zy", {\h96}))
      /\ Named(At("LDX", "zy", {\hB6}))
  BY OperationNames, DomainParts, AtNamed DEF Modes
<1>2. /\ Named(At("SAX", "zy", {\h97}))
      /\ Named(At("LAX", "zy", {\hB7}))
      /\ Named(At("TXS", "n", {\h9A}))
      /\ Named(At("TSX", "n", {\hBA}))
      /\ Named(At("SHS", "ay", {\h9B}))
      /\ Named(At("LAS", "ay", {\hBB}))
  BY OperationNames, DomainParts, AtNamed DEF Modes
<1>3. /\ Named(At("NOP", "ax", {\h1C, \h3C, \h5C, \h7C, \hDC, \hFC}))
      /\ Named(At("SHY", "ax", {\h9C}))
      /\ Named(At("LDY", "ax", {\hBC}))
      /\ Named(At("SHX", "ay", {\h9E}))
      /\ Named(At("LDX", "ay", {\hBE}))
      /\ Named(At("SHA", "ay", {\h9F}))
  BY OperationNames, DomainParts, AtNamed DEF Modes
<1>4. /\ Named(At("LAX", "ay", {\hBF}))
  BY OperationNames, DomainParts, AtNamed DEF Modes
<1>5. Named(Column(\h10, "r", <<"BPL", "BMI", "BVC", "BVS", "BCC", "BCS", "BNE", "BEQ">>))
  <2>1. \A k \in 1 .. 8 : <<"BPL", "BMI", "BVC", "BVS", "BCC", "BCS", "BNE", "BEQ">>[k] \in DOMAIN Operations
    BY OperationNames, DomainParts
  <2>2. \h10 \in Int /\ "r" \in Modes
    BY DEF Modes
  <2> QED BY <2>1, <2>2, ColumnNamed
<1>6. Named(Column(\h11, "iy", Alu))
  <2>1. \A k \in 1 .. 8 : Alu[k] \in DOMAIN Operations
    BY OperationNames, DomainParts DEF Alu
  <2>2. \h11 \in Int /\ "iy" \in Modes
    BY DEF Modes
  <2> QED BY <2>1, <2>2, ColumnNamed
<1>7. Named(Column(\h13, "iy", Combined))
  <2>1. \A k \in 1 .. 8 : Combined[k] \in DOMAIN Operations
    BY OperationNames, DomainParts DEF Combined
  <2>2. \h13 \in Int /\ "iy" \in Modes
    BY DEF Modes
  <2> QED BY <2>1, <2>2, ColumnNamed
<1>8. Named(Column(\h15, "zx", Alu))
  <2>1. \A k \in 1 .. 8 : Alu[k] \in DOMAIN Operations
    BY OperationNames, DomainParts DEF Alu
  <2>2. \h15 \in Int /\ "zx" \in Modes
    BY DEF Modes
  <2> QED BY <2>1, <2>2, ColumnNamed
<1>9. Named(Column(\h16, "zx", Shifts))
  <2>1. \A k \in 1 .. 8 : Shifts[k] \in DOMAIN Operations
    BY OperationNames, DomainParts DEF Shifts
  <2>2. \h16 \in Int /\ "zx" \in Modes
    BY DEF Modes
  <2> QED BY <2>1, <2>2, ColumnNamed
<1>10. Named(Column(\h17, "zx", Combined))
  <2>1. \A k \in 1 .. 8 : Combined[k] \in DOMAIN Operations
    BY OperationNames, DomainParts DEF Combined
  <2>2. \h17 \in Int /\ "zx" \in Modes
    BY DEF Modes
  <2> QED BY <2>1, <2>2, ColumnNamed
<1>11. Named(Column(\h18, "n", <<"CLC", "SEC", "CLI", "SEI", "TYA", "CLV", "CLD", "SED">>))
  <2>1. \A k \in 1 .. 8 : <<"CLC", "SEC", "CLI", "SEI", "TYA", "CLV", "CLD", "SED">>[k] \in DOMAIN Operations
    BY OperationNames, DomainParts
  <2>2. \h18 \in Int /\ "n" \in Modes
    BY DEF Modes
  <2> QED BY <2>1, <2>2, ColumnNamed
<1>12. Named(Column(\h19, "ay", Alu))
  <2>1. \A k \in 1 .. 8 : Alu[k] \in DOMAIN Operations
    BY OperationNames, DomainParts DEF Alu
  <2>2. \h19 \in Int /\ "ay" \in Modes
    BY DEF Modes
  <2> QED BY <2>1, <2>2, ColumnNamed
<1>13. Named(Column(\h1B, "ay", Combined))
  <2>1. \A k \in 1 .. 8 : Combined[k] \in DOMAIN Operations
    BY OperationNames, DomainParts DEF Combined
  <2>2. \h1B \in Int /\ "ay" \in Modes
    BY DEF Modes
  <2> QED BY <2>1, <2>2, ColumnNamed
<1>14. Named(Column(\h1D, "ax", Alu))
  <2>1. \A k \in 1 .. 8 : Alu[k] \in DOMAIN Operations
    BY OperationNames, DomainParts DEF Alu
  <2>2. \h1D \in Int /\ "ax" \in Modes
    BY DEF Modes
  <2> QED BY <2>1, <2>2, ColumnNamed
<1>15. Named(Column(\h1E, "ax", Shifts))
  <2>1. \A k \in 1 .. 8 : Shifts[k] \in DOMAIN Operations
    BY OperationNames, DomainParts DEF Shifts
  <2>2. \h1E \in Int /\ "ax" \in Modes
    BY DEF Modes
  <2> QED BY <2>1, <2>2, ColumnNamed
<1>16. Named(Column(\h1F, "ax", Combined))
  <2>1. \A k \in 1 .. 8 : Combined[k] \in DOMAIN Operations
    BY OperationNames, DomainParts DEF Combined
  <2>2. \h1F \in Int /\ "ax" \in Modes
    BY DEF Modes
  <2> QED BY <2>1, <2>2, ColumnNamed
<1> QED BY <1>1, <1>2, <1>3, <1>4, <1>5, <1>6, <1>7, <1>8, <1>9, <1>10, <1>11, <1>12, <1>13, <1>14, <1>15, <1>16, JoinedNamed DEF HighColumns

LEMMA LowColumnsNamed == Named(LowColumns)
<1>1. /\ Named(At("BRK", "n", {\h00}))
      /\ Named(At("JSR", "w", {\h20}))
      /\ Named(At("RTI", "n", {\h40}))
      /\ Named(At("RTS", "n", {\h60}))
      /\ Named(At("NOP", "b", {\h80, \h82, \hC2, \hE2, \h89}))
      /\ Named(At("LDY", "b", {\hA0}))
  BY OperationNames, DomainParts, AtNamed DEF Modes
<1>2. /\ Named(At("CPY", "b", {\hC0}))
      /\ Named(At("CPX", "b", {\hE0}))
      /\ Named(At("LDX", "b", {\hA2}))
      /\ Named(At("NOP", "z", {\h04, \h44, \h64}))
      /\ Named(At("BIT", "z", {\h24}))
      /\ Named(At("STY", "z", {\h84}))
  BY OperationNames, DomainParts, AtNamed DEF Modes
<1>3. /\ Named(At("LDY", "z", {\hA4}))
      /\ Named(At("CPY", "z", {\hC4}))
      /\ Named(At("CPX", "z", {\hE4}))
      /\ Named(At("SBC", "b", {\hEB}))
      /\ Named(At("NOP", "n", {\h1A, \h3A, \h5A, \h7A, \hDA, \hFA}))
      /\ Named(At("ANC", "b", {\h0B, \h2B}))
  BY OperationNames, DomainParts, AtNamed DEF Modes
<1>4. /\ Named(At("ASR", "b", {\h4B}))
      /\ Named(At("ARR", "b", {\h6B}))
      /\ Named(At("ANE", "b", {\h8B}))
      /\ Named(At("LXA", "b", {\hAB}))
      /\ Named(At("SBX", "b", {\hCB}))
      /\ Named(At("NOP", "a", {\h0C}))
  BY OperationNames, DomainParts, AtNamed DEF Modes
<1>5. /\ Named(At("BIT", "a", {\h2C}))
      /\ Named(At("JMP", "w", {\h4C}))
      /\ Named(At("JMP", "i", {\h6C}))
      /\ Named(At("STY", "a", {\h8C}))
      /\ Named(At("LDY", "a", {\hAC}))
      /\ Named(At("CPY", "a", {\hCC}))
  BY OperationNames, DomainParts, AtNamed DEF Modes
<1>6. /\ Named(At("CPX", "a", {\hEC}))
  BY OperationNames, DomainParts, AtNamed DEF Modes
<1>7. Named(Column(\h01, "ix", Alu))
  <2>1. \A k \in 1 .. 8 : Alu[k] \in DOMAIN Operations
    BY OperationNames, DomainParts DEF Alu
  <2>2. \h01 \in Int /\ "ix" \in Modes
    BY DEF Modes
  <2> QED BY <2>1, <2>2, ColumnNamed
<1>8. Named(Column(\h03, "ix", Combined))
  <2>1. \A k \in 1 .. 8 : Combined[k] \in DOMAIN Operations
    BY OperationNames, DomainParts DEF Combined
  <2>2. \h03 \in Int /\ "ix" \in Modes
    BY DEF Modes
  <2> QED BY <2>1, <2>2, ColumnNamed
<1>9. Named(Column(\h05, "z", Alu))
  <2>1. \A k \in 1 .. 8 : Alu[k] \in DOMAIN Operations
    BY OperationNames, DomainParts DEF Alu
  <2>2. \h05 \in Int /\ "z" \in Modes
    BY DEF Modes
  <2> QED BY <2>1, <2>2, ColumnNamed
<1>10. Named(Column(\h06, "z", Shifts))
  <2>1. \A k \in 1 .. 8 : Shifts[k] \in DOMAIN Operations
    BY OperationNames, DomainParts DEF Shifts
  <2>2. \h06 \in Int /\ "z" \in Modes
    BY DEF Modes
  <2> QED BY <2>1, <2>2, ColumnNamed
<1>11. Named(Column(\h07, "z", Combined))
  <2>1. \A k \in 1 .. 8 : Combined[k] \in DOMAIN Operations
    BY OperationNames, DomainParts DEF Combined
  <2>2. \h07 \in Int /\ "z" \in Modes
    BY DEF Modes
  <2> QED BY <2>1, <2>2, ColumnNamed
<1>12. Named(Column(\h08, "n", <<"PHP", "PLP", "PHA", "PLA", "DEY", "TAY", "INY", "INX">>))
  <2>1. \A k \in 1 .. 8 : <<"PHP", "PLP", "PHA", "PLA", "DEY", "TAY", "INY", "INX">>[k] \in DOMAIN Operations
    BY OperationNames, DomainParts
  <2>2. \h08 \in Int /\ "n" \in Modes
    BY DEF Modes
  <2> QED BY <2>1, <2>2, ColumnNamed
<1>13. Named(Column(\h09, "b", Alu))
  <2>1. \A k \in 1 .. 8 : Alu[k] \in DOMAIN Operations
    BY OperationNames, DomainParts DEF Alu
  <2>2. \h09 \in Int /\ "b" \in Modes
    BY DEF Modes
  <2> QED BY <2>1, <2>2, ColumnNamed
<1>14. Named(Column(\h0A, "n", <<"ASLA", "ROLA", "LSRA", "RORA", "TXA", "TAX", "DEX", "NOP">>))
  <2>1. \A k \in 1 .. 8 : <<"ASLA", "ROLA", "LSRA", "RORA", "TXA", "TAX", "DEX", "NOP">>[k] \in DOMAIN Operations
    BY OperationNames, DomainParts
  <2>2. \h0A \in Int /\ "n" \in Modes
    BY DEF Modes
  <2> QED BY <2>1, <2>2, ColumnNamed
<1>15. Named(Column(\h0D, "a", Alu))
  <2>1. \A k \in 1 .. 8 : Alu[k] \in DOMAIN Operations
    BY OperationNames, DomainParts DEF Alu
  <2>2. \h0D \in Int /\ "a" \in Modes
    BY DEF Modes
  <2> QED BY <2>1, <2>2, ColumnNamed
<1>16. Named(Column(\h0E, "a", Shifts))
  <2>1. \A k \in 1 .. 8 : Shifts[k] \in DOMAIN Operations
    BY OperationNames, DomainParts DEF Shifts
  <2>2. \h0E \in Int /\ "a" \in Modes
    BY DEF Modes
  <2> QED BY <2>1, <2>2, ColumnNamed
<1>17. Named(Column(\h0F, "a", Combined))
  <2>1. \A k \in 1 .. 8 : Combined[k] \in DOMAIN Operations
    BY OperationNames, DomainParts DEF Combined
  <2>2. \h0F \in Int /\ "a" \in Modes
    BY DEF Modes
  <2> QED BY <2>1, <2>2, ColumnNamed
<1> QED BY <1>1, <1>2, <1>3, <1>4, <1>5, <1>6, <1>7, <1>8, <1>9, <1>10, <1>11, <1>12, <1>13, <1>14, <1>15, <1>16, <1>17, JoinedNamed DEF LowColumns

LEMMA OpcodeNamed == Named(Opcode)
<1>1. \A k \in DOMAIN <<LowColumns, HighColumns>> : Named(<<LowColumns, HighColumns>>[k])
  BY LowColumnsNamed, HighColumnsNamed
<1> QED BY <1>1, JoinedNamed DEF Opcode

-----------------------------------------------------------------------------
(* Opcode 0 is the interrupt sequence.                                     *)

Breaks(t) == 0 \in DOMAIN t => t[0] = [op |-> "BRK", mode |-> "n"]

LEMMA JoinedBreaks ==
  ASSUME NEW tables, \A k \in DOMAIN tables : Breaks(tables[k])
  PROVE  Breaks(Joined(tables))
BY JoinedIs DEF Breaks

LEMMA AtBreaks ==
  ASSUME NEW op, NEW mode, NEW codes, 0 \notin codes
  PROVE  Breaks(At(op, mode, codes))
BY DEF Breaks, At

LEMMA ColumnBreaks ==
  ASSUME NEW first \in 1 .. 31, NEW mode, NEW ops
  PROVE  Breaks(Column(first, mode, ops))
<1>1. 0 \notin {first + 32 * k : k \in 0 .. 7}
  OBVIOUS
<1> QED BY <1>1 DEF Breaks, Column

LEMMA HighColumnsBreak == Breaks(HighColumns)
<1>1. /\ Breaks(At("SHA", "iy", {\h93}))
      /\ Breaks(At("NOP", "zx", {\h14, \h34, \h54, \h74, \hD4, \hF4}))
      /\ Breaks(At("STY", "zx", {\h94}))
      /\ Breaks(At("LDY", "zx", {\hB4}))
      /\ Breaks(At("STX", "zy", {\h96}))
      /\ Breaks(At("LDX", "zy", {\hB6}))
      /\ Breaks(At("SAX", "zy", {\h97}))
  BY AtBreaks
<1>2. /\ Breaks(At("LAX", "zy", {\hB7}))
      /\ Breaks(At("TXS", "n", {\h9A}))
      /\ Breaks(At("TSX", "n", {\hBA}))
      /\ Breaks(At("SHS", "ay", {\h9B}))
      /\ Breaks(At("LAS", "ay", {\hBB}))
      /\ Breaks(At("NOP", "ax", {\h1C, \h3C, \h5C, \h7C, \hDC, \hFC}))
      /\ Breaks(At("SHY", "ax", {\h9C}))
  BY AtBreaks
<1>3. /\ Breaks(At("LDY", "ax", {\hBC}))
      /\ Breaks(At("SHX", "ay", {\h9E}))
      /\ Breaks(At("LDX", "ay", {\hBE}))
      /\ Breaks(At("SHA", "ay", {\h9F}))
      /\ Breaks(At("LAX", "ay", {\hBF}))
  BY AtBreaks
<1>4. /\ Breaks(Column(\h10, "r", <<"BPL", "BMI", "BVC", "BVS", "BCC", "BCS", "BNE", "BEQ">>))
      /\ Breaks(Column(\h11, "iy", Alu))
      /\ Breaks(Column(\h13, "iy", Combined))
      /\ Breaks(Column(\h15, "zx", Alu))
      /\ Breaks(Column(\h16, "zx", Shifts))
      /\ Breaks(Column(\h17, "zx", Combined))
      /\ Breaks(Column(\h18, "n", <<"CLC", "SEC", "CLI", "SEI", "TYA", "CLV", "CLD", "SED">>))
  BY ColumnBreaks
<1>5. /\ Breaks(Column(\h19, "ay", Alu))
      /\ Breaks(Column(\h1B, "ay", Combined))
      /\ Breaks(Column(\h1D, "ax", Alu))
      /\ Breaks(Column(\h1E, "ax", Shifts))
      /\ Breaks(Column(\h1F, "ax", Combined))
  BY ColumnBreaks
<1> QED BY <1>1, <1>2, <1>3, <1>4, <1>5, JoinedBreaks DEF HighColumns

LEMMA LowColumnsBreak == Breaks(LowColumns)
<1>1. Breaks(At("BRK", "n", {\h00}))
  BY DEF Breaks, At
<1>2. /\ Breaks(At("JSR", "w", {\h20}))
      /\ Breaks(At("RTI", "n", {\h40}))
      /\ Breaks(At("RTS", "n", {\h60}))
      /\ Breaks(At("NOP", "b", {\h80, \h82, \hC2, \hE2, \h89}))
      /\ Breaks(At("LDY", "b", {\hA0}))
      /\ Breaks(At("CPY", "b", {\hC0}))
      /\ Breaks(At("CPX", "b", {\hE0}))
  BY AtBreaks
<1>3. /\ Breaks(At("LDX", "b", {\hA2}))
      /\ Breaks(At("NOP", "z", {\h04, \h44, \h64}))
      /\ Breaks(At("BIT", "z", {\h24}))
      /\ Breaks(At("STY", "z", {\h84}))
      /\ Breaks(At("LDY", "z", {\hA4}))
      /\ Breaks(At("CPY", "z", {\hC4}))
      /\ Breaks(At("CPX", "z", {\hE4}))
  BY AtBreaks
<1>4. /\ Breaks(At("SBC", "b", {\hEB}))
      /\ Breaks(At("NOP", "n", {\h1A, \h3A, \h5A, \h7A, \hDA, \hFA}))
      /\ Breaks(At("ANC", "b", {\h0B, \h2B}))
      /\ Breaks(At("ASR", "b", {\h4B}))
      /\ Breaks(At("ARR", "b", {\h6B}))
      /\ Breaks(At("ANE", "b", {\h8B}))
      /\ Breaks(At("LXA", "b", {\hAB}))
  BY AtBreaks
<1>5. /\ Breaks(At("SBX", "b", {\hCB}))
      /\ Breaks(At("NOP", "a", {\h0C}))
      /\ Breaks(At("BIT", "a", {\h2C}))
      /\ Breaks(At("JMP", "w", {\h4C}))
      /\ Breaks(At("JMP", "i", {\h6C}))
      /\ Breaks(At("STY", "a", {\h8C}))
      /\ Breaks(At("LDY", "a", {\hAC}))
  BY AtBreaks
<1>6. /\ Breaks(At("CPY", "a", {\hCC}))
      /\ Breaks(At("CPX", "a", {\hEC}))
  BY AtBreaks
<1>7. /\ Breaks(Column(\h01, "ix", Alu))
      /\ Breaks(Column(\h03, "ix", Combined))
      /\ Breaks(Column(\h05, "z", Alu))
      /\ Breaks(Column(\h06, "z", Shifts))
      /\ Breaks(Column(\h07, "z", Combined))
      /\ Breaks(Column(\h08, "n", <<"PHP", "PLP", "PHA", "PLA", "DEY", "TAY", "INY", "INX">>))
      /\ Breaks(Column(\h09, "b", Alu))
  BY ColumnBreaks
<1>8. /\ Breaks(Column(\h0A, "n", <<"ASLA", "ROLA", "LSRA", "RORA", "TXA", "TAX", "DEX", "NOP">>))
      /\ Breaks(Column(\h0D, "a", Alu))
      /\ Breaks(Column(\h0E, "a", Shifts))
      /\ Breaks(Column(\h0F, "a", Combined))
  BY ColumnBreaks
<1> QED BY <1>1, <1>2, <1>3, <1>4, <1>5, <1>6, <1>7, <1>8, JoinedBreaks DEF LowColumns

LEMMA OpcodeBreaks == 0 \in DOMAIN Opcode /\ Opcode[0] = [op |-> "BRK", mode |-> "n"]
<1>1. \A k \in DOMAIN <<LowColumns, HighColumns>> : Breaks(<<LowColumns, HighColumns>>[k])
  BY LowColumnsBreak, HighColumnsBreak
<1>2. Breaks(Opcode)
  BY <1>1, JoinedBreaks DEF Opcode
<1>3. 0 \in DOMAIN LowColumns
  BY DEF LowColumns, Joined, At
<1>4. 0 \in DOMAIN Opcode
  <2> DEFINE tables == <<LowColumns, HighColumns>>
  <2>1. 1 \in DOMAIN tables /\ tables[1] = LowColumns
    OBVIOUS
  <2>2. Opcode = Joined(tables)
    BY DEF Opcode
  <2> HIDE DEF tables
  <2> QED BY <1>3, <2>1, <2>2, JoinedDomain
<1> QED BY <1>2, <1>4 DEF Breaks

-----------------------------------------------------------------------------
(* Programs: the cycles of an opcode.                                      *)

Last == "interruptsAndNextOpcode"

LEMMA ProgramIs ==
  ASSUME NEW i \in Byte
  PROVE  \E s : Sound(s) /\ instrTable[i] = s \o R(<<Last>>)
<1>1. CASE i \in DOMAIN Opcode
  <2> DEFINE s == Addressing(Opcode[i].op, Opcode[i].mode)
             t == Operations[Opcode[i].op]
  <2>1. Opcode[i].op \in DOMAIN Operations /\ Opcode[i].mode \in Modes
    BY <1>1, OpcodeNamed DEF Named
  <2>2. Sound(s)
    BY <2>1, AddressingSound
  <2>3. Sound(t)
    BY <2>1, OperationsSound DEF SoundTable
  <2>4. instrTable[i] = (s \o t) \o R(<<Last>>)
    BY <1>1, ZenonT(30) DEF instrTable, Last, Byte
  <2> HIDE DEF s, t
  <2> QED BY <2>2, <2>3, <2>4, SoundJoint
<1>2. CASE i \notin DOMAIN Opcode
  <2>1. instrTable[i] = R(<<"invalidOpcode">>) \o R(<<Last>>)
    BY <1>2, ZenonT(30) DEF instrTable, Last, Byte
  <2>2. Sound(R(<<"invalidOpcode">>))
    BY Kinds, Reads1
  <2> QED BY <2>1, <2>2
<1> QED BY <1>1, <1>2

\* Every cycle is followed by one, but for the one that ends every instruction; a cycle
\* that may leave out the next is followed by two.
LEMMA Program ==
  ASSUME NEW i \in Byte
  PROVE  LET p == instrTable[i]
         IN /\ p \in Seq(SoundCycles) /\ 1 \in DOMAIN p
            /\ \A k \in DOMAIN p : /\ p[k].func # Last => k + 1 \in DOMAIN p
                                   /\ p[k].func \in Skippers => k + 2 \in DOMAIN p
<1>1. PICK s : Sound(s) /\ instrTable[i] = s \o R(<<Last>>)
  BY ProgramIs
<1> DEFINE r == R(<<Last>>)
           p == instrTable[i]
<1>2. Sound(r) /\ Len(r) = 1 /\ r[1].func = Last
  <2>1. Sound(r)
    BY Kinds, Reads1 DEF Last
  <2> QED BY <2>1 DEF R, Cycles
<1>3. Last \notin Skippers
  BY DEF Last, Skippers
<1>4. Sound(p)
  BY <1>1, <1>2, SoundJoint
<1> HIDE DEF r
<1>5. Len(p) = Len(s) + 1 /\ p[Len(s) + 1] = r[1] /\ Len(s) \in Nat /\ \A k \in 1 .. Len(s) : p[k] = s[k]
  BY <1>1, <1>2 DEF Sound, r
<1>6. ASSUME NEW k \in DOMAIN p
      PROVE  /\ p[k].func # Last => k + 1 \in DOMAIN p
             /\ p[k].func \in Skippers => k + 2 \in DOMAIN p
  <2>1. DOMAIN p = 1 .. Len(s) + 1
    BY <1>4, <1>5 DEF Sound
  <2>2. k \in 1 .. Len(s) \/ k = Len(s) + 1
    BY <1>5, <1>6, <2>1
  <2>3. CASE k \in 1 .. Len(s)
    <3>1. k + 1 \in DOMAIN p
      BY <1>5, <2>1, <2>3
    <3>2. ASSUME p[k].func \in Skippers PROVE k < Len(s)
      <4>1. s[k].func \in Skippers /\ Len(s) > 0
        BY <1>5, <2>3, <3>2
      <4>2. k # Len(s)
        BY <1>1, <4>1 DEF Sound
      <4> QED BY <1>5, <2>3, <4>2
    <3> QED BY <1>5, <2>1, <2>3, <3>1, <3>2
  <2>4. CASE k = Len(s) + 1
    BY <1>2, <1>3, <1>5, <2>4
  <2> QED BY <2>2, <2>3, <2>4
<1>7. p \in Seq(SoundCycles) /\ 1 \in DOMAIN p
  BY <1>4, <1>5 DEF Sound
<1> QED BY <1>6, <1>7

\* The interrupt sequence has eight cycles; a reset leaves the CPU in its seventh.
LEMMA BreakProgram == BRKn \in Byte /\ 7 \in DOMAIN instrTable[BRKn]
<1>1. BRKn = 0 /\ BRKn \in Byte /\ BRKn \in 0 .. 255
  BY DEF BRKn, Byte
<1> DEFINE s == Addressing("BRK", "n")
           t == Operations["BRK"]
<1>2. instrTable[BRKn] = (s \o t) \o R(<<Last>>)
  BY <1>1, OpcodeBreaks DEF instrTable, Last
<1>3. Sound(s) /\ Len(s) > 0
  <2>1. "n" \in Modes
    BY DEF Modes
  <2>2. s = R(<<"FetchDataByte">> \o <<>>)
    BY DEF Addressing, ShortAddressing, Short
  <2>3. <<"FetchDataByte">> \o <<>> = <<"FetchDataByte">>
    OBVIOUS
  <2>4. s = R(<<"FetchDataByte">>)
    BY <2>2, <2>3
  <2>5. Len(R(<<"FetchDataByte">>)) = 1
    BY DEF R, Cycles
  <2> QED BY <2>1, <2>4, <2>5, AddressingSound
<1>4. Sound(t) /\ Len(t) = 6
  <2>1. "BRK" \in DOMAIN Operations
    BY OperationNames, DomainParts
  <2>2. Sound(t)
    BY <2>1, OperationsSound DEF SoundTable
  <2> DEFINE w == W(<<"PushHighPC", "brkPushLowPC", "PushSR">>)
             r == R(<<"IRQLoRequest", "IRQHiRequest", "fetchNextOpcode">>)
  <2>3. Operations["BRK"] = OperationsAtoD["BRK"]
    <3>1. "BRK" \notin DOMAIN OperationsEtoN
      <4> DEFINE a == Simple({"EOR", "INX", "INY", "LAS", "LAX", "LDA", "LDX", "LDY", "LSRA"})
                 b == Modifying({"INC", "ISB", "LSR"})
                 jsr == R(<<"WasteCycle">>) \o W(<<"PushHighPC", "PushLowPC">>) \o R(<<"FetchHighAddr", "JMP">>)
                 jmp == R(<<"JMP">>)
                 c == [JSR |-> jsr, JMP |-> jmp, NOP |-> <<>>]
      <4>1. OperationsEtoN = Joined(<<a, b, c>>)
        BY DEF OperationsEtoN
      <4> HIDE DEF jsr, jmp
      <4>2. "BRK" \notin DOMAIN a /\ "BRK" \notin DOMAIN b /\ "BRK" \notin DOMAIN c
        BY DEF Simple, Modifying
      <4> HIDE DEF a, b, c
      <4> QED BY <4>1, <4>2, JoinedIs
    <3>2. "BRK" \notin DOMAIN OperationsLtoR
      BY DEF OperationsLtoR, Joined, Simple, Modifying
    <3>3. "BRK" \notin DOMAIN OperationsStoT
      BY DEF OperationsStoT, Joined, Simple, Modifying, Storing
    <3> DEFINE tables == <<OperationsAtoD, OperationsEtoN, OperationsLtoR, OperationsStoT>>
    <3>4. Operations = Joined(tables)
      BY DEF Operations
    <3>5. PICK k \in DOMAIN tables : "BRK" \in DOMAIN tables[k] /\ Operations["BRK"] = tables[k]["BRK"]
      BY <2>1, <3>4, JoinedIs
    <3> QED BY <3>1, <3>2, <3>3, <3>5
  <2>4. OperationsAtoD["BRK"] = w \o r
    <3> DEFINE a == Simple({"ADC", "ANC", "AND", "ANE", "ARR", "ASLA", "ASR", "BIT"})
               b == Simple({"CLC", "CLD", "CLI", "CLV", "CMP", "CPX", "CPY", "DEX", "DEY"})
               c == Branches({"BCC", "BCS", "BEQ", "BMI", "BNE", "BPL", "BVC", "BVS"})
               d == Modifying({"ASL", "DCP", "DEC"})
               e == [BRK |-> w \o r]
    <3>1. "BRK" \notin DOMAIN a /\ "BRK" \notin DOMAIN b /\ "BRK" \notin DOMAIN c /\ "BRK" \notin DOMAIN d
      BY DEF Simple, Branches, Modifying
    <3>2. OperationsAtoD = Joined(<<a, b, c, d, e>>)
      BY DEF OperationsAtoD
    <3>3. e["BRK"] = w \o r
      OBVIOUS
    <3>4. "BRK" \in DOMAIN OperationsAtoD
      BY OperationNames
    <3> HIDE DEF a, b, c, d, e
    <3>5. PICK k \in DOMAIN <<a, b, c, d, e>> :
            /\ "BRK" \in DOMAIN <<a, b, c, d, e>>[k]
            /\ OperationsAtoD["BRK"] = <<a, b, c, d, e>>[k]["BRK"]
      BY <3>2, <3>4, JoinedIs
    <3> QED BY <3>1, <3>3, <3>5
  <2>5. Sound(w) /\ Sound(r)
    BY Kinds, Writes3, Reads3
  <2>6. Len(w) = 3 /\ Len(r) = 3
    BY DEF W, R, Cycles
  <2> HIDE DEF w, r
  <2>7. Len(w \o r) = Len(w) + Len(r)
    BY <2>5, SoundLength
  <2> QED BY <2>2, <2>3, <2>4, <2>6, <2>7
<1>5. Sound(R(<<Last>>))
  BY Kinds, Reads1 DEF Last
<1> HIDE DEF s, t
<1> DEFINE r == R(<<Last>>)
<1> HIDE DEF r
<1>6. Sound(r)
  BY <1>5 DEF r
<1>7. Sound(s \o t)
  BY <1>3, <1>4, SoundJoint
<1>8. Len(s \o t) = Len(s) + Len(t) /\ Len(s) \in Nat
  BY <1>3, <1>4, SoundLength
<1> DEFINE q == s \o t
<1> HIDE DEF q
<1>9. q \o r \in Seq(SoundCycles) /\ Len(q \o r) = Len(q) + Len(r) /\ Len(r) \in Nat
  BY <1>6, <1>7, SoundLength DEF q
<1>10. Len(q) >= 7 /\ Len(q) \in Nat
  BY <1>3, <1>4, <1>8 DEF q
<1>11. 7 \in DOMAIN (q \o r)
  BY <1>9, <1>10
<1> QED BY <1>1, <1>2, <1>11 DEF q, r

-----------------------------------------------------------------------------
(* The steps.                                                              *)

\* The CPU is in a cycle of its instruction, and has not ended it.
IInv == Typed(cpu) /\ cpu.ends = "no" /\ cpu.cycle + 1 \in DOMAIN instrTable[cpu.instr]

LEMMA Put ==
  ASSUME NEW c, Typed(c), NEW r \in Fields, NEW v, Fits(r, v)
  PROVE  /\ Typed([c EXCEPT ![r] = v]) /\ [c EXCEPT ![r] = v][r] = v
         /\ Keeps(c, [c EXCEPT ![r] = v], Fields \ {r})
BY Changed DEF Keeps

LEMMA CyclePut ==
  ASSUME NEW c, Typed(c), NEW n \in Nat
  PROVE  /\ Typed([c EXCEPT !.cycle = n]) /\ [c EXCEPT !.cycle = n].cycle = n
         /\ Keeps(c, [c EXCEPT !.cycle = n], Fields \ {"cycle"})
<1>1. "cycle" \in Fields /\ Fits("cycle", n)
  BY DEF Fields, Fits, Words, Bytes, Flags
<1> QED BY <1>1, Put

LEMMA BusPut ==
  ASSUME NEW c, Typed(c), NEW b \in Seq(Word \X Byte)
  PROVE  /\ Typed([c EXCEPT !.bus = b]) /\ [c EXCEPT !.bus = b].bus = b
         /\ Keeps(c, [c EXCEPT !.bus = b], Fields \ {"bus"})
<1>1. "bus" \in Fields /\ Fits("bus", b)
  BY DEF Fields, Fits, Words, Bytes, Flags
<1> QED BY <1>1, Put

LEMMA EndsPut ==
  ASSUME NEW c, Typed(c), NEW e
  PROVE  /\ Typed([c EXCEPT !.ends = e]) /\ [c EXCEPT !.ends = e].ends = e
         /\ Keeps(c, [c EXCEPT !.ends = e], Fields \ {"ends"})
<1>1. "ends" \in Fields /\ Fits("ends", e)
  BY DEF Fields, Fits, Words, Bytes, Flags
<1> QED BY <1>1, Put

LEMMA InstrPut ==
  ASSUME NEW c, Typed(c), NEW i \in Byte
  PROVE  /\ Typed([c EXCEPT !.instr = i]) /\ [c EXCEPT !.instr = i].instr = i
         /\ Keeps(c, [c EXCEPT !.instr = i], Fields \ {"instr"})
<1>1. "instr" \in Fields /\ Fits("instr", i)
  BY DEF Fields, Fits, Words, Bytes, Flags
<1> QED BY <1>1, Put

LEMMA MemPut ==
  ASSUME NEW c, Typed(c), NEW m, \A a \in DOMAIN m : m[a] \in Byte
  PROVE  Goes(c, [c EXCEPT !.mem = m])
<1>1. "mem" \in Fields /\ Fits("mem", m) /\ {"instr", "cycle", "ends", "bus"} \subseteq Fields \ {"mem"}
  BY DEF Fields, Fits, Words, Bytes, Flags
<1> QED BY <1>1, Changed DEF Goes, Keeps

LEMMA FieldNames ==
  /\ {"instr", "cycle", "ends", "bus"} \subseteq Fields
BY DEF Fields, Words, Bytes, Flags

\* What the function of the cycle works on.
Before == [cpu EXCEPT !.cycle = @ + 1, !.bus = IF cpu.cycle = 0 THEN <<>> ELSE @]

LEMMA BeforeIs ==
  ASSUME IInv
  PROVE  /\ Typed(Before) /\ Before.ends = "no" /\ Before.instr = cpu.instr
         /\ Before.cycle = cpu.cycle + 1
         /\ Before.bus = IF cpu.cycle = 0 THEN <<>> ELSE cpu.bus
<1> DEFINE b == IF cpu.cycle = 0 THEN <<>> ELSE cpu.bus
           n == cpu.cycle + 1
           d == [cpu EXCEPT !.cycle = n]
<1>1. b \in Seq(Word \X Byte) /\ n \in Nat
  BY OthersHeld DEF IInv
<1>2. Before = [d EXCEPT !.bus = b]
  BY DEF Before
<1> HIDE DEF b, n
<1>3. Typed(d) /\ d.cycle = n /\ Keeps(cpu, d, Fields \ {"cycle"})
  BY <1>1, CyclePut DEF IInv
<1> HIDE DEF d
<1>4. Typed([d EXCEPT !.bus = b]) /\ [d EXCEPT !.bus = b].bus = b /\ Keeps(d, [d EXCEPT !.bus = b], Fields \ {"bus"})
  BY <1>1, <1>3, BusPut
<1>5. Before.ends = cpu.ends /\ Before.instr = cpu.instr /\ Before.cycle = n
  BY <1>2, <1>3, <1>4, FieldNames DEF Keeps
<1> QED BY <1>2, <1>4, <1>5 DEF IInv, b, n

LEMMA ThisCycleIs ==
  ASSUME IInv
  PROVE  /\ ThisCycle \in SoundCycles
         /\ ThisCycle.func # Last => cpu.cycle + 2 \in DOMAIN instrTable[cpu.instr]
         /\ ThisCycle.func \in Skippers => cpu.cycle + 3 \in DOMAIN instrTable[cpu.instr]
<1>1. cpu.instr \in Byte /\ cpu.cycle \in Nat
  BY BytesHeld, OthersHeld DEF IInv
<1> DEFINE p == instrTable[cpu.instr]
           k == cpu.cycle + 1
<1>2. /\ p \in Seq(SoundCycles)
      /\ \A j \in DOMAIN p : /\ p[j].func # Last => j + 1 \in DOMAIN p
                             /\ p[j].func \in Skippers => j + 2 \in DOMAIN p
  BY <1>1, Program
<1>3. k \in DOMAIN p
  BY DEF IInv
<1>4. k + 1 = cpu.cycle + 2 /\ k + 2 = cpu.cycle + 3
  BY <1>1
<1>5. ThisCycle = p[k]
  BY DEF ThisCycle
<1> HIDE DEF p, k
<1>6. p[k] \in SoundCycles
  BY <1>2, <1>3
<1> QED BY <1>2, <1>3, <1>4, <1>5, <1>6 DEF p

LEMMA OperateIs ==
  ASSUME IInv
  PROVE  Outcome(ThisCycle.func, Before, Operate) /\ (ThisCycle.nosteal <=> ThisCycle.func \in Writers)
<1>1. ThisCycle.func \in Functions /\ (ThisCycle.nosteal <=> ThisCycle.func \in Writers)
  BY ThisCycleIs DEF SoundCycles
<1> QED BY <1>1, BeforeIs, PerformOutcome DEF Operate, Before

LEMMA StealsReads == IInv => OnlyReadsStolen
<1> SUFFICES ASSUME IInv PROVE OnlyReadsStolen
  OBVIOUS
<1>1. CASE ThisCycle.func \in Writers
  <2>1. Len(Operate.bus) = Len(Before.bus) + 1 /\ Before.bus \in Seq(Word \X Byte)
    BY <1>1, OperateIs, BeforeIs, OthersHeld DEF Outcome, WritesOnce
  <2>2. Operate.bus # Before.bus
    BY <2>1
  <2> QED BY <1>1, <2>2, OperateIs, BeforeIs DEF OnlyReadsStolen
<1>2. CASE ThisCycle.func \notin Writers
  <2>1. Operate.bus = Before.bus
    BY <1>2, OperateIs DEF Outcome, Goes, Finishes, Skips, Keeps
  <2> QED BY <1>2, <2>1, OperateIs, BeforeIs DEF OnlyReadsStolen
<1> QED BY <1>1, <1>2

\* The state that follows a cycle, when the instruction goes on.
LEMMA GoesOn ==
  ASSUME IInv, Operate.ends = "no"
  PROVE  Typed(Operate) /\ Operate.cycle + 1 \in DOMAIN instrTable[Operate.instr]
<1> DEFINE f == ThisCycle.func
<1>1. ~Finishes(Before, Operate)
  BY DEF Finishes
<1>2. f # Last
  <2>1. f = Last => Operate = Done(Before)
    <3>1. Last \in OfStack /\ Last \notin Common \cup Unstable \cup AtoB \cup CtoL \cup OtoT \cup Undocumented
      BY DEF Last, OfStack, Common, Unstable, AtoB, CtoL, OtoT, Undocumented
    <3>2. Perform(Last, Before) = StackCycle(Last, Before)
      BY <3>1 DEF Perform
    <3>3. StackCycle(Last, Before) = Done(Before)
      BY DEF StackCycle, Last
    <3> QED BY <3>2, <3>3 DEF Operate, Before
  <2>2. Finishes(Before, Done(Before))
    BY BeforeIs, Same, DoneFinishes
  <2> QED BY <1>1, <2>1, <2>2
<1>3. \/ Goes(Before, Operate) \/ WritesOnce(Before, Operate)
      \/ f \in Skippers /\ Skips(Before, Operate)
  BY <1>1, OperateIs DEF Outcome
<1>4. cpu.cycle \in Nat
  BY OthersHeld DEF IInv
<1> HIDE DEF f
<1>5. CASE Goes(Before, Operate) \/ WritesOnce(Before, Operate)
  <2>1. Typed(Operate) /\ Operate.instr = cpu.instr /\ Operate.cycle = cpu.cycle + 1
    BY <1>5, BeforeIs DEF Goes, WritesOnce, Keeps
  <2>2. Operate.cycle + 1 = cpu.cycle + 2
    BY <1>4, <2>1
  <2> QED BY <1>2, <2>1, <2>2, ThisCycleIs DEF f
<1>6. CASE f \in Skippers /\ Skips(Before, Operate)
  <2>1. Typed(Operate) /\ Operate.instr = cpu.instr /\ Operate.cycle = cpu.cycle + 1 + 1
    BY <1>6, BeforeIs DEF Skips, Keeps
  <2>2. Operate.cycle + 1 = cpu.cycle + 3
    BY <1>4, <2>1
  <2> QED BY <1>6, <2>1, <2>2, ThisCycleIs DEF f
<1> QED BY <1>3, <1>5, <1>6

LEMMA OperateTyped ==
  ASSUME IInv
  PROVE  Typed(Operate) /\ Operate.ends \in {"no", "interrupts", "fetch"}
BY OperateIs, BeforeIs DEF Outcome, Goes, WritesOnce, Skips, Finishes, Keeps

\* The start of a program.
Begins(c) == Typed(c) /\ c.ends = "no" /\ c.cycle = 0

LEMMA BeginsIn ==
  ASSUME NEW c, Begins(c)
  PROVE  c.cycle + 1 \in DOMAIN instrTable[c.instr]
<1>1. c.instr \in Byte
  BY BytesHeld DEF Begins
<1> QED BY <1>1, Program DEF Begins

LEMMA NextBegins ==
  ASSUME NEW c, Typed(c)
  PROVE  Begins(fetchNextOpcode(c)) /\ Begins(EnterInterrupt(c))
<1>1. Begins(fetchNextOpcode(c))
  <2> DEFINE i == cpuRead(c, c.PC)
             d1 == IncPC(c)
             d2 == [d1 EXCEPT !.rdyOnThrowAwayRead = FALSE]
             d3 == [d2 EXCEPT !.instr = i]
             d4 == [d3 EXCEPT !.cycle = 0]
             d5 == [d4 EXCEPT !.ends = "no"]
  <2>1. i \in Byte
    BY WordsHeld, WordIsInt, ReadIs
  <2>2. fetchNextOpcode(c) = d5
    BY DEF fetchNextOpcode
  <2> HIDE DEF i, d1, d2, d3, d4, d5
  <2>3. Goes(c, d1)
    BY Same, IncPCGoes DEF d1
  <2>4. Goes(c, d2)
    BY <2>3, Names, FlagPut DEF d2
  <2>5. Typed(d3)
    BY <2>1, <2>4, InstrPut DEF d3, Goes
  <2>6. Typed(d4) /\ d4.cycle = 0
    BY <2>5, CyclePut DEF d4
  <2>7. Typed(d5) /\ d5.ends = "no" /\ Keeps(d4, d5, Fields \ {"ends"})
    BY <2>6, EndsPut DEF d5
  <2>8. d5.cycle = 0
    BY <2>6, <2>7, FieldNames DEF Keeps
  <2> QED BY <2>2, <2>7, <2>8 DEF Begins
<1>2. Begins(EnterInterrupt(c))
  <2> DEFINE d1 == [c EXCEPT !.instr = BRKn]
             d2 == [d1 EXCEPT !.cycle = 0]
             d3 == [d2 EXCEPT !.d1x1 = TRUE]
             d4 == [d3 EXCEPT !.ends = "no"]
  <2>1. EnterInterrupt(c) = d4
    BY DEF EnterInterrupt
  <2> HIDE DEF d1, d2, d3, d4
  <2>2. Typed(d1)
    BY BreakProgram, InstrPut DEF d1
  <2>3. Typed(d2) /\ d2.cycle = 0
    BY <2>2, CyclePut DEF d2
  <2>4. Goes(d2, d3)
    BY <2>3, Same, Names, FlagPut DEF d3
  <2>5. Typed(d3) /\ d3.cycle = 0
    BY <2>3, <2>4 DEF Goes, Keeps
  <2>6. Typed(d4) /\ d4.ends = "no" /\ Keeps(d3, d4, Fields \ {"ends"})
    BY <2>5, EndsPut DEF d4
  <2>7. d4.cycle = 0
    BY <2>5, <2>6, FieldNames DEF Keeps
  <2> QED BY <2>1, <2>6, <2>7 DEF Begins
<1> QED BY <1>1, <1>2

LEMMA RunKeeps ==
  ASSUME IInv, Run
  PROVE  IInv'
<1>1. cpu' \in Continues(Operate) /\ Typed(Operate) /\ Operate.ends \in {"no", "interrupts", "fetch"}
  BY OperateTyped DEF Run
<1>2. CASE Operate.ends = "no"
  <2>1. cpu' = Operate
    BY <1>1, <1>2 DEF Continues
  <2> QED BY <1>2, <2>1, GoesOn DEF IInv
<1>3. CASE Operate.ends \in {"interrupts", "fetch"}
  <2>1. cpu' \in {fetchNextOpcode(Operate), EnterInterrupt(Operate)}
    BY <1>1, <1>3 DEF Continues
  <2>2. Begins(cpu')
    BY <1>1, <2>1, NextBegins
  <2>3. cpu'.cycle + 1 \in DOMAIN instrTable[cpu'.instr]
    BY <2>2, BeginsIn
  <2> QED BY <2>2, <2>3 DEF IInv, Begins
<1> QED BY <1>1, <1>2, <1>3

LEMMA GoesKeeps ==
  ASSUME IInv, Goes(cpu, cpu')
  PROVE  IInv'
BY DEF IInv, Goes, Keeps

LEMMA StallKeeps ==
  ASSUME IInv, Stall
  PROVE  IInv'
<1>1. Goes(cpu, [cpu EXCEPT !.I = FALSE]) /\ Goes(cpu, [cpu EXCEPT !.I = TRUE])
  BY Same, Names, FlagPut DEF IInv
<1>2. Goes(cpu, [cpu EXCEPT !.rdyOnThrowAwayRead = TRUE]) /\ Goes(cpu, cpu)
  BY Same, Names, FlagPut DEF IInv
<1>3. cpu' \in {[cpu EXCEPT !.I = FALSE], [cpu EXCEPT !.I = TRUE], [cpu EXCEPT !.rdyOnThrowAwayRead = TRUE], cpu}
  BY DEF Stall
<1> QED BY <1>1, <1>2, <1>3, GoesKeeps

LEMMA TriggerKeeps ==
  ASSUME IInv, TriggerNMI
  PROVE  IInv'
<1>1. Goes(cpu, [cpu EXCEPT !.nmiFlag = TRUE])
  BY Same, Names, FlagPut DEF IInv
<1> QED BY <1>1, GoesKeeps DEF TriggerNMI

LEMMA InputsHeld ==
  ASSUME NEW code \in Codes, NEW at \in Starts, NEW a \in Accumulators, NEW xy \in Indexes,
         NEW o \in Operands, NEW seed \in Seeds
  PROVE  /\ code \in Byte /\ a \in Byte /\ xy[1] \in Byte /\ xy[2] \in Byte /\ seed \in Byte
         /\ o[1] \in Byte /\ o[2] \in Byte
         /\ at \in Int /\ at + 1 \in Word
<1>1. code \in Byte
  BY CodesAssumption
<1>2. a \in Byte /\ seed \in Byte
  BY InputAssumption
<1>3. xy[1] \in Byte /\ xy[2] \in Byte /\ o[1] \in Byte /\ o[2] \in Byte
  <2>1. xy \in Byte \X Byte /\ o \in Byte \X Byte
    BY InputAssumption
  <2> QED BY <2>1
<1>4. at \in Nat /\ at + 2 < 65536
  BY InputAssumption
<1>5. at \in Int /\ at + 1 \in Word
  BY <1>4 DEF Word
<1> QED BY <1>1, <1>2, <1>3, <1>5

LEMMA InitTyped == Init => IInv
<1> SUFFICES ASSUME NEW code \in Codes, NEW at \in Starts, NEW a \in Accumulators, NEW xy \in Indexes,
                    NEW p \in Statuses, NEW o \in Operands, NEW seed \in Seeds,
                    cpu = SetStatus(
                      [PC |-> at + 1, S |-> xy[1], A |-> a, X |-> xy[1], Y |-> xy[2],
                       C |-> FALSE, Z |-> FALSE, I |-> FALSE, D |-> FALSE, V |-> FALSE, N |-> FALSE,
                       EA |-> 0, Ptr |-> 0, Data |-> 0, adl_carry |-> FALSE, d1x1 |-> FALSE,
                       nmiFlag |-> FALSE, rdyOnThrowAwayRead |-> FALSE, halted |-> FALSE, ends |-> "no",
                       instr |-> code, cycle |-> 0, bus |-> <<>>, seed |-> seed,
                       mem |-> [x \in at .. at + 2 |-> <<code, o[1], o[2]>>[x - at + 1]]], p)
             PROVE  IInv
  BY DEF Init
<1> DEFINE m == [x \in at .. at + 2 |-> <<code, o[1], o[2]>>[x - at + 1]]
           c == [PC |-> at + 1, S |-> xy[1], A |-> a, X |-> xy[1], Y |-> xy[2],
                 C |-> FALSE, Z |-> FALSE, I |-> FALSE, D |-> FALSE, V |-> FALSE, N |-> FALSE,
                 EA |-> 0, Ptr |-> 0, Data |-> 0, adl_carry |-> FALSE, d1x1 |-> FALSE,
                 nmiFlag |-> FALSE, rdyOnThrowAwayRead |-> FALSE, halted |-> FALSE, ends |-> "no",
                 instr |-> code, cycle |-> 0, bus |-> <<>>, seed |-> seed, mem |-> m]
<1>1. /\ code \in Byte /\ a \in Byte /\ xy[1] \in Byte /\ xy[2] \in Byte /\ seed \in Byte
      /\ o[1] \in Byte /\ o[2] \in Byte
  BY ONLY InputsHeld
<1>2. at \in Int /\ at + 1 \in Word
  BY ONLY InputsHeld
<1>3. \A x \in DOMAIN m : m[x] \in Byte
  <2>1. ASSUME NEW x \in at .. at + 2 PROVE <<code, o[1], o[2]>>[x - at + 1] \in Byte
    <3>1. x - at + 1 \in 1 .. 3
      BY <1>2, <2>1
    <3> QED BY <1>1, <3>1
  <2> QED BY <2>1
<1>4. 0 \in Byte /\ 0 \in Word
  BY DEF Byte, Word
<1>5. cpu = SetStatus(c, p)
  OBVIOUS
<1> HIDE DEF m
<1>6. DOMAIN c = Fields
  BY DEF Fields, Words, Bytes, Flags
<1>7. c.PC \in Word /\ c.EA \in Word /\ c.Ptr \in Word
  BY <1>2, <1>4
<1>8. /\ c.S \in Byte /\ c.A \in Byte /\ c.X \in Byte /\ c.Y \in Byte /\ c.Data \in Byte
      /\ c.instr \in Byte /\ c.seed \in Byte
  BY <1>1, <1>4
<1>9. c.cycle = 0 /\ c.ends = "no" /\ c.bus = <<>> /\ c.mem = m
  OBVIOUS
<1> HIDE DEF c
<1>10. Typed(c)
  <2>1. \A r \in Words : c[r] \in Word
    BY <1>7 DEF Words
  <2>2. \A r \in Bytes : c[r] \in Byte
    BY <1>8 DEF Bytes
  <2>3. <<>> \in Seq(Word \X Byte) /\ 0 \in Nat
    OBVIOUS
  <2>4. ASSUME NEW r \in Fields PROVE Fits(r, c[r])
    <3>1. r = "cycle" => c[r] \in Nat
      BY <1>9, <2>3
    <3>2. r = "bus" => c[r] \in Seq(Word \X Byte)
      BY <1>9, <2>3
    <3>3. r = "mem" => \A x \in DOMAIN c[r] : c[r][x] \in Byte
      BY <1>3, <1>9
    <3> QED BY <2>1, <2>2, <3>1, <3>2, <3>3 DEF Fits
  <2> QED BY <1>6, <2>4 DEF Typed
<1>11. Goes(c, cpu)
  BY <1>5, <1>10, Same, SetStatusGoes
<1>12. Begins(cpu)
  BY <1>9, <1>11 DEF Begins, Goes, Keeps
<1> QED BY <1>12, BeginsIn DEF IInv, Begins

LEMMA InitialisedIs ==
  ASSUME NEW c, Typed(c)
  PROVE  LET d == Initialised(c)
         IN Typed(d) /\ d.instr = BRKn /\ d.cycle = 6 /\ d.ends = c.ends
<1> DEFINE d1 == [c EXCEPT !.S = \hFF]
           d2 == [d1 EXCEPT !.instr = BRKn]
           d3 == [d2 EXCEPT !.cycle = 6]
           d4 == [d3 EXCEPT !.C = FALSE]
           d5 == [d4 EXCEPT !.Z = FALSE]
           d6 == [d5 EXCEPT !.I = FALSE]
           d7 == [d6 EXCEPT !.D = FALSE]
           d8 == [d7 EXCEPT !.V = FALSE]
           d9 == [d8 EXCEPT !.N = FALSE]
           d10 == [d9 EXCEPT !.PC = 0]
           d11 == [d10 EXCEPT !.nmiFlag = FALSE]
           d12 == [d11 EXCEPT !.d1x1 = FALSE]
<1>1. Initialised(c) = d12
  BY DEF Initialised
<1> HIDE DEF d1, d2, d3, d4, d5, d6, d7, d8, d9, d10, d11, d12
<1>2. \hFF \in Byte /\ 0 \in Word /\ BRKn \in Byte
  BY BreakProgram DEF Byte, Word
<1>3. Goes(c, d1)
  BY <1>2, Same, Names, BytePut DEF d1
<1>4. Typed(d2) /\ d2.instr = BRKn /\ Keeps(d1, d2, Fields \ {"instr"})
  BY <1>2, <1>3, InstrPut DEF d2, Goes
<1>5. Typed(d3) /\ d3.cycle = 6 /\ Keeps(d2, d3, Fields \ {"cycle"})
  BY <1>4, CyclePut DEF d3
<1>6. d3.instr = BRKn /\ d3.ends = c.ends
  BY <1>3, <1>4, <1>5, FieldNames DEF Keeps, Goes
<1>7. Goes(d3, d4)
  BY <1>5, Same, Names, FlagPut DEF d4
<1>8. Goes(d3, d5)
  BY <1>7, Names, FlagPut DEF d5
<1>9. Goes(d3, d6)
  BY <1>8, Names, FlagPut DEF d6
<1>10. Goes(d3, d7)
  BY <1>9, Names, FlagPut DEF d7
<1>11. Goes(d3, d8)
  BY <1>10, Names, FlagPut DEF d8
<1>12. Goes(d3, d9)
  BY <1>11, Names, FlagPut DEF d9
<1>13. Goes(d3, d10)
  BY <1>2, <1>12, Names, WordPut DEF d10
<1>14. Goes(d3, d11)
  BY <1>13, Names, FlagPut DEF d11
<1>15. Goes(d3, d12)
  BY <1>14, Names, FlagPut DEF d12
<1> QED BY <1>1, <1>5, <1>6, <1>15 DEF Goes, Keeps

LEMMA ResetKeeps ==
  ASSUME IInv, Reset
  PROVE  IInv'
<1> DEFINE d1 == Initialised(cpu)
           d2 == [d1 EXCEPT !.mem = <<>>]
           d3 == [d2 EXCEPT !.halted = FALSE]
           d4 == cpuWrite(d3, 0, \h2F)
           c == cpuWrite(d4, 1, \h37)
           vector == 256 * cpuRead(c, \hFFFD) + cpuRead(c, \hFFFC)
           e1 == [c EXCEPT !.EA = vector]
           e2 == [e1 EXCEPT !.PC = vector]
           e3 == [e2 EXCEPT !.bus = <<>>]
<1>1. cpu' = e3
  BY DEF Reset
<1> HIDE DEF d1, d2, d3, d4, c, vector, e1, e2, e3
<1>2. Typed(d1) /\ d1.instr = BRKn /\ d1.cycle = 6 /\ d1.ends = "no"
  BY InitialisedIs DEF IInv, d1
<1>3. Goes(d1, d2)
  BY <1>2, MemPut DEF d2
<1>4. Goes(d1, d3)
  BY <1>3, Names, FlagPut DEF d3
<1>5. WritesOnce(d1, d4)
  <2>1. 0 \in Word /\ \h2F \in Byte
    BY DEF Word, Byte
  <2> QED BY <1>4, <2>1, WriteWrites DEF d4
<1>6. WritesOnce(d4, c)
  <2>1. 1 \in Word /\ \h37 \in Byte
    BY DEF Word, Byte
  <2> QED BY <1>5, <2>1, Same, WriteWrites DEF c, WritesOnce
<1>7. Typed(c) /\ c.instr = BRKn /\ c.cycle = 6 /\ c.ends = "no"
  BY <1>2, <1>5, <1>6 DEF WritesOnce, Keeps
<1>8. vector \in Word
  <2>1. cpuRead(c, \hFFFD) \in Byte /\ cpuRead(c, \hFFFC) \in Byte
    BY <1>7, ReadIs
  <2> QED BY <2>1, WordFrom DEF vector
<1>9. Goes(c, e1)
  BY <1>7, <1>8, Same, Names, WordPut DEF e1
<1>10. Goes(c, e2)
  BY <1>8, <1>9, Names, WordPut DEF e2
<1>11. Typed(e3) /\ Keeps(e2, e3, Fields \ {"bus"})
  <2>1. <<>> \in Seq(Word \X Byte)
    OBVIOUS
  <2> QED BY <1>10, <2>1, BusPut DEF e3, Goes
<1>12. e3.instr = BRKn /\ e3.cycle = 6 /\ e3.ends = "no"
  BY <1>7, <1>10, <1>11, FieldNames DEF Goes, Keeps
<1>13. e3.cycle + 1 \in DOMAIN instrTable[e3.instr]
  BY <1>12, BreakProgram
<1> QED BY <1>1, <1>11, <1>12, <1>13 DEF IInv

LEMMA NextKeeps == IInv /\ [Next]_vars => IInv'
<1> SUFFICES ASSUME IInv, [Next]_vars PROVE IInv'
  OBVIOUS
<1>1. CASE Run
  BY <1>1, RunKeeps
<1>2. CASE Stall
  BY <1>2, StallKeeps
<1>3. CASE TriggerNMI
  BY <1>3, TriggerKeeps
<1>4. CASE Reset
  BY <1>4, ResetKeeps
<1>5. CASE UNCHANGED vars
  BY <1>5 DEF IInv, vars
<1> QED BY <1>1, <1>2, <1>3, <1>4, <1>5 DEF Next

LEMMA Inductive == Spec => []IInv
BY InitTyped, NextKeeps, PTL DEF Spec

\* Registers, addresses and every byte written keep their width: nothing the
\* instructions compute needs more bits than the C++ types give it.
THEOREM WidthsCorrect == Spec => []Typed(cpu)
<1>1. IInv => Typed(cpu)
  BY DEF IInv
<1> QED BY <1>1, Inductive, PTL

\* The bus is taken from the CPU in the cycles that read and in no others: the table of
\* buildInstructionTable() marks exactly the cycles whose function writes.
THEOREM OnlyReadsStolenCorrect == Spec => []OnlyReadsStolen
<1>1. IInv => OnlyReadsStolen
  BY StealsReads
<1> QED BY <1>1, Inductive, PTL

=============================================================================

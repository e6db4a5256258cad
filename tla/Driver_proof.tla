---------------------------- MODULE Driver_proof ----------------------------
(***************************************************************************)
(* Proofs about module Driver, for every set of files, every time that the *)
(* unused bit holds its charge, and whatever the tune's code does to the   *)
(* processor port: the patches of the ROMs are those of the running tune,  *)
(* the interrupt routine leaves the memory map as it was, the unused bit   *)
(* reads as it was driven for as long as its charge lasts, the tune's      *)
(* routines are visible when they are called, and the chosen song is one   *)
(* of the tune's, with the speed and the clock of its header.              *)
(***************************************************************************)
EXTENDS Driver, TLAPS

-----------------------------------------------------------------------------
(* The processor port by itself.                                           *)

(* The map is made from the registers.                                     *)
Mapped(p) == p.pla = (p.data \union (Bit \ p.dir)) \intersect Bank

(* What the capacitor is after the bit was last driven to d and has been   *)
(* an input for a cycles.                                                  *)
Capacitor(p, d, a) ==
  /\ d \in BOOLEAN /\ a \in 0..(FALL_OFF + 1)
  /\ "UNUSED" \in p.dir => (d <=> "UNUSED" \in p.data) /\ a = 0
  /\ "UNUSED" \notin p.dir /\ p.isFallingOff => p.left = FALL_OFF - a /\ p.charged = d
  /\ "UNUSED" \notin p.dir /\ ~p.isFallingOff => ~p.charged /\ (~d \/ a > FALL_OFF)

LEMMA CapacitorDriven ==
  ASSUME NEW p, NEW d, NEW a, "UNUSED" \in p.dir, d = ("UNUSED" \in p.data), a = 0
  PROVE  Capacitor(p, d, a)
<1>1. d \in BOOLEAN
  OBVIOUS
<1>2. 0 \in 0..(FALL_OFF + 1)
  BY FallOffAssumption
<1> QED BY <1>1, <1>2 DEF Capacitor

LEMMA CapacitorReleased ==
  ASSUME NEW p, NEW d \in BOOLEAN, NEW a, "UNUSED" \notin p.dir, a = 0,
         p.isFallingOff, p.left = FALL_OFF, p.charged = d
  PROVE  Capacitor(p, d, a)
BY FallOffAssumption DEF Capacitor

(* A charge is a value for the whole time.                                 *)
LEMMA ChargeType ==
  ASSUME NEW p \in Port, NEW value
  PROVE  /\ Charge(p, value) \in Port
         /\ Charge(p, value).dir = p.dir /\ Charge(p, value).data = p.data
         /\ Charge(p, value).pla = p.pla
         /\ Charge(p, value).isFallingOff = TRUE /\ Charge(p, value).left = FALL_OFF
         /\ Charge(p, value).charged = ("UNUSED" \in value)
<1> DEFINE b == "UNUSED" \in value
           q1 == [p EXCEPT !.charged = b]
           q2 == [q1 EXCEPT !.isFallingOff = TRUE]
           q3 == [q2 EXCEPT !.left = FALL_OFF]
<1>1. b \in BOOLEAN
  OBVIOUS
<1>2. Charge(p, value) = q3
  BY DEF Charge, Port
<1> HIDE DEF b
<1>3. /\ q1 \in Port /\ q1.charged = b
      /\ q1.dir = p.dir /\ q1.data = p.data /\ q1.pla = p.pla
  BY <1>1 DEF Port
<1> HIDE DEF q1
<1>4. /\ q2 \in Port /\ q2.charged = b /\ q2.isFallingOff = TRUE
      /\ q2.dir = p.dir /\ q2.data = p.data /\ q2.pla = p.pla
  BY <1>3 DEF Port
<1> HIDE DEF q2
<1>5. /\ q3 \in Port /\ q3.charged = b /\ q3.isFallingOff = TRUE /\ q3.left = FALL_OFF
      /\ q3.dir = p.dir /\ q3.data = p.data /\ q3.pla = p.pla
  BY <1>4, FallOffAssumption DEF Port
<1> HIDE DEF q3
<1> QED BY <1>2, <1>5 DEF b

(* Writing the direction register.                                         *)
LEMMA PokeDirEffect ==
  ASSUME NEW p \in Port, Mapped(p), NEW value \in SUBSET Bit
  PROVE  /\ PokeDir(p, value) \in Port /\ Mapped(PokeDir(p, value))
         /\ PokeDir(p, value).dir = value /\ PokeDir(p, value).data = p.data
         /\ IF "UNUSED" \in p.dir \ value
            THEN /\ PokeDir(p, value).isFallingOff /\ PokeDir(p, value).left = FALL_OFF
                 /\ PokeDir(p, value).charged = ("UNUSED" \in p.data)
            ELSE /\ PokeDir(p, value).isFallingOff = p.isFallingOff
                 /\ PokeDir(p, value).left = p.left
                 /\ PokeDir(p, value).charged = p.charged
<1>1. CASE value = p.dir
  BY <1>1 DEF PokeDir
<1>2. CASE value # p.dir
  <2> DEFINE c == IF "UNUSED" \in p.dir \ value THEN Charge(p, p.data) ELSE p
  <2>1. c \in Port /\ c.dir = p.dir /\ c.data = p.data /\ c.pla = p.pla
    BY ChargeType
  <2>2. IF "UNUSED" \in p.dir \ value
        THEN c.isFallingOff /\ c.left = FALL_OFF /\ c.charged = ("UNUSED" \in p.data)
        ELSE c = p
    BY ChargeType
  <2>3. PokeDir(p, value) = UpdateCpuPort([c EXCEPT !.dir = value])
    BY <1>2 DEF PokeDir
  <2> HIDE DEF c
  <2> DEFINE q == PokeDir(p, value)
  <2>4. /\ q \in Port /\ q.dir = value /\ q.data = c.data
        /\ q.isFallingOff = c.isFallingOff /\ q.left = c.left /\ q.charged = c.charged
        /\ q.pla = (c.data \union (Bit \ value)) \intersect Bank
    BY <2>1, <2>3 DEF UpdateCpuPort, Port
  <2> HIDE DEF q
  <2>5. Mapped(q)
    BY <2>4 DEF Mapped
  <2> QED BY <2>1, <2>2, <2>4, <2>5 DEF q
<1> QED BY <1>1, <1>2

(* Writing the data register.                                              *)
LEMMA PokeDataEffect ==
  ASSUME NEW p \in Port, Mapped(p), NEW value \in SUBSET Bit
  PROVE  /\ PokeData(p, value) \in Port /\ Mapped(PokeData(p, value))
         /\ PokeData(p, value).dir = p.dir /\ PokeData(p, value).data = value
         /\ "UNUSED" \notin p.dir =>
              /\ PokeData(p, value).isFallingOff = p.isFallingOff
              /\ PokeData(p, value).left = p.left
              /\ PokeData(p, value).charged = p.charged
<1> DEFINE c == IF "UNUSED" \in p.dir THEN Charge(p, value) ELSE p
<1>1. c \in Port /\ c.dir = p.dir /\ c.data = p.data /\ c.pla = p.pla
  BY ChargeType
<1>2. "UNUSED" \notin p.dir => c = p
  OBVIOUS
<1>3. PokeData(p, value) = IF value = p.data THEN c ELSE UpdateCpuPort([c EXCEPT !.data = value])
  BY DEF PokeData
<1> HIDE DEF c
<1>4. CASE value = p.data
  BY <1>1, <1>2, <1>3, <1>4 DEF Mapped
<1>5. CASE value # p.data
  <2> DEFINE q == PokeData(p, value)
  <2>1. /\ q \in Port /\ q.dir = p.dir /\ q.data = value
        /\ q.isFallingOff = c.isFallingOff /\ q.left = c.left /\ q.charged = c.charged
        /\ q.pla = (value \union (Bit \ p.dir)) \intersect Bank
    BY <1>1, <1>3, <1>5, ZenonT(60) DEF UpdateCpuPort, Port
  <2> HIDE DEF q
  <2>2. Mapped(q)
    BY <2>1 DEF Mapped
  <2> QED BY <1>2, <2>1, <2>2 DEF q
<1> QED BY <1>4, <1>5

(* Reading the data register: it shows the map's bits, and the charge.     *)
LEMMA PeekEffect ==
  ASSUME NEW p \in Port, Mapped(p)
  PROVE  /\ DataRead(p) \in SUBSET Bit
         /\ (DataRead(p) \union (Bit \ p.dir)) \intersect Bank = p.pla
         /\ Peeked(p) \in Port /\ Mapped(Peeked(p))
         /\ Peeked(p).dir = p.dir /\ Peeked(p).data = p.data /\ Peeked(p).left = p.left
         /\ IF "UNUSED" \notin p.dir /\ Discharged(p)
            THEN ~Peeked(p).charged /\ ~Peeked(p).isFallingOff ELSE Peeked(p) = p
<1>1. DataRead(p) \in SUBSET Bit
  BY DEF DataRead, Bit, Port
<1>2. (DataRead(p) \union (Bit \ p.dir)) \intersect Bank = p.pla
  <2>1. DataRead(p) \intersect Bank = (p.data \intersect Bank) \union (Bank \ p.dir)
    BY DEF DataRead, Bank
  <2>2. Bank \subseteq Bit
    BY DEF Bit
  <2> QED BY <2>1, <2>2 DEF Mapped
<1>3. CASE "UNUSED" \notin p.dir /\ Discharged(p)
  <2>1. Peeked(p) = [p EXCEPT !.charged = FALSE, !.isFallingOff = FALSE]
    BY <1>3 DEF Peeked
  <2>2. /\ Peeked(p) \in Port /\ Peeked(p).dir = p.dir /\ Peeked(p).data = p.data
        /\ Peeked(p).pla = p.pla /\ Peeked(p).left = p.left
        /\ ~Peeked(p).charged /\ ~Peeked(p).isFallingOff
    BY <2>1 DEF Port
  <2>3. Mapped(Peeked(p))
    BY <2>2 DEF Mapped
  <2> QED BY <1>1, <1>2, <1>3, <2>2, <2>3
<1>4. CASE ~("UNUSED" \notin p.dir /\ Discharged(p))
  BY <1>1, <1>2, <1>4 DEF Peeked
<1> QED BY <1>3, <1>4

(* A cycle brings the end of the charge nearer and changes nothing else.   *)
LEMMA TickEffect ==
  ASSUME NEW p \in Port, Mapped(p)
  PROVE  /\ Tick(p) \in Port /\ Mapped(Tick(p))
         /\ Tick(p).dir = p.dir /\ Tick(p).data = p.data /\ Tick(p).charged = p.charged
         /\ Tick(p).isFallingOff = p.isFallingOff
         /\ Tick(p).left = IF p.left < 0 THEN p.left ELSE p.left - 1
<1>1. CASE p.left < 0
  BY <1>1 DEF Tick
<1>2. CASE ~(p.left < 0)
  <2>1. /\ Tick(p) \in Port /\ Tick(p).dir = p.dir /\ Tick(p).data = p.data
        /\ Tick(p).charged = p.charged /\ Tick(p).isFallingOff = p.isFallingOff
        /\ Tick(p).left = p.left - 1 /\ Tick(p).pla = p.pla
    BY <1>2, FallOffAssumption DEF Tick, Port
  <2>2. Mapped(Tick(p))
    BY <2>1 DEF Mapped
  <2> QED BY <1>2, <2>1, <2>2
<1> QED BY <1>1, <1>2

(* The port after the CPU's reset: outputs for the bank bits, all set, and *)
(* no charge on the unused bit.                                            *)
LEMMA ResetCpuEffect ==
  /\ ResetCpu(ResetPort) \in Port /\ Mapped(ResetCpu(ResetPort))
  /\ ResetCpu(ResetPort).dir = Bank
  /\ Capacitor(ResetCpu(ResetPort), FALSE, 0)
<1>1. ResetPort \in Port /\ "UNUSED" \notin Bank /\ Bank \subseteq Bit
  BY FallOffAssumption DEF ResetPort, Port, Bit, Bank
<1> DEFINE d == PokeDir(ResetPort, Bank)
<1>2. d = [ResetPort EXCEPT !.dir = Bank, !.pla = (Bank \union (Bit \ Bank)) \intersect Bank]
  <2>1. ResetPort.dir # Bank
    BY DEF ResetPort, Bank
  <2> QED BY <2>1, <1>1 DEF PokeDir, UpdateCpuPort, ResetPort
<1>3. /\ d \in Port /\ d.dir = Bank /\ d.data = Bank
      /\ d.pla = (Bank \union (Bit \ Bank)) \intersect Bank
      /\ ~d.charged /\ ~d.isFallingOff
  BY <1>1, <1>2 DEF ResetPort, Port
<1> HIDE DEF d
<1>4. ResetCpu(ResetPort) = d
  BY <1>1, <1>3 DEF ResetCpu, PokeData, d
<1> QED BY <1>1, <1>3, <1>4, FallOffAssumption DEF Mapped, Capacitor

-----------------------------------------------------------------------------
(* What the driver and the tune do with the port.                          *)

(* The port and the capacitor agree.                                       *)
PortOK == port \in Port /\ Mapped(port) /\ Capacitor(port, driven, age)

LEMMA FollowDir ==
  ASSUME PortOK, NEW v \in SUBSET Bit, Follow(PokeDir(port, v))
  PROVE  PortOK'
<1>1. port \in Port /\ Mapped(port) /\ Capacitor(port, driven, age)
  BY DEF PortOK
<1> DEFINE q == PokeDir(port, v)
<1>2. /\ q \in Port /\ Mapped(q) /\ q.dir = v /\ q.data = port.data
      /\ IF "UNUSED" \in port.dir \ v
         THEN q.isFallingOff /\ q.left = FALL_OFF /\ q.charged = ("UNUSED" \in port.data)
         ELSE q.isFallingOff = port.isFallingOff /\ q.left = port.left /\ q.charged = port.charged
  BY <1>1, PokeDirEffect
<1> HIDE DEF q
<1>3. /\ port' = q
      /\ driven' = IF "UNUSED" \in q.dir THEN "UNUSED" \in q.data
                   ELSE IF "UNUSED" \in port.dir THEN "UNUSED" \in port.data ELSE driven
      /\ age' = IF "UNUSED" \in q.dir \union port.dir THEN 0 ELSE age
  BY DEF Follow, q
<1>4. Capacitor(q, driven', age')
  <2>1. CASE "UNUSED" \in v
    <3>1. "UNUSED" \in q.dir /\ driven' = ("UNUSED" \in q.data) /\ age' = 0
      BY <1>2, <1>3, <2>1
    <3> QED BY <3>1, CapacitorDriven
  <2>2. CASE "UNUSED" \notin v /\ "UNUSED" \in port.dir
    <3>1. "UNUSED" \notin q.dir /\ driven' = ("UNUSED" \in port.data) /\ age' = 0
      BY <1>2, <1>3, <2>2
    <3>2. q.isFallingOff /\ q.left = FALL_OFF /\ q.charged = ("UNUSED" \in port.data)
      BY <1>2, <2>2
    <3>3. driven' \in BOOLEAN
      BY <3>1
    <3>4. q.charged = driven'
      BY <3>1, <3>2
    <3> QED BY <3>1, <3>2, <3>3, <3>4, CapacitorReleased
  <2>3. CASE "UNUSED" \notin v /\ "UNUSED" \notin port.dir
    <3>1. driven' = driven /\ age' = age /\ "UNUSED" \notin q.dir
      BY <1>2, <1>3, <2>3
    <3>2. q.isFallingOff = port.isFallingOff /\ q.left = port.left /\ q.charged = port.charged
      BY <1>2, <2>3
    <3> QED BY <1>1, <2>3, <3>1, <3>2 DEF Capacitor
  <2> QED BY <2>1, <2>2, <2>3
<1>5. (port \in Port /\ Mapped(port))'
  BY <1>2, <1>3 DEF Mapped
<1> QED BY <1>3, <1>4, <1>5 DEF PortOK, Capacitor

LEMMA FollowData ==
  ASSUME PortOK, NEW v \in SUBSET Bit, Follow(PokeData(port, v))
  PROVE  PortOK' /\ port'.dir = port.dir /\ port'.data = v
<1>1. port \in Port /\ Mapped(port) /\ Capacitor(port, driven, age)
  BY DEF PortOK
<1> DEFINE q == PokeData(port, v)
<1>2. /\ q \in Port /\ Mapped(q) /\ q.dir = port.dir /\ q.data = v
      /\ "UNUSED" \notin port.dir =>
           q.isFallingOff = port.isFallingOff /\ q.left = port.left /\ q.charged = port.charged
  BY <1>1, PokeDataEffect
<1> HIDE DEF q
<1>3. /\ port' = q
      /\ driven' = IF "UNUSED" \in q.dir THEN "UNUSED" \in q.data
                   ELSE IF "UNUSED" \in port.dir THEN "UNUSED" \in port.data ELSE driven
      /\ age' = IF "UNUSED" \in q.dir \union port.dir THEN 0 ELSE age
  BY DEF Follow, q
<1>4. Capacitor(q, driven', age')
  <2>1. CASE "UNUSED" \in port.dir
    <3>1. "UNUSED" \in q.dir /\ driven' = ("UNUSED" \in q.data) /\ age' = 0
      BY <1>2, <1>3, <2>1
    <3> QED BY <3>1, CapacitorDriven
  <2>2. CASE "UNUSED" \notin port.dir
    <3>1. driven' = driven /\ age' = age
      BY <1>2, <1>3, <2>2
    <3> QED BY <1>1, <1>2, <2>2, <3>1 DEF Capacitor
  <2> QED BY <2>1, <2>2
<1>5. (port \in Port /\ Mapped(port))'
  BY <1>2, <1>3 DEF Mapped
<1> QED BY <1>2, <1>3, <1>4, <1>5 DEF PortOK, Capacitor

(* Looking at the port before something else happens to it.                *)
LEMMA PeekedOK ==
  ASSUME PortOK
  PROVE  /\ Peeked(port) \in Port /\ Mapped(Peeked(port))
         /\ Peeked(port).dir = port.dir /\ Peeked(port).data = port.data
         /\ Capacitor(Peeked(port), driven, age)
<1>1. port \in Port /\ Mapped(port) /\ Capacitor(port, driven, age)
  BY DEF PortOK
<1> DEFINE q == Peeked(port)
<1>2. /\ q \in Port /\ Mapped(q) /\ q.dir = port.dir /\ q.data = port.data /\ q.left = port.left
      /\ IF "UNUSED" \notin port.dir /\ Discharged(port)
         THEN ~q.charged /\ ~q.isFallingOff ELSE q = port
  BY <1>1, PeekEffect
<1> HIDE DEF q
<1>3. CASE "UNUSED" \notin port.dir /\ Discharged(port)
  <2>1. port.isFallingOff /\ port.left < 0 /\ port.left = FALL_OFF - age /\ age \in 0..(FALL_OFF + 1)
    BY <1>1, <1>3 DEF Discharged, Capacitor
  <2>2. age > FALL_OFF
    BY <2>1, FallOffAssumption
  <2>3. Capacitor(q, driven, age)
    BY <1>1, <1>2, <1>3, <2>2 DEF Capacitor
  <2> QED BY <1>2, <2>3 DEF q
<1>4. CASE ~("UNUSED" \notin port.dir /\ Discharged(port))
  BY <1>1, <1>2, <1>4 DEF q
<1> QED BY <1>3, <1>4

LEMMA FollowPeeked == ASSUME PortOK, Follow(Peeked(port)) PROVE PortOK' /\ port'.dir = port.dir
<1> DEFINE q == Peeked(port)
<1>1. /\ q \in Port /\ Mapped(q) /\ q.dir = port.dir /\ q.data = port.data
      /\ Capacitor(q, driven, age) /\ Capacitor(port, driven, age)
  BY PeekedOK DEF PortOK
<1> HIDE DEF q
<1>2. /\ port' = q
      /\ driven' = IF "UNUSED" \in q.dir THEN "UNUSED" \in q.data
                   ELSE IF "UNUSED" \in port.dir THEN "UNUSED" \in port.data ELSE driven
      /\ age' = IF "UNUSED" \in q.dir \union port.dir THEN 0 ELSE age
  BY DEF Follow, q
<1>3. driven' = driven /\ age' = age
  <2>1. CASE "UNUSED" \in port.dir
    BY <1>1, <1>2, <2>1 DEF Capacitor
  <2>2. CASE "UNUSED" \notin port.dir
    BY <1>1, <1>2, <2>2
  <2> QED BY <2>1, <2>2
<1> QED BY <1>1, <1>2, <1>3 DEF PortOK, Mapped, Capacitor

(* The interrupt routine reads the port and writes it.                     *)
LEMMA FollowPeekedData ==
  ASSUME PortOK, NEW v \in SUBSET Bit, Follow(PokeData(Peeked(port), v))
  PROVE  PortOK' /\ port'.dir = port.dir
<1> DEFINE r == Peeked(port)
           q == PokeData(r, v)
<1>1. /\ r \in Port /\ Mapped(r) /\ r.dir = port.dir /\ r.data = port.data
      /\ Capacitor(r, driven, age) /\ Capacitor(port, driven, age)
  BY PeekedOK DEF PortOK
<1> HIDE DEF r
<1>2. /\ q \in Port /\ Mapped(q) /\ q.dir = r.dir /\ q.data = v
      /\ "UNUSED" \notin r.dir =>
           q.isFallingOff = r.isFallingOff /\ q.left = r.left /\ q.charged = r.charged
  BY <1>1, PokeDataEffect
<1> HIDE DEF q
<1>3. /\ port' = q
      /\ driven' = IF "UNUSED" \in q.dir THEN "UNUSED" \in q.data
                   ELSE IF "UNUSED" \in port.dir THEN "UNUSED" \in port.data ELSE driven
      /\ age' = IF "UNUSED" \in q.dir \union port.dir THEN 0 ELSE age
  BY DEF Follow, q, r
<1>4. Capacitor(q, driven', age')
  <2>1. CASE "UNUSED" \in r.dir
    <3>1. "UNUSED" \in q.dir /\ driven' = ("UNUSED" \in q.data) /\ age' = 0
      BY <1>1, <1>2, <1>3, <2>1
    <3> QED BY <3>1, CapacitorDriven
  <2>2. CASE "UNUSED" \notin r.dir
    <3>1. driven' = driven /\ age' = age
      BY <1>1, <1>2, <1>3, <2>2
    <3> QED BY <1>1, <1>2, <2>2, <3>1 DEF Capacitor
  <2> QED BY <2>1, <2>2
<1> QED BY <1>1, <1>2, <1>3, <1>4 DEF PortOK, Mapped, Capacitor

(* A cycle passes.                                                         *)
LEMMA TickOK ==
  ASSUME PortOK, port' = Tick(port), driven' = driven,
         age' = IF "UNUSED" \in port.dir \/ age > FALL_OFF THEN age ELSE age + 1
  PROVE  PortOK' /\ port'.dir = port.dir
<1> DEFINE q == Tick(port)
<1>1. port \in Port /\ Mapped(port) /\ Capacitor(port, driven, age)
  BY DEF PortOK
<1>2. /\ q \in Port /\ Mapped(q) /\ q.dir = port.dir /\ q.data = port.data
      /\ q.charged = port.charged /\ q.isFallingOff = port.isFallingOff
      /\ q.left = IF port.left < 0 THEN port.left ELSE port.left - 1
  BY <1>1, TickEffect
<1> HIDE DEF q
<1>3. Capacitor(q, driven, age')
  BY <1>1, <1>2, FallOffAssumption DEF Capacitor
<1>4. port' = q
  BY DEF q
<1> QED BY <1>2, <1>3, <1>4 DEF PortOK, Mapped, Capacitor

(* Every map that the driver asks for is one of the bank bits.             *)
LEMMA IomapType ==
  ASSUME NEW t, NEW addr
  PROVE  Iomap(t, addr) = Untouched \/ Iomap(t, addr) \in SUBSET Bit
BY DEF Iomap, Bank, Bit

-----------------------------------------------------------------------------
(* The inductive invariant.                                                *)

(* The CPU runs the driver when the set-up has succeeded, and only then;   *)
(* and nothing is set up before a file is loaded.                          *)
EngineOK ==
  /\ engine = "running" <=> pc # "halted"
  /\ file = NoFile => engine = "off" /\ ~tune.accepted

(* While the play routine runs, what was pushed is the map to return to.   *)
StackOK ==
  pc = "play" =>
    stacked \in SUBSET Bit /\ (stacked \union (Bit \ port.dir)) \intersect Bank = banked

IInv == EngineOK /\ HooksOfTune /\ (pc # "halted" => PortOK) /\ StackOK

(* A file is not the absence of one.                                       *)
LEMMA FileLoaded == ASSUME NEW f \in Files PROVE f # NoFile
<1>1. f \in File
  BY FilesAssumption
<1>2. f.id \in {"PSID", "RSID", "MUS", "PRG"}
  BY <1>1 DEF File
<1>3. NoFile.id = "none"
  BY DEF NoFile
<1> QED BY <1>2, <1>3

LEMMA InitIInv == Init => IInv
<1>1. ~NoTune.accepted
  BY DEF NoTune
<1> QED BY <1>1 DEF Init, IInv, EngineOK, HooksOfTune, StackOK

LEMMA LoadTuneIInv == ASSUME IInv, NEW f \in Files, LoadTune(f) PROVE IInv'
<1>1. engine = "off" /\ pc = "halted"
  BY DEF IInv, EngineOK, LoadTune
<1>2. file' # NoFile /\ engine' = engine /\ pc' = pc
  BY FileLoaded DEF LoadTune
<1> QED BY <1>1, <1>2 DEF IInv, EngineOK, HooksOfTune, StackOK

LEMMA SelectSongIInv == ASSUME IInv, NEW n, SelectSong(n) PROVE IInv'
<1>1. engine # "running" /\ pc = "halted"
  BY DEF IInv, EngineOK, SelectSong
<1>2. UNCHANGED <<file, tune, engine, pc, resetHook, trap, subtune>>
  BY DEF SelectSong, rom
<1> QED BY <1>1, <1>2 DEF IInv, EngineOK, HooksOfTune, StackOK

LEMMA UnloadIInv == ASSUME IInv, Unload PROVE IInv'
<1>1. ~NoTune.accepted
  BY DEF NoTune
<1> QED BY <1>1 DEF IInv, EngineOK, HooksOfTune, StackOK, Unload

LEMMA InitialiseIInv == ASSUME IInv, Initialise PROVE IInv'
<1>1. UNCHANGED <<file, tune, song>> /\ tune.accepted
  BY DEF Initialise
<1>2. file # NoFile
  BY <1>1 DEF IInv, EngineOK
<1>3. \/ /\ engine' \in {"size", "space"} /\ pc' = "halted"
         /\ resetHook' = FALSE /\ trap' = "none" /\ subtune' = -1
      \/ /\ engine' = "running" /\ pc' = "cold"
         /\ port' = ResetCpu(ResetPort) /\ driven' = FALSE /\ age' = 0
         /\ resetHook' = TRUE
         /\ trap' = IF tune.compatibility = "BASIC" THEN "basic" ELSE "stop"
         /\ subtune' = IF tune.compatibility = "BASIC" THEN song.number - 1 ELSE -1
  <2>1. RomReset.resetHook = FALSE /\ RomReset.trap = "none" /\ RomReset.subtune = -1
    BY DEF RomReset
  <2>2. CASE SetUp(tune) = "running"
    BY <2>1, <2>2 DEF Initialise, Install
  <2>3. CASE SetUp(tune) # "running"
    <3>1. SetUp(tune) \in {"size", "space"}
      BY <2>3 DEF SetUp
    <3> QED BY <2>1, <2>3, <3>1 DEF Initialise
  <2> QED BY <2>2, <2>3
<1>4. (pc # "halted" => PortOK)'
  BY <1>3, ResetCpuEffect DEF PortOK, Mapped, Capacitor
<1>5. EngineOK' /\ HooksOfTune' /\ StackOK'
  BY <1>1, <1>2, <1>3 DEF EngineOK, HooksOfTune, StackOK
<1> QED BY <1>4, <1>5 DEF IInv

(* A step of the CPU leaves the set-up alone.                              *)
Runs ==
  /\ UNCHANGED <<file, tune, song, engine, resetHook, trap, subtune>>
  /\ pc # "halted" /\ pc' # "halted"

LEMMA RunsIInv == ASSUME IInv, Runs, PortOK', StackOK' PROVE IInv'
BY DEF IInv, Runs, EngineOK, HooksOfTune

LEMMA SetIomapIInv == ASSUME IInv, SetIomap PROVE IInv'
<1> DEFINE map == IF Iomap(tune, tune.init) = Untouched THEN Bank ELSE Iomap(tune, tune.init)
<1>1. Runs /\ PortOK /\ pc' = "init"
  BY DEF IInv, SetIomap, Runs, rom
<1>2. map \in SUBSET Bit
  BY IomapType DEF Bit
<1>3. Follow(PokeData(port, map))
  BY DEF SetIomap
<1> HIDE DEF map
<1>4. PortOK'
  BY <1>1, <1>2, <1>3, FollowData
<1> QED BY <1>1, <1>4, RunsIInv DEF StackOK

LEMMA InitReturnsIInv == ASSUME IInv, InitReturns PROVE IInv'
<1>1. Runs /\ PortOK /\ pc' = "idle"
  BY DEF IInv, InitReturns, Runs, rom
<1>2. Follow(PokeData(port, Bank)) \/ UNCHANGED <<port, unused>>
  BY DEF InitReturns
<1>3. PortOK'
  <2>1. CASE Follow(PokeData(port, Bank))
    <3>1. Bank \in SUBSET Bit
      BY DEF Bit
    <3> QED BY <1>1, <2>1, <3>1, FollowData
  <2>2. CASE UNCHANGED <<port, unused>>
    BY <1>1, <2>2 DEF PortOK, Mapped, Capacitor, unused
  <2> QED BY <1>2, <2>1, <2>2
<1> QED BY <1>1, <1>3, RunsIInv DEF StackOK

LEMMA IrqJobIInv == ASSUME IInv, IrqJob PROVE IInv'
<1>1. Runs /\ PortOK
  BY DEF IInv, IrqJob, Runs, rom
<1>2. Iomap(tune, tune.play) \in SUBSET Bit /\ Follow(PokeData(Peeked(port), Iomap(tune, tune.play)))
  BY IomapType DEF IrqJob
<1>3. PortOK' /\ port'.dir = port.dir
  BY <1>1, <1>2, FollowPeekedData
<1>4. stacked' = DataRead(port) /\ banked' = port.pla
  BY DEF IrqJob
<1>5. stacked' \in SUBSET Bit /\ (stacked' \union (Bit \ port.dir)) \intersect Bank = banked'
  BY <1>1, <1>4, PeekEffect DEF PortOK
<1> QED BY <1>1, <1>3, <1>5, RunsIInv DEF StackOK

LEMMA PlayReturnsIInv == ASSUME IInv, PlayReturns PROVE IInv' /\ port'.pla = banked
<1>1. Runs /\ PortOK /\ pc = "play" /\ pc' = "idle"
  BY DEF IInv, PlayReturns, Runs, rom
<1>2. stacked \in SUBSET Bit /\ (stacked \union (Bit \ port.dir)) \intersect Bank = banked
  BY <1>1 DEF IInv, StackOK
<1>3. Follow(PokeData(port, stacked))
  BY DEF PlayReturns
<1>4. PortOK' /\ port'.dir = port.dir /\ port'.data = stacked
  BY <1>1, <1>2, <1>3, FollowData
<1>5. port'.pla = (port'.data \union (Bit \ port'.dir)) \intersect Bank
  BY <1>4 DEF PortOK, Mapped
<1> QED BY <1>1, <1>2, <1>4, <1>5, RunsIInv DEF StackOK

(* The tune's own code, which cannot touch the directions of the port      *)
(* while the play routine runs.                                            *)
LEMMA RoamsIInv ==
  ASSUME IInv, Roams, pc # "halted", PortOK', pc = "play" => port'.dir = port.dir
  PROVE  IInv'
<1>1. Runs /\ UNCHANGED <<pc, stacked, banked>>
  BY DEF Roams, Runs, rom
<1>2. StackOK'
  BY <1>1 DEF IInv, StackOK
<1> QED BY <1>1, <1>2, RunsIInv

LEMMA TunePokesDirIInv == ASSUME IInv, TunePokesDir PROVE IInv'
<1>1. PICK v \in SUBSET Bit : Follow(PokeDir(port, v))
  BY ValuesAssumption DEF TunePokesDir
<1>2. PortOK /\ pc = "init" /\ Roams
  BY DEF IInv, TunePokesDir
<1>3. PortOK'
  BY <1>1, <1>2, FollowDir
<1> QED BY <1>2, <1>3, RoamsIInv

LEMMA TunePokesDataIInv == ASSUME IInv, TunePokesData PROVE IInv'
<1>1. PICK v \in SUBSET Bit : Follow(PokeData(port, v))
  BY ValuesAssumption DEF TunePokesData
<1>2. PortOK /\ pc # "halted" /\ Roams
  BY DEF IInv, TunePokesData
<1>3. PortOK' /\ port'.dir = port.dir
  BY <1>1, <1>2, FollowData
<1> QED BY <1>2, <1>3, RoamsIInv

LEMMA TunePeeksIInv == ASSUME IInv, TunePeeks PROVE IInv'
<1>1. PortOK /\ pc # "halted" /\ Roams /\ Follow(Peeked(port))
  BY DEF IInv, TunePeeks
<1>2. PortOK' /\ port'.dir = port.dir
  BY <1>1, FollowPeeked
<1> QED BY <1>1, <1>2, RoamsIInv

LEMMA CycleIInv == ASSUME IInv, Cycle PROVE IInv'
<1>1. PortOK /\ pc # "halted" /\ Roams
  BY DEF IInv, Cycle
<1>2. PortOK' /\ port'.dir = port.dir
  BY <1>1, TickOK DEF Cycle
<1> QED BY <1>1, <1>2, RoamsIInv

LEMMA NextIInv == IInv /\ [Next]_vars => IInv'
<1> SUFFICES ASSUME IInv, [Next]_vars  PROVE IInv'
  OBVIOUS
<1>1. CASE \E f \in Files : LoadTune(f)
  BY <1>1, LoadTuneIInv
<1>2. CASE \E n \in {0, 1, 2, 32, 33, 34, 256, 257} : SelectSong(n)
  BY <1>2, SelectSongIInv
<1>3. CASE Unload
  BY <1>3, UnloadIInv
<1>4. CASE Initialise
  BY <1>4, InitialiseIInv
<1>5. CASE SetIomap
  BY <1>5, SetIomapIInv
<1>6. CASE InitReturns
  BY <1>6, InitReturnsIInv
<1>7. CASE IrqJob
  BY <1>7, IrqJobIInv
<1>8. CASE PlayReturns
  BY <1>8, PlayReturnsIInv
<1>9. CASE TunePokesDir
  BY <1>9, TunePokesDirIInv
<1>10. CASE TunePokesData
  BY <1>10, TunePokesDataIInv
<1>11. CASE TunePeeks
  BY <1>11, TunePeeksIInv
<1>12. CASE Cycle
  BY <1>12, CycleIInv
<1>13. CASE UNCHANGED vars
  BY <1>13 DEF vars, rom, unused, IInv, EngineOK, HooksOfTune, PortOK, Mapped, Capacitor, StackOK
<1> QED
  BY <1>1, <1>2, <1>3, <1>4, <1>5, <1>6, <1>7, <1>8, <1>9, <1>10, <1>11, <1>12, <1>13 DEF Next

-----------------------------------------------------------------------------
(* The patches in the ROMs are those of the tune and of the song that run, *)
(* whatever ran or failed before; after a failed set-up there are none.    *)
THEOREM HooksCorrect == Spec => []HooksOfTune
<1>1. IInv => HooksOfTune
  BY DEF IInv
<1> QED BY InitIInv, NextIInv, <1>1, PTL DEF Spec

(* The unused bit of the port reads as it was driven for FALL_OFF cycles   *)
(* after it became an input and not longer, whoever looks at it when.      *)
THEOREM ChargeCorrect == Spec => []ChargeHolds
<1>1. IInv => ChargeHolds
  <2> SUFFICES ASSUME IInv, pc # "halted"
               PROVE  "UNUSED" \in DataRead(port) <=>
                        driven /\ ("UNUSED" \in port.dir \/ age <= FALL_OFF)
    BY DEF ChargeHolds
  <2>1. port \in Port /\ Capacitor(port, driven, age)
    BY DEF IInv, PortOK
  <2>2. "UNUSED" \in DataRead(port) <=>
          IF "UNUSED" \in port.dir THEN "UNUSED" \in port.data ELSE port.charged /\ ~Discharged(port)
    BY <2>1 DEF DataRead, Bank
  <2>3. CASE "UNUSED" \in port.dir
    BY <2>1, <2>2, <2>3 DEF Capacitor
  <2>4. CASE "UNUSED" \notin port.dir /\ port.isFallingOff
    <3>1. Discharged(port) <=> age > FALL_OFF
      BY <2>1, <2>4, FallOffAssumption DEF Discharged, Capacitor
    <3>2. (age > FALL_OFF) <=> ~(age <= FALL_OFF)
      BY <2>1, FallOffAssumption DEF Capacitor
    <3>3. port.charged = driven
      BY <2>1, <2>4 DEF Capacitor
    <3> QED BY <2>2, <2>4, <3>1, <3>2, <3>3
  <2>5. CASE "UNUSED" \notin port.dir /\ ~port.isFallingOff
    <3>1. ~port.charged /\ (~driven \/ age > FALL_OFF) /\ age \in 0..(FALL_OFF + 1)
      BY <2>1, <2>5 DEF Capacitor
    <3>2. ~driven \/ ~(age <= FALL_OFF)
      BY <3>1, FallOffAssumption
    <3> QED BY <2>2, <2>5, <3>1, <3>2
  <2> QED BY <2>3, <2>4, <2>5
<1> QED BY InitIInv, NextIInv, <1>1, PTL DEF Spec

(* When the interrupt routine is left, the map is the one that it found,   *)
(* although the play routine may have written to the port and the bits     *)
(* that are inputs read as ones.                                           *)
THEOREM BankCorrect == Spec => BankKept
<1>1. IInv /\ [Next]_vars => [pc = "play" /\ pc' = "idle" => port'.pla = banked]_vars
  <2> SUFFICES ASSUME IInv, Next, pc = "play", pc' = "idle"  PROVE port'.pla = banked
    OBVIOUS
  <2>1. PlayReturns
    BY DEF Next, LoadTune, SelectSong, Unload, Initialise, SetIomap, InitReturns, IrqJob,
           TunePokesDir, TunePokesData, TunePeeks, Cycle, Roams, IInv, EngineOK
  <2> QED BY <2>1, PlayReturnsIInv
<1> QED BY InitIInv, NextIInv, <1>1, PTL DEF Spec, BankKept

-----------------------------------------------------------------------------
(* What is known of the tune when the driver runs: the addresses of its    *)
(* routines are addresses, and that of a real machine's tune is not below  *)
(* a ROM or the I/O area.                                                  *)
Fields == {"load", "init", "play", "len", "songs", "startSong", "compatibility", "relocStartPage", "relocPages"}
Drafted(t) ==
  Fields \subseteq DOMAIN t /\ t.load \in Word /\ t.init \in Word /\ t.play \in Word

(* What is in a word, without the range being written out.                 *)
UpTo(S, top) == S = 0 .. top

LEMMA UpToMembers ==
  \A S, top : top \in Int /\ UpTo(S, top) => \A a \in Int : a \in S <=> 0 <= a /\ a <= top
BY SMT DEF UpTo

LEMMA UpToInt == \A S, top : top \in Int /\ UpTo(S, top) => S \subseteq Int
BY SMT DEF UpTo

LEMMA WordBounds == \A a : a \in Word <=> a \in Int /\ 0 <= a /\ a <= 65535
<1>1. UpTo(Word, 65535)
  BY DEF UpTo, Word
<1> QED BY <1>1, UpToMembers, UpToInt

LEMMA ZeroIsWord == 0 \in Word
BY WordBounds

LEMMA FixSongsDrafted ==
  ASSUME NEW t, Drafted(t)
  PROVE  Drafted(FixSongs(t)) /\ FixSongs(t).compatibility = t.compatibility
BY DEF FixSongs, Drafted, Fields

LEMMA FixRelocDrafted ==
  ASSUME NEW t, Drafted(t)
  PROVE  Drafted(FixReloc(t)) /\ FixReloc(t).compatibility = t.compatibility
BY DEF FixReloc, Drafted, Fields

LEMMA ResolveAddrsDrafted ==
  ASSUME NEW t, Drafted(t), NEW fileLoad \in Word
  PROVE  Drafted(ResolveAddrs(t, fileLoad))
<1> DEFINE load == IF t.load = 0 THEN fileLoad ELSE t.load
           len == IF t.load = 0 THEN t.len - 2 ELSE t.len
           play == IF t.play = 65535 THEN 0 ELSE t.play
           init == IF t.init = 0 /\ t.compatibility # "BASIC" THEN load ELSE t.init
           u == [t EXCEPT !.play = play, !.load = load, !.len = len, !.init = init]
<1>1. load \in Word /\ play \in Word /\ init \in Word
  <2>1. t.load \in Word /\ t.init \in Word /\ t.play \in Word
    BY DEF Drafted
  <2>2. load \in Word /\ play \in Word
    BY <2>1, ZeroIsWord
  <2> QED BY <2>1, <2>2
<1>2. ResolveAddrs(t, fileLoad) = u
  BY DEF ResolveAddrs, Drafted, Fields
<1> HIDE DEF load, len, play, init
<1>3. DOMAIN u = DOMAIN t /\ u.play = play /\ u.load = load /\ u.init = init
  BY DEF Drafted, Fields
<1> HIDE DEF u
<1> QED BY <1>1, <1>2, <1>3 DEF Drafted

LEMMA TryLoadDrafted ==
  ASSUME NEW h \in File  PROVE Drafted(TryLoad(h))
<1>1. h.load \in Word /\ h.init \in Word /\ h.play \in Word
  BY DEF File
<1> QED BY <1>1 DEF TryLoad, Drafted, Fields

LEMMA OtherDrafted ==
  ASSUME NEW h \in File  PROVE Drafted(LoadMus(h)) /\ Drafted(LoadPrg(h))
<1>1. 0 \in Word /\ 2304 \in Word /\ 64656 \in Word /\ 60512 \in Word /\ 64662 \in Word /\ 60544 \in Word
  BY WordBounds
<1> QED BY <1>1 DEF LoadMus, LoadPrg, Drafted, Fields, SIDTUNE_MUS_DATA_ADDR

Tuned(t) ==
  t.accepted =>
    /\ t.init \in Word /\ t.play \in Word
    /\ t.compatibility = "R64" => t.init \div 4096 \notin {10, 11, 13, 14, 15}

LEMMA AcceptedTuned ==
  ASSUME NEW t, Drafted(t), NEW fileLoad \in Word  PROVE Tuned(AcceptSidTune(t, fileLoad))
<1> DEFINE fixed == FixReloc(ResolveAddrs(FixSongs(t), fileLoad))
<1>1. Drafted(fixed)
  BY FixSongsDrafted, ResolveAddrsDrafted, FixRelocDrafted
<1>2. AcceptSidTune(t, fileLoad) =
        IF /\ ResolvableAddrs(t)
           /\ CheckRelocInfo(fixed) /\ CheckCompatibility(fixed)
           /\ fixed.len \in 1..MAX_MEMORY
        THEN fixed ELSE NoTune
  BY Zenon DEF AcceptSidTune
<1> HIDE DEF fixed
<1>3. CheckCompatibility(fixed) => Tuned(fixed)
  BY <1>1 DEF CheckCompatibility, Tuned, Drafted
<1>4. Tuned(NoTune)
  BY DEF Tuned, NoTune
<1> QED BY <1>2, <1>3, <1>4

LEMMA LoadTuned == ASSUME NEW h \in File  PROVE Tuned(Load(h))
<1>1. h.fileLoad \in Word /\ h.id \in {"PSID", "RSID", "MUS", "PRG"}
  BY DEF File
<1>2. Tuned(NoTune)
  BY DEF Tuned, NoTune
<1>3. CASE h.id \in {"PSID", "RSID"}
  <2>1. Load(h) = NoTune \/ Load(h) = AcceptSidTune(TryLoad(h), h.fileLoad)
    BY <1>3 DEF Load
  <2> QED BY <1>1, <1>2, <2>1, TryLoadDrafted, AcceptedTuned
<1>4. CASE h.id = "MUS"
  <2>1. Load(h) = NoTune \/ Load(h) = AcceptSidTune(LoadMus(h), h.fileLoad)
    BY <1>4 DEF Load
  <2> QED BY <1>1, <1>2, <2>1, OtherDrafted, AcceptedTuned
<1>5. CASE h.id = "PRG"
  <2>1. Load(h) = AcceptSidTune(LoadPrg(h), h.fileLoad)
    BY <1>5 DEF Load
  <2> QED BY <1>1, <2>1, OtherDrafted, AcceptedTuned
<1> QED BY <1>1, <1>3, <1>4, <1>5

(* Before the driver has written to the port its bank bits are outputs.    *)
TuneOK ==
  /\ Tuned(tune)
  /\ engine = "running" => tune.accepted
  /\ pc = "cold" => port.dir = Bank

LEMMA InitTuneOK == Init => TuneOK
<1>1. ~NoTune.accepted
  BY DEF NoTune
<1> QED BY <1>1 DEF Init, TuneOK, Tuned

LEMMA NextTuneOK == IInv /\ TuneOK /\ [Next]_vars => TuneOK'
<1> SUFFICES ASSUME IInv, TuneOK, [Next]_vars  PROVE TuneOK'
  OBVIOUS
<1>1. ASSUME NEW f \in Files, LoadTune(f)  PROVE TuneOK'
  <2>1. f \in File
    BY FilesAssumption
  <2>2. engine' = "off" /\ pc' = "halted" /\ tune' = Load(f)
    BY <1>1 DEF LoadTune, IInv, EngineOK
  <2>3. Tuned(tune')
    BY <2>1, <2>2, LoadTuned
  <2> QED BY <2>2, <2>3 DEF TuneOK, Tuned
<1>2. CASE Unload
  <2>1. engine' = "off" /\ pc' = "halted" /\ tune' = NoTune /\ ~NoTune.accepted
    BY <1>2 DEF Unload, NoTune
  <2> QED BY <2>1 DEF TuneOK, Tuned
<1>3. CASE Initialise
  <2>1. tune.accepted /\ tune' = tune
    BY <1>3 DEF Initialise
  <2>2. pc' = "cold" => port' = ResetCpu(ResetPort)
    BY <1>3 DEF Initialise
  <2>3. (pc = "cold" => port.dir = Bank)'
    BY <2>2, ResetCpuEffect
  <2> QED BY <2>1, <2>3 DEF TuneOK, Tuned
<1>4. CASE Cycle
  <2>1. UNCHANGED <<tune, engine, pc>> /\ pc # "halted" /\ port' = Tick(port)
    BY <1>4 DEF Cycle, Roams
  <2>2. port'.dir = port.dir
    BY <2>1, TickEffect DEF IInv, PortOK
  <2> QED BY <2>1, <2>2 DEF TuneOK, Tuned
<1>5. ASSUME UNCHANGED <<tune, engine>>, pc' # "cold"  PROVE TuneOK'
  BY <1>5 DEF TuneOK, Tuned
<1>6. ASSUME NEW n, SelectSong(n)  PROVE TuneOK'
  BY <1>5, <1>6 DEF SelectSong
<1>7. CASE SetIomap \/ InitReturns \/ IrqJob \/ PlayReturns
  BY <1>5, <1>7 DEF SetIomap, InitReturns, IrqJob, PlayReturns
<1>8. CASE TunePokesDir \/ TunePokesData \/ TunePeeks
  BY <1>5, <1>8 DEF TunePokesDir, TunePokesData, TunePeeks, Roams
<1>9. CASE UNCHANGED vars
  BY <1>9 DEF vars, TuneOK, Tuned
<1> QED BY <1>1, <1>2, <1>3, <1>4, <1>6, <1>7, <1>8, <1>9 DEF Next

(* The block of 4k that an address is in.                                  *)
LEMMA BlockOf ==
  ASSUME NEW addr \in Word, NEW n \in Int
  PROVE  addr \div 4096 \in Int /\ (addr < 4096 * n <=> addr \div 4096 < n)
<1> DEFINE b == addr \div 4096
<1>1. addr \in Int
  BY WordBounds
<1>2. b \in Int /\ 4096 * b <= addr /\ addr < 4096 * b + 4096
  BY <1>1
<1> HIDE DEF b
<1>3. addr < 4096 * n <=> b < n
  BY <1>1, <1>2
<1> QED BY <1>2, <1>3 DEF b

(* The map that the driver sets for an address shows the memory there.     *)
LEMMA IomapVisible ==
  ASSUME NEW t, NEW addr \in Word, Iomap(t, addr) # Untouched
  PROVE  addr < 4096 \/ ReadMap(Iomap(t, addr), addr \div 4096) = "RAM"
<1> DEFINE b == addr \div 4096
<1>1. addr \in Int /\ 0 <= addr /\ addr <= 65535
  BY WordBounds
<1>2. /\ b \in Int
      /\ addr < 4096 <=> b < 1
      /\ addr < 40960 <=> b < 10
      /\ addr < 53248 <=> b < 13
      /\ addr < 57344 <=> b < 14
      /\ b < 16
  <2>1. \A n \in Int : b \in Int /\ (addr < 4096 * n <=> b < n)
    BY BlockOf
  <2> HIDE DEF b
  <2>2. addr < 4096 * 1 <=> b < 1
    BY <2>1
  <2>3. addr < 4096 * 10 <=> b < 10
    BY <2>1
  <2>4. addr < 4096 * 13 <=> b < 13
    BY <2>1
  <2>5. addr < 4096 * 14 <=> b < 14
    BY <2>1
  <2>6. addr < 4096 * 16 <=> b < 16
    BY <2>1
  <2>7. addr < 4096 * 16
    BY <1>1
  <2>8. b \in Int
    BY <2>1
  <2> QED BY <2>2, <2>3, <2>4, <2>5, <2>6, <2>7, <2>8
<1> HIDE DEF b
<1>3. Iomap(t, addr) =
        IF addr < 40960 THEN Bank ELSE IF addr < 53248 THEN {"HIRAM", "CHAREN"}
        ELSE IF addr >= 57344 THEN {"LORAM", "CHAREN"} ELSE {"CHAREN"}
  BY DEF Iomap
<1>4. CASE addr < 40960
  <2>1. Iomap(t, addr) = Bank
    BY <1>3, <1>4
  <2>2. addr < 4096 \/ b \in 1..9
    BY <1>1, <1>2, <1>4
  <2>3. b \in 1..9 => ReadMap(Bank, b) = "RAM"
    BY DEF ReadMap
  <2> QED BY <2>1, <2>2, <2>3 DEF b
<1>5. CASE addr >= 40960 /\ addr < 53248
  <2>1. Iomap(t, addr) = {"HIRAM", "CHAREN"}
    <3>1. ~(addr < 40960)
      BY <1>1, <1>5
    <3> QED BY <1>3, <1>5, <3>1
  <2>2. b \in 10..12
    BY <1>1, <1>2, <1>5
  <2>3. ReadMap({"HIRAM", "CHAREN"}, b) = "RAM"
    BY <2>2 DEF ReadMap
  <2> QED BY <2>1, <2>3 DEF b
<1>6. CASE addr >= 53248 /\ addr < 57344
  <2>1. Iomap(t, addr) = {"CHAREN"}
    <3>1. ~(addr < 40960) /\ ~(addr < 53248) /\ ~(addr >= 57344)
      BY <1>1, <1>6
    <3> QED BY <1>3, <3>1
  <2>2. b = 13
    BY <1>1, <1>2, <1>6
  <2>3. ReadMap({"CHAREN"}, 13) = "RAM"
    BY DEF ReadMap, HasIO
  <2> QED BY <2>1, <2>2, <2>3 DEF b
<1>7. CASE addr >= 57344
  <2>1. Iomap(t, addr) = {"LORAM", "CHAREN"}
    <3>1. ~(addr < 40960) /\ ~(addr < 53248)
      BY <1>1, <1>7
    <3> QED BY <1>3, <1>7, <3>1
  <2>2. b = 14 \/ b = 15
    <3>1. b \in Int /\ ~(b < 14) /\ b < 16
      BY <1>1, <1>2, <1>7
    <3> QED BY <3>1
  <2>3. ReadMap({"LORAM", "CHAREN"}, b) = "RAM"
    BY <2>2 DEF ReadMap
  <2> QED BY <2>1, <2>3 DEF b
<1> QED BY <1>1, <1>4, <1>5, <1>6, <1>7

(* While the bank bits are outputs the map is what is written.             *)
LEMMA OutputsMap ==
  ASSUME NEW p \in Port, Mapped(p), Bank \subseteq p.dir, NEW v \in SUBSET Bit
  PROVE  PokeData(p, v).pla = v \intersect Bank
BY PokeDataEffect DEF Mapped

(* When the driver calls a routine of the tune the CPU sees the memory     *)
(* that the tune was loaded into, wherever the header puts the routine.    *)
THEOREM CodeCorrect == Spec => CodeVisible
<1> DEFINE Visible ==
      Bank \subseteq port.dir =>
        /\ pc = "cold" /\ pc' = "init" =>
             IF tune.compatibility = "BASIC" THEN ReadMap(port'.pla, 11) = "BASIC"
             ELSE tune.init < 4096 \/ Calls(tune.init)'
        /\ pc = "idle" /\ pc' = "play" => tune.play < 4096 \/ Calls(tune.play)'
<1>1. ASSUME IInv, TuneOK, SetIomap
      PROVE  IF tune.compatibility = "BASIC" THEN ReadMap(port'.pla, 11) = "BASIC"
             ELSE tune.init < 4096 \/ Calls(tune.init)'
  <2> DEFINE map == IF Iomap(tune, tune.init) = Untouched THEN Bank ELSE Iomap(tune, tune.init)
  <2>1. /\ port \in Port /\ Mapped(port) /\ port.dir = Bank /\ tune.accepted
        /\ port' = PokeData(port, map) /\ tune' = tune
    BY <1>1 DEF IInv, PortOK, TuneOK, EngineOK, SetIomap, Follow
  <2>2. map \in SUBSET Bank
    BY DEF Iomap, Bank
  <2>3. port'.pla = map
    <3> HIDE DEF map
    <3>1. map \in SUBSET Bit /\ map \intersect Bank = map
      BY <2>2 DEF Bit
    <3> QED BY <2>1, <3>1, OutputsMap
  <2>4. tune.init \in Word
    BY <1>1, <2>1 DEF TuneOK, Tuned
  <2>5. CASE tune.compatibility = "BASIC"
    <3>1. map = Bank
      BY <2>5 DEF Iomap
    <3> QED BY <2>3, <2>5, <3>1 DEF ReadMap, Bank
  <2>6. CASE tune.compatibility # "BASIC" /\ Iomap(tune, tune.init) # Untouched
    <3>1. map = Iomap(tune, tune.init)
      BY <2>6
    <3> QED BY <2>1, <2>3, <2>4, <2>6, <3>1, IomapVisible DEF Calls
  <2>7. CASE tune.compatibility # "BASIC" /\ Iomap(tune, tune.init) = Untouched
    <3>1. map = Bank /\ (tune.compatibility = "R64" \/ tune.init = 0)
      <4>1. "untouched" \notin Bank /\ "CHAREN" # "untouched"
        BY DEF Bank
      <4> QED BY <2>7, <4>1 DEF Iomap, Untouched, Bank
    <3>2. tune.init = 0 => tune.init < 4096
      OBVIOUS
    <3>3. CASE tune.compatibility = "R64"
      <4>1. tune.init \div 4096 \notin {10, 11, 13, 14, 15}
        BY <1>1, <2>1, <3>3 DEF TuneOK, Tuned
      <4>2. tune.init \div 4096 = 0 => tune.init < 4096
        <5>1. tune.init < 4096 * 1 <=> tune.init \div 4096 < 1
          BY <2>4, BlockOf
        <5> QED BY <5>1
      <4>3. tune.init \div 4096 # 0 => ReadMap(Bank, tune.init \div 4096) = "RAM"
        BY <4>1 DEF ReadMap
      <4> QED BY <2>1, <2>3, <2>7, <3>1, <4>2, <4>3 DEF Calls
    <3> QED BY <2>7, <3>1, <3>2, <3>3
  <2> QED BY <2>5, <2>6, <2>7
<1>2. ASSUME IInv, TuneOK, IrqJob, Bank \subseteq port.dir
      PROVE  tune.play < 4096 \/ Calls(tune.play)'
  <2> DEFINE map == Iomap(tune, tune.play)
             r == Peeked(port)
  <2>1. PortOK /\ tune.accepted /\ map # Untouched /\ port' = PokeData(r, map) /\ tune' = tune
    BY <1>2 DEF IInv, TuneOK, EngineOK, IrqJob, Follow
  <2>2. r \in Port /\ Mapped(r) /\ Bank \subseteq r.dir
    BY <1>2, <2>1, PeekedOK
  <2>3. map \in SUBSET Bank
    BY <2>1 DEF Iomap, Bank
  <2>4. tune.play \in Word
    BY <1>2, <2>1 DEF TuneOK, Tuned
  <2>5. tune.play < 4096 \/ ReadMap(map, tune.play \div 4096) = "RAM"
    BY <2>1, <2>4, IomapVisible
  <2> HIDE DEF map, r
  <2>6. port'.pla = map
    <3>1. map \in SUBSET Bit /\ map \intersect Bank = map
      BY <2>3 DEF Bit
    <3> QED BY <2>1, <2>2, <3>1, OutputsMap
  <2> QED BY <2>1, <2>5, <2>6 DEF Calls
<1>3. IInv /\ TuneOK /\ [Next]_vars => [Visible]_vars
  <2> SUFFICES ASSUME IInv, TuneOK, Next, Bank \subseteq port.dir
               PROVE  /\ pc = "cold" /\ pc' = "init" =>
                           IF tune.compatibility = "BASIC" THEN ReadMap(port'.pla, 11) = "BASIC"
                           ELSE tune.init < 4096 \/ Calls(tune.init)'
                      /\ pc = "idle" /\ pc' = "play" => tune.play < 4096 \/ Calls(tune.play)'
    OBVIOUS
  <2>1. pc = "cold" /\ pc' = "init" => SetIomap
    BY DEF Next, LoadTune, SelectSong, Unload, Initialise, InitReturns, IrqJob, PlayReturns,
           TunePokesDir, TunePokesData, TunePeeks, Cycle, Roams
  <2>2. pc = "idle" /\ pc' = "play" => IrqJob
    BY DEF Next, LoadTune, SelectSong, Unload, Initialise, InitReturns, SetIomap, PlayReturns,
           TunePokesDir, TunePokesData, TunePeeks, Cycle, Roams
  <2> QED BY <1>1, <1>2, <2>1, <2>2
<1>4. Init => IInv /\ TuneOK
  BY InitIInv, InitTuneOK
<1>5. (IInv /\ TuneOK) /\ [Next]_vars => (IInv /\ TuneOK)'
  BY NextIInv, NextTuneOK
<1> QED BY <1>3, <1>4, <1>5, PTL DEF Spec, CodeVisible

-----------------------------------------------------------------------------
(* The songs: what the loading keeps of a header, and what is chosen.      *)
Header(t) ==
  {"songs", "startSong", "compatibility", "clock", "speed", "tabulated"} \subseteq DOMAIN t

(* Neither the addresses nor the relocation information touch the songs.   *)
SameSongs(u, t) ==
  /\ u.songs = t.songs /\ u.startSong = t.startSong /\ u.compatibility = t.compatibility
  /\ u.clock = t.clock /\ u.speed = t.speed /\ u.tabulated = t.tabulated

LEMMA ResolveAddrsSongs ==
  ASSUME NEW t, Header(t), NEW fileLoad
  PROVE  Header(ResolveAddrs(t, fileLoad)) /\ SameSongs(ResolveAddrs(t, fileLoad), t)
BY DEF ResolveAddrs, Header, SameSongs

LEMMA FixRelocSongs ==
  ASSUME NEW t, Header(t)  PROVE Header(FixReloc(t)) /\ SameSongs(FixReloc(t), t)
BY DEF FixReloc, Header, SameSongs

(* However many songs the header counts, there are 1 to 256.               *)
LEMMA FixSongsRange ==
  ASSUME NEW t, Header(t), t.songs \in Nat, t.startSong \in Nat
  PROVE  LET u == FixSongs(t)
         IN  /\ Header(u)
             /\ u.songs \in 1..MAX_SONGS /\ u.startSong \in 1..u.songs
             /\ t.songs # 0 => u.songs = Least(t.songs, MAX_SONGS)
             /\ u.compatibility = t.compatibility /\ u.clock = t.clock
             /\ u.speed = t.speed /\ u.tabulated = t.tabulated
<1> DEFINE n == IF t.songs > MAX_SONGS THEN MAX_SONGS ELSE IF t.songs = 0 THEN 1 ELSE t.songs
           k == IF t.startSong \in 1..n THEN t.startSong ELSE 1
           u == [t EXCEPT !.songs = n, !.startSong = k]
<1>1. n \in 1..MAX_SONGS /\ (t.songs # 0 => n = Least(t.songs, MAX_SONGS))
  BY DEF MAX_SONGS, Least
<1>2. k \in 1..n
  BY <1>1
<1>3. FixSongs(t) = u
  BY DEF FixSongs, Header
<1> HIDE DEF n, k
<1>4. /\ Header(u) /\ u.songs = n /\ u.startSong = k
      /\ u.compatibility = t.compatibility /\ u.clock = t.clock
      /\ u.speed = t.speed /\ u.tabulated = t.tabulated
  BY DEF Header
<1> HIDE DEF u
<1> QED BY <1>1, <1>2, <1>3, <1>4

(* An accepted tune counts its songs, from one that is there.              *)
LEMMA AcceptedSongs ==
  ASSUME NEW t, Header(t), t.songs \in Nat, t.startSong \in Nat, NEW fileLoad,
         AcceptSidTune(t, fileLoad).accepted
  PROVE  LET u == AcceptSidTune(t, fileLoad)
         IN  /\ u.songs \in 1..MAX_SONGS /\ u.startSong \in 1..u.songs
             /\ t.songs # 0 => u.songs = Least(t.songs, MAX_SONGS)
             /\ u.compatibility = t.compatibility /\ u.clock = t.clock
             /\ u.speed = t.speed /\ u.tabulated = t.tabulated
<1> DEFINE counted == FixSongs(t)
           resolved == ResolveAddrs(counted, fileLoad)
           fixed == FixReloc(resolved)
<1>1. AcceptSidTune(t, fileLoad) =
        IF /\ ResolvableAddrs(t)
           /\ CheckRelocInfo(fixed) /\ CheckCompatibility(fixed)
           /\ fixed.len \in 1..MAX_MEMORY
        THEN fixed ELSE NoTune
  BY Zenon DEF AcceptSidTune
<1>2. /\ Header(counted)
      /\ counted.songs \in 1..MAX_SONGS /\ counted.startSong \in 1..counted.songs
      /\ t.songs # 0 => counted.songs = Least(t.songs, MAX_SONGS)
      /\ counted.compatibility = t.compatibility /\ counted.clock = t.clock
      /\ counted.speed = t.speed /\ counted.tabulated = t.tabulated
  BY FixSongsRange
<1> HIDE DEF counted
<1>3. Header(resolved) /\ SameSongs(resolved, counted)
  BY <1>2, ResolveAddrsSongs
<1> HIDE DEF resolved
<1>4. SameSongs(fixed, resolved)
  BY <1>3, FixRelocSongs
<1> HIDE DEF fixed
<1>5. AcceptSidTune(t, fileLoad) = fixed
  BY <1>1 DEF NoTune
<1> QED BY <1>2, <1>3, <1>4, <1>5 DEF SameSongs

(* What an accepted file says of its songs.                                *)
LEMMA LoadedSongs ==
  ASSUME NEW h \in File, Load(h).accepted
  PROVE  LET t == Load(h)
         IN  /\ t.songs \in 1..MAX_SONGS /\ t.startSong \in 1..t.songs
             /\ h.id \in {"PSID", "RSID"} =>
                  /\ h.songs # 0 => t.songs = Least(h.songs, MAX_SONGS)
                  /\ t.tabulated = Least(h.songs, MAX_SONGS)
                  /\ t.compatibility = Compatibility(h)
                  /\ t.clock = IF Extended(h) THEN h.clock ELSE "UNKNOWN"
                  /\ t.speed = IF h.id = "RSID" THEN 0..31 ELSE h.speed
<1>1. h.id \in {"PSID", "RSID", "MUS", "PRG"} /\ h.songs \in Nat /\ h.start \in Nat
  <2>1. h.id \in {"PSID", "RSID", "MUS", "PRG"} /\ h.songs \in Word /\ h.start \in Word
    BY DEF File
  <2>2. Word \subseteq Nat
    BY WordBounds
  <2> QED BY <2>1, <2>2
<1>2. ~NoTune.accepted
  BY DEF NoTune
<1>3. CASE h.id \in {"PSID", "RSID"}
  <2>1. Load(h) = NoTune \/ Load(h) = AcceptSidTune(TryLoad(h), h.fileLoad)
    BY <1>3 DEF Load
  <2>2. Load(h) = AcceptSidTune(TryLoad(h), h.fileLoad)
    BY <1>2, <2>1
  <2>3. /\ Header(TryLoad(h)) /\ TryLoad(h).songs = h.songs /\ TryLoad(h).startSong = h.start
        /\ TryLoad(h).tabulated = Least(h.songs, MAX_SONGS)
        /\ TryLoad(h).compatibility = Compatibility(h)
        /\ TryLoad(h).clock = (IF Extended(h) THEN h.clock ELSE "UNKNOWN")
        /\ TryLoad(h).speed = (IF h.id = "RSID" THEN 0..31 ELSE h.speed)
    BY DEF TryLoad, Header
  <2> QED BY <1>1, <2>2, <2>3, AcceptedSongs
<1>4. CASE h.id \in {"MUS", "PRG"}
  <2>1. Load(h) = NoTune \/ Load(h) = AcceptSidTune(LoadMus(h), h.fileLoad)
                         \/ Load(h) = AcceptSidTune(LoadPrg(h), h.fileLoad)
    BY <1>4 DEF Load
  <2>2. /\ Header(LoadMus(h)) /\ LoadMus(h).songs = 1 /\ LoadMus(h).startSong = 1
        /\ Header(LoadPrg(h)) /\ LoadPrg(h).songs = 1 /\ LoadPrg(h).startSong = 1
    BY DEF LoadMus, LoadPrg, Header
  <2>3. CASE Load(h) = AcceptSidTune(LoadMus(h), h.fileLoad)
    BY <1>4, <2>2, <2>3, AcceptedSongs
  <2>4. CASE Load(h) = AcceptSidTune(LoadPrg(h), h.fileLoad)
    BY <1>4, <2>2, <2>4, AcceptedSongs
  <2> QED BY <1>2, <2>1, <2>3, <2>4
<1> QED BY <1>1, <1>3, <1>4

(* The tune is that of the file, and the song was chosen from it.          *)
SongOK ==
  /\ tune.accepted => file \in Files /\ tune = Load(file)
  /\ song # NoSong => tune.accepted /\ \E n \in Nat : song = Selected(tune, n)

LEMMA NextSongOK == IInv /\ SongOK /\ [Next]_vars => SongOK'
<1> SUFFICES ASSUME IInv, SongOK, [Next]_vars  PROVE SongOK'
  OBVIOUS
<1>1. ASSUME NEW f \in Files, LoadTune(f)  PROVE SongOK'
  <2>1. file = NoFile /\ song' = NoSong
    BY <1>1 DEF LoadTune, IInv, EngineOK, SongOK
  <2> QED BY <1>1, <2>1 DEF LoadTune, SongOK
<1>2. ASSUME NEW n \in Nat, SelectSong(n)  PROVE SongOK'
  BY <1>2 DEF SelectSong, SongOK
<1>3. CASE Unload
  BY <1>3 DEF Unload, SongOK, NoTune
<1>4. ASSUME UNCHANGED <<file, tune, song>>  PROVE SongOK'
  BY <1>4 DEF SongOK
<1>5. CASE Initialise
  BY <1>4, <1>5 DEF Initialise
<1>6. CASE SetIomap \/ InitReturns \/ IrqJob \/ PlayReturns
  BY <1>4, <1>6 DEF SetIomap, InitReturns, IrqJob, PlayReturns
<1>7. CASE TunePokesDir \/ TunePokesData \/ TunePeeks \/ Cycle
  BY <1>4, <1>7 DEF TunePokesDir, TunePokesData, TunePeeks, Cycle, Roams
<1>8. CASE UNCHANGED vars
  BY <1>4, <1>8 DEF vars
<1>9. {0, 1, 2, 32, 33, 34, 256, 257} \subseteq Nat
  OBVIOUS
<1> QED BY <1>1, <1>2, <1>3, <1>5, <1>6, <1>7, <1>8, <1>9 DEF Next

(* The entry of the speed table for a song that the header counts.         *)
LEMMA SpeedOfSong ==
  ASSUME NEW t, NEW speed, NEW k \in 1..t.tabulated, t.tabulated \in Nat
  PROVE  /\ t.speed = speed /\ t.compatibility = "PSID" =>
              (TabulatedSpeed(t, (k - 1) % 32) = "CIA_1A" <=> (k - 1) % 32 \in speed)
         /\ t.speed = speed =>
              (TabulatedSpeed(t, k - 1) = "CIA_1A" <=> Least(k, 32) - 1 \in speed)
<1>1. (k - 1) % 32 \in 0..31 /\ (k - 1) % 32 <= k - 1
  OBVIOUS
<1>2. Least((k - 1) % 32, 31) = (k - 1) % 32
  BY <1>1 DEF Least
<1>3. Least(k - 1, 31) = Least(k, 32) - 1
  BY DEF Least
<1>4. (k - 1) % 32 < t.tabulated /\ k - 1 < t.tabulated
  BY <1>1
<1> QED BY <1>2, <1>3, <1>4 DEF TabulatedSpeed

(* Whatever numbers the header holds and whichever number the client asks  *)
(* for, the chosen song is one of the tune's, and its speed and its clock  *)
(* are those that the header gives it.                                     *)
THEOREM SongCorrect == Spec => []SongPlays
<1>1. Init => SongOK
  BY DEF Init, SongOK, NoTune
<1>2. SongOK => SongPlays
  <2> SUFFICES ASSUME SongOK, song # NoSong
               PROVE  SongPlays
    BY DEF SongPlays
  <2>1. PICK n \in Nat : song = Selected(tune, n)
    BY DEF SongOK
  <2>2. tune.accepted /\ file \in File /\ tune = Load(file)
    BY FilesAssumption DEF SongOK
  <2> DEFINE k == IF n = 0 \/ n > tune.songs THEN tune.startSong ELSE n
  <2>3. /\ tune.songs \in 1..MAX_SONGS /\ tune.startSong \in 1..tune.songs
        /\ file.id \in {"PSID", "RSID"} =>
             /\ file.songs # 0 => tune.songs = Least(file.songs, MAX_SONGS)
             /\ tune.tabulated = Least(file.songs, MAX_SONGS)
             /\ tune.compatibility = Compatibility(file)
             /\ tune.clock = IF Extended(file) THEN file.clock ELSE "UNKNOWN"
             /\ tune.speed = IF file.id = "RSID" THEN 0..31 ELSE file.speed
    BY <2>2, LoadedSongs
  <2>4. k \in 1..tune.songs /\ k \in Nat
    BY <2>3 DEF MAX_SONGS
  <2>5. /\ song.number = k
        /\ song.speed = (CASE tune.compatibility = "R64" -> "CIA_1A"
                           [] tune.compatibility = "PSID" -> TabulatedSpeed(tune, (k - 1) % 32)
                           [] OTHER -> TabulatedSpeed(tune, k - 1))
        /\ song.clock = IF k <= tune.tabulated THEN tune.clock ELSE "UNKNOWN"
    BY <2>1 DEF Selected
  <2> HIDE DEF k
  <2>6. ASSUME file.id \in {"PSID", "RSID"}, file.songs # 0
        PROVE  /\ song.clock = IF Extended(file) THEN file.clock ELSE "UNKNOWN"
               /\ LET bit == IF tune.compatibility = "PSID" THEN (song.number - 1) % 32
                             ELSE Least(song.number, 32) - 1
                  IN  song.speed = "CIA_1A" <=> file.id = "RSID" \/ bit \in file.speed
    <3>1. tune.tabulated = tune.songs /\ tune.tabulated \in Nat /\ k \in 1..tune.tabulated
      BY <2>3, <2>4, <2>6 DEF MAX_SONGS
    <3>2. song.clock = IF Extended(file) THEN file.clock ELSE "UNKNOWN"
      BY <2>3, <2>4, <2>5, <2>6, <3>1
    <3>3. CASE file.id = "RSID"
      <4>1. tune.compatibility \in {"R64", "BASIC"} /\ tune.speed = 0..31
        BY <2>3, <2>6, <3>3 DEF Compatibility
      <4>2. Least(k, 32) - 1 \in 0..31
        BY <2>4 DEF Least
      <4>3. TabulatedSpeed(tune, k - 1) = "CIA_1A"
        BY <3>1, <4>1, <4>2, SpeedOfSong
      <4> QED BY <2>5, <3>2, <3>3, <4>1, <4>3
    <3>4. CASE file.id = "PSID"
      <4>1. tune.compatibility \in {"PSID", "C64"} /\ tune.speed = file.speed
        BY <2>3, <2>6, <3>4 DEF Compatibility
      <4>2. CASE tune.compatibility = "PSID"
        BY <2>5, <3>1, <3>2, <3>4, <4>1, <4>2, SpeedOfSong, ZenonT(60)
      <4>3. CASE tune.compatibility = "C64"
        BY <2>5, <3>1, <3>2, <3>4, <4>1, <4>3, SpeedOfSong
      <4> QED BY <4>1, <4>2, <4>3
    <3> QED BY <2>6, <3>3, <3>4
  <2> QED BY <2>3, <2>4, <2>5, <2>6 DEF SongPlays
<1>3. Init => IInv /\ SongOK
  BY InitIInv, <1>1
<1>4. (IInv /\ SongOK) /\ [Next]_vars => (IInv /\ SongOK)'
  BY NextIInv, NextSongOK
<1> QED BY <1>2, <1>3, <1>4, PTL DEF Spec
=============================================================================

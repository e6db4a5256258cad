------------------------- MODULE CpuInterrupt_proof -------------------------
(***************************************************************************)
(* Proofs about module CpuInterrupt: for any program and any behaviour of  *)
(* the VIC's registers, an IRQ is neither forgotten nor taken for a line   *)
(* that is long gone; and the CPU's event is always on the queue just      *)
(* once, if writes do not raise the line and no instruction writes twice.  *)
(***************************************************************************)
EXTENDS CpuInterrupt, TLAPS

\* The cycle of the interrupt is one that has passed.
Passed == interruptCycle \in {-MAX, MAX} \cup (-1 .. cycle)

\* A recognised interrupt has its cause, or its release is about to be noticed;
\* the cause may also have gone when the vector was chosen.
Caused ==
  interruptCycle # MAX =>
    nmiFlag \/ irqAssertedOnPin \/ clearInt > 0 \/ (instr = "BRK" /\ cycle >= 3)

\* The release is noticed before the CPU goes on.
Noticed == phase = "PHI2" => clearInt # 1

IInv == TypeOK /\ Passed /\ Caused /\ Noticed /\ IrqKept

\* The instruction that has released the line, before its last cycle.
Releasing == instr \in {"LOAD", "STORE"} /\ cycle = 3
Acted == phase = "PHI2" /\ "cpu" \in done

\* The next instruction cannot release the line before the release is noticed.
Distance ==
  /\ ciaRead => instr = "LOAD" /\ cycle = 3 /\ clearInt = 0 /\ (phase = "PHI1" \/ Acted)
  /\ clearInt = 4 => Releasing /\ Acted
  /\ clearInt = 3 => Releasing \/ (cycle = 0 /\ Acted)
  /\ clearInt = 2 => Releasing \/ cycle = 0 \/ (cycle = 1 /\ Acted)
  /\ clearInt = 1 => Releasing \/ cycle \in {0, 1}

\* The CPU has nothing but the program and its interrupt sequence.
Fetched == instr \in Program \cup {"BRK"}

OneInv == OneCpuEvent /\ Distance /\ Fetched

-----------------------------------------------------------------------------
(* The table of the instructions.                                          *)

Inner == {"idle", "load", "push", "setI", "popSR", "write", "pushLow"}

\* Where the operations occur.
LEMMA TableFacts ==
  ASSUME NEW x \in DOMAIN Table, NEW k \in 0 .. Len(Table[x]) - 1
  PROVE  /\ Len(Table[x]) \in 1 .. 7
         /\ LET op == Table[x][k + 1]
            IN /\ op \in Inner \cup {"next", "fetch", "cli", "sei", "branch"}
               /\ op \in Inner => k + 1 <= Len(Table[x]) - 1
               /\ op = "branch" => k = 1 /\ Len(Table[x]) = 4 /\ x = "BRANCH"
               /\ op = "pushLow" <=> x = "BRK" /\ k = 2
               /\ op = "fetch" <=> x = "BRK" /\ k = 6
               /\ op = "load" <=> x = "LOAD" /\ k = 2
               /\ op = "write" <=> (x = "STORE" /\ k = 2) \/ (x = "RMW" /\ k \in {3, 4})
               /\ op = "setI" <=> x = "BRK" /\ k = 5
               /\ op = "cli" <=> x = "CLI" /\ k = 1
               /\ op = "sei" <=> x = "SEI" /\ k = 1
               /\ op = "next" => x # "BRK"
               /\ k = 0 => op = "idle"
               /\ x \in {"LOAD", "STORE"} /\ k = 3 => op = "next"
<1>0. DOMAIN Table = {"PLAIN", "LOAD", "STORE", "RMW", "BRANCH", "CLI", "SEI", "PLP", "RTI", "BRK"}
  BY DEF Table
<1>1. CASE x = "PLAIN"
  BY <1>1 DEF Table, Inner
<1>2. CASE x = "LOAD"
  BY <1>2 DEF Table, Inner
<1>3. CASE x = "STORE"
  BY <1>3 DEF Table, Inner
<1>4. CASE x = "RMW"
  BY <1>4 DEF Table, Inner
<1>5. CASE x = "BRANCH"
  BY <1>5 DEF Table, Inner
<1>6. CASE x = "CLI"
  BY <1>6 DEF Table, Inner
<1>7. CASE x = "SEI"
  BY <1>7 DEF Table, Inner
<1>8. CASE x = "PLP"
  BY <1>8 DEF Table, Inner
<1>9. CASE x = "RTI"
  BY <1>9 DEF Table, Inner
<1>10. CASE x = "BRK"
  BY <1>10 DEF Table, Inner
<1> QED BY <1>0, <1>1, <1>2, <1>3, <1>4, <1>5, <1>6, <1>7, <1>8, <1>9, <1>10

\* What the operation of the present cycle may be.
LEMMA OpFacts ==
  ASSUME TypeOK
  PROVE  /\ cycle \in Nat /\ cycle <= 6 /\ Len(Table[instr]) \in 1 .. 7 /\ cycle + 1 \in 1 .. 7
         /\ Op \in Inner \cup {"next", "fetch", "cli", "sei", "branch"}
         /\ Op \in Inner => cycle + 1 \in 0 .. Len(Table[instr]) - 1
         /\ Op = "branch" => cycle = 1 /\ Len(Table[instr]) = 4 /\ instr = "BRANCH"
         /\ Op = "pushLow" <=> instr = "BRK" /\ cycle = 2
         /\ Op = "fetch" <=> instr = "BRK" /\ cycle = 6
         /\ Op = "load" <=> instr = "LOAD" /\ cycle = 2
         /\ Op = "write" <=> (instr = "STORE" /\ cycle = 2) \/ (instr = "RMW" /\ cycle \in {3, 4})
         /\ Op = "setI" <=> instr = "BRK" /\ cycle = 5
         /\ Op = "cli" <=> instr = "CLI" /\ cycle = 1
         /\ Op = "sei" <=> instr = "SEI" /\ cycle = 1
         /\ Op = "next" => instr # "BRK"
         /\ cycle = 0 => Op = "idle"
         /\ instr \in {"LOAD", "STORE"} /\ cycle = 3 => Op = "next"
<1>1. instr \in DOMAIN Table /\ cycle \in 0 .. Len(Table[instr]) - 1
  BY DEF TypeOK
<1>2. Len(Table[instr]) \in 1 .. 7
  BY <1>1, TableFacts
<1> QED BY <1>1, <1>2, TableFacts DEF Op

\* Every instruction has a first cycle.
LEMMA FirstCycle ==
  ASSUME NEW x \in DOMAIN Table  PROVE 0 \in 0 .. Len(Table[x]) - 1
<1>0. DOMAIN Table =
        {"PLAIN", "LOAD", "STORE", "RMW", "BRANCH", "CLI", "SEI", "PLP", "RTI", "BRK"}
  BY DEF Table
<1> QED BY <1>0 DEF Table

-----------------------------------------------------------------------------
(* Recognition.                                                            *)

\* The parts of the type that most steps disturb.
Flags == {I, nmiFlag, irqAssertedOnPin, rdy, steal, nosteal, ciaRead, swallowed} \subseteq BOOLEAN

LEMMA RaiseIRQStep ==
  ASSUME IInv, NEW chip \in {"cia", "vic"}, RaiseIRQ(chip)  PROVE IInv'
<1>1. /\ TypeOK /\ Passed /\ Caused /\ Noticed /\ IrqKept
      /\ cycle \in 0 .. 6 /\ steal \in BOOLEAN /\ irqAssertedOnPin \in BOOLEAN
  BY OpFacts DEF IInv, TypeOK
<1>2. /\ UNCHANGED <<phase, nmiFlag, instr, cycle, I, rdy, nosteal, clearInt, ciaRead, clobbered, swallowed>>
      /\ phase = "PHI1"
      /\ low' = low \cup {chip} /\ done' = done \cup {chip}
  BY DEF RaiseIRQ
<1>3. /\ irqAssertedOnPin' \in BOOLEAN /\ (irqAssertedOnPin => irqAssertedOnPin')
      /\ steal' \in BOOLEAN
      /\ interruptCycle' = interruptCycle \/ (interruptCycle' = cycle /\ irqAssertedOnPin')
      /\ irqAssertedOnPin' /\ ~I => irqAssertedOnPin \/ interruptCycle' # MAX
  <2>1. CASE low = {}
    <3>1. /\ irqAssertedOnPin' = TRUE
          /\ interruptCycle' = IF interruptCycle = MAX /\ (nmiFlag \/ ~I) THEN cycle ELSE interruptCycle
          /\ steal' = TRUE \/ UNCHANGED steal
      BY <1>1, <2>1 DEF RaiseIRQ, Trigger, CheckInterrupts, Restart, TypeOK
    <3>2. irqAssertedOnPin' = TRUE /\ steal' \in BOOLEAN
      BY <1>1, <3>1
    <3>3. interruptCycle' = interruptCycle \/ interruptCycle' = cycle
      BY <3>1
    <3>4. ~I => interruptCycle' # MAX
      BY <1>1, <3>1 DEF MAX
    <3> QED BY <3>2, <3>3, <3>4
  <2>2. CASE low # {}
    BY <1>1, <2>2 DEF RaiseIRQ, TypeOK
  <2> QED BY <2>1, <2>2
<1>4. TypeOK'
  <2>1. Flags'
    BY <1>1, <1>2, <1>3 DEF Flags, TypeOK
  <2> QED BY <1>1, <1>2, <1>3, <2>1 DEF TypeOK, Flags
<1>5. Passed' /\ Noticed'
  BY <1>1, <1>2, <1>3 DEF Passed, Noticed
<1>6. Caused' /\ IrqKept'
  BY <1>1, <1>2, <1>3 DEF Caused, IrqKept, Entering, MAX
<1> QED BY <1>4, <1>5, <1>6 DEF IInv

LEMMA CiaReleasesStep ==
  ASSUME IInv, CiaReleases  PROVE IInv'
<1>1. TypeOK /\ Passed /\ Caused /\ Noticed /\ IrqKept
  BY DEF IInv
<1>2. /\ UNCHANGED <<phase, nmiFlag, cpu, rdy, steal, nosteal, swallowed>>
      /\ ciaRead' = FALSE /\ phase = "PHI1"
      /\ low' \subseteq low /\ done' = done \cup {"cia"}
  BY DEF CiaReleases
<1>3. \/ irqAssertedOnPin' = FALSE /\ clearInt' = 3 /\ clobbered' \subseteq clobbered \cup {"clearInt"}
      \/ UNCHANGED <<irqAssertedOnPin, clobbered, clearInt>>
  BY DEF CiaReleases, interruptDelay, Clobbers
<1>4. TypeOK'
  <2>1. Flags'
    BY <1>1, <1>2, <1>3 DEF Flags, TypeOK, cpu
  <2>2. clearInt' \in 0 .. 4 /\ clobbered' \subseteq {"steal", "nosteal", "clearInt"}
    <3>1. clearInt \in 0 .. 4 /\ clobbered \subseteq {"steal", "nosteal", "clearInt"}
      BY <1>1 DEF TypeOK
    <3>2. CASE clearInt' = 3 /\ clobbered' \subseteq clobbered \cup {"clearInt"}
      BY <3>1, <3>2
    <3> QED BY <1>3, <3>1, <3>2
  <2> QED BY <1>1, <1>2, <2>1, <2>2 DEF TypeOK, Flags, cpu
<1>5. Passed' /\ Noticed' /\ Caused' /\ IrqKept'
  BY <1>1, <1>2, <1>3 DEF Passed, Noticed, Caused, IrqKept, Entering, cpu
<1> QED BY <1>4, <1>5 DEF IInv

LEMMA RemoveIRQStep ==
  ASSUME IInv, RemoveIRQ  PROVE IInv'
<1>1. TypeOK /\ Passed /\ Caused /\ Noticed /\ IrqKept
  BY DEF IInv
<1>2. /\ UNCHANGED <<phase, done, lines, instr, cycle, I, rdy, steal, nosteal, ciaRead, clobbered>>
      /\ phase = "PHI1" /\ clearInt' = 0
      /\ interruptCycle' = IF nmiFlag THEN interruptCycle ELSE MAX
      /\ swallowed' = (swallowed \/ (irqAssertedOnPin /\ interruptCycle' # interruptCycle))
  BY DEF RemoveIRQ
<1>3. TypeOK'
  <2>1. Flags'
    BY <1>1, <1>2 DEF Flags, TypeOK, lines
  <2> QED BY <1>1, <1>2, <2>1 DEF TypeOK, Flags, lines, MAX
<1>4. Passed' /\ Noticed' /\ Caused' /\ IrqKept'
  BY <1>1, <1>2 DEF Passed, Noticed, Caused, IrqKept, Entering, lines, TypeOK
<1> QED BY <1>3, <1>4 DEF IInv

LEMMA TriggerNMIStep ==
  ASSUME IInv, TriggerNMI  PROVE IInv'
<1>1. TypeOK /\ Passed /\ Caused /\ Noticed /\ IrqKept /\ cycle \in 0 .. 6
  BY OpFacts DEF IInv
<1>2. /\ UNCHANGED <<phase, irqAssertedOnPin, low, instr, cycle, I, rdy, nosteal, clearInt, ciaRead, clobbered, swallowed>>
      /\ phase = "PHI1" /\ done' = done \cup {"nmi"} /\ nmiFlag' = TRUE
      /\ interruptCycle' = IF interruptCycle = MAX THEN cycle ELSE interruptCycle
      /\ steal' = TRUE \/ UNCHANGED steal
  BY DEF TriggerNMI, Trigger, CheckInterrupts, Restart
<1>3. TypeOK'
  <2>1. Flags'
    BY <1>1, <1>2 DEF Flags, TypeOK
  <2> QED BY <1>1, <1>2, <2>1 DEF TypeOK, Flags
<1>4. Passed' /\ Noticed' /\ Caused' /\ IrqKept'
  BY <1>1, <1>2 DEF Passed, Noticed, Caused, IrqKept, Entering, MAX
<1> QED BY <1>3, <1>4 DEF IInv

LEMMA SetRDYStep ==
  ASSUME IInv, SetRDY  PROVE IInv'
<1>1. TypeOK /\ Passed /\ Caused /\ Noticed /\ IrqKept
  BY DEF IInv
<1>2. /\ UNCHANGED <<phase, lines, cpu, clearInt, ciaRead, swallowed>>
      /\ done' = done \cup {"ba"} /\ rdy' = ~rdy
      /\ nosteal' \in BOOLEAN /\ steal' \in BOOLEAN
      /\ clobbered' \subseteq clobbered \cup {"steal", "nosteal"}
  BY DEF SetRDY, Clobbers
<1>3. TypeOK'
  <2>1. Flags'
    BY <1>1, <1>2 DEF Flags, TypeOK, lines, cpu
  <2> QED BY <1>1, <1>2, <2>1 DEF TypeOK, Flags, lines, cpu
<1>4. Passed' /\ Noticed' /\ Caused' /\ IrqKept'
  BY <1>1, <1>2 DEF Passed, Noticed, Caused, IrqKept, Entering, lines, cpu
<1> QED BY <1>3, <1>4 DEF IInv

\* The two halves of a cycle follow each other.
LEMMA ClockStep ==
  ASSUME IInv, HalfCycle \/ Cycle  PROVE IInv'
<1>1. TypeOK /\ Passed /\ Caused /\ Noticed /\ IrqKept
  BY DEF IInv
<1>2. /\ UNCHANGED <<lines, cpu, rdy, steal, nosteal, ciaRead, clobbered, swallowed>>
      /\ phase' \in {"PHI1", "PHI2"} /\ done' \subseteq done
      /\ \/ phase' = "PHI2" /\ clearInt' = clearInt /\ clearInt # 1
         \/ phase = "PHI2" /\ phase' = "PHI1" /\ clearInt' = IF clearInt = 0 THEN 0 ELSE clearInt - 1
  BY DEF HalfCycle, Cycle
<1>3. TypeOK'
  <2>1. Flags'
    BY <1>1, <1>2 DEF Flags, TypeOK, lines, cpu
  <2> QED BY <1>1, <1>2, <2>1 DEF TypeOK, Flags, lines, cpu
<1>4. Passed' /\ Noticed' /\ Caused' /\ IrqKept'
  BY <1>1, <1>2 DEF Passed, Noticed, Caused, IrqKept, Entering, lines, cpu, TypeOK
<1> QED BY <1>3, <1>4 DEF IInv

LEMMA FetchFacts ==
  ASSUME NEW nmi \in BOOLEAN, NEW flag \in BOOLEAN, irqAssertedOnPin \in BOOLEAN, NEW ic,
         FetchNextOpcode(nmi, flag, ic)
  PROVE  /\ instr' \in DOMAIN Table /\ cycle' = 0 /\ interruptCycle' \in {-MAX, MAX}
         /\ interruptCycle' # MAX => nmi \/ irqAssertedOnPin
         /\ irqAssertedOnPin /\ ~flag /\ ic # MAX => interruptCycle' # MAX
BY ProgramAssumption DEF FetchNextOpcode, CheckInterrupts, MAX

LEMMA NextFacts ==
  ASSUME TypeOK, NEW flag \in BOOLEAN, NEW ic, NEW c, InterruptsAndNextOpcode(flag, ic, c)
  PROVE  /\ instr' \in DOMAIN Table /\ cycle' = 0 /\ interruptCycle' \in {-MAX, MAX}
         /\ interruptCycle' # MAX => nmiFlag \/ irqAssertedOnPin
         /\ irqAssertedOnPin /\ ~flag /\ ic # MAX => interruptCycle' # MAX \/ instr' = "BRK"
<1>1. nmiFlag \in BOOLEAN /\ irqAssertedOnPin \in BOOLEAN
  BY DEF TypeOK
<1>2. CASE c > ic + interruptDelay
  BY <1>2 DEF InterruptsAndNextOpcode, Table
<1>3. CASE ~(c > ic + interruptDelay)
  BY <1>1, <1>3, FetchFacts DEF InterruptsAndNextOpcode
<1> QED BY <1>2, <1>3

\* The operation keeps the CPU in the table, with the cause of what it has recognised.
LEMMA OperateFacts ==
  ASSUME IInv, Operate(Op, cycle + 1), UNCHANGED <<irqAssertedOnPin, clearInt, swallowed>>,
         Op # "write"
  PROVE  /\ instr' \in DOMAIN Table /\ cycle' \in 0 .. Len(Table[instr']) - 1
         /\ I' \in BOOLEAN /\ nmiFlag' \in BOOLEAN
         /\ Passed' /\ Caused' /\ IrqKept'
<1>1. /\ TypeOK /\ Passed /\ Caused /\ IrqKept
      /\ instr \in DOMAIN Table /\ cycle \in 0 .. 6
      /\ I \in BOOLEAN /\ nmiFlag \in BOOLEAN /\ irqAssertedOnPin \in BOOLEAN
  BY OpFacts DEF IInv, TypeOK
<1>2. CASE Op \in {"idle", "load", "push", "setI"}
  <2>1. /\ I' = (I \/ Op = "setI") /\ cycle' = cycle + 1
        /\ UNCHANGED <<instr, interruptCycle, nmiFlag>>
    BY <1>2 DEF Operate
  <2>2. cycle + 1 \in 0 .. Len(Table[instr]) - 1 /\ (Op = "pushLow" <=> instr = "BRK" /\ cycle = 2)
    BY <1>1, <1>2, OpFacts DEF Inner
  <2>3. Passed' /\ Caused' /\ IrqKept'
    BY <1>1, <1>2, <2>1, <2>2 DEF Passed, Caused, IrqKept, Entering
  <2> QED BY <1>1, <2>1, <2>2, <2>3
<1>3. CASE Op = "next"
  <2>1. InterruptsAndNextOpcode(I, interruptCycle, cycle + 1) /\ UNCHANGED <<I, nmiFlag>>
    BY <1>3 DEF Operate
  <2>2. /\ instr' \in DOMAIN Table /\ cycle' = 0 /\ interruptCycle' \in {-MAX, MAX}
        /\ interruptCycle' # MAX => nmiFlag \/ irqAssertedOnPin
        /\ irqAssertedOnPin /\ ~I /\ interruptCycle # MAX => interruptCycle' # MAX \/ instr' = "BRK"
    BY <1>1, <2>1, NextFacts
  <2>3. instr # "BRK"
    BY <1>1, <1>3, OpFacts
  <2>4. Passed' /\ Caused' /\ IrqKept'
    BY <1>1, <2>1, <2>2, <2>3 DEF Passed, Caused, IrqKept, Entering
  <2> QED BY <1>1, <2>1, <2>2, <2>4, FirstCycle
<1>4. CASE Op = "fetch"
  <2>1. FetchNextOpcode(nmiFlag, I, interruptCycle) /\ UNCHANGED <<I, nmiFlag>>
    BY <1>4 DEF Operate
  <2>2. /\ instr' \in DOMAIN Table /\ cycle' = 0 /\ interruptCycle' \in {-MAX, MAX}
        /\ interruptCycle' # MAX => nmiFlag \/ irqAssertedOnPin
        /\ irqAssertedOnPin /\ ~I /\ interruptCycle # MAX => interruptCycle' # MAX
    BY <1>1, <2>1, FetchFacts
  <2>3. cycle = 6
    BY <1>1, <1>4, OpFacts
  <2>4. Passed' /\ Caused' /\ IrqKept'
    BY <1>1, <2>1, <2>2, <2>3 DEF Passed, Caused, IrqKept, Entering
  <2> QED BY <1>1, <2>1, <2>2, <2>4, FirstCycle
<1>5. CASE Op = "cli"
  <2> DEFINE ic == Trigger(nmiFlag, irqAssertedOnPin, FALSE, interruptCycle, cycle + 1)
  <2>1. InterruptsAndNextOpcode(FALSE, ic, cycle + 1) /\ I' = FALSE /\ UNCHANGED nmiFlag
    BY <1>5 DEF Operate, Cli
  <2>2. irqAssertedOnPin => ic # MAX
    BY <1>1 DEF Trigger, CheckInterrupts, MAX
  <2> HIDE DEF ic
  <2>3. /\ instr' \in DOMAIN Table /\ cycle' = 0 /\ interruptCycle' \in {-MAX, MAX}
        /\ interruptCycle' # MAX => nmiFlag \/ irqAssertedOnPin
        /\ irqAssertedOnPin /\ ~FALSE /\ ic # MAX => interruptCycle' # MAX \/ instr' = "BRK"
    BY <1>1, <2>1, NextFacts
  <2>4. Passed' /\ Caused' /\ IrqKept'
    BY <1>1, <2>1, <2>2, <2>3 DEF Passed, Caused, IrqKept, Entering
  <2> QED BY <1>1, <2>1, <2>3, <2>4, FirstCycle
<1>6. CASE Op = "sei"
  <2>1. /\ I' = TRUE /\ cycle' = 0 /\ UNCHANGED nmiFlag
        /\ instr' \in Program \cup {"BRK"}
        /\ interruptCycle' = MAX \/ (nmiFlag /\ interruptCycle' = -MAX)
    BY <1>6 DEF Operate, Sei
  <2>2. instr' \in DOMAIN Table
    BY <2>1, ProgramAssumption DEF Table
  <2>3. Passed' /\ Caused' /\ IrqKept'
    BY <1>1, <2>1 DEF Passed, Caused, IrqKept
  <2> QED BY <1>1, <2>1, <2>2, <2>3, FirstCycle
<1>7. CASE Op = "popSR"
  <2>1. /\ I' \in BOOLEAN /\ cycle' = cycle + 1 /\ UNCHANGED <<instr, nmiFlag>>
        /\ interruptCycle' = IF interruptCycle = MAX /\ (nmiFlag \/ (irqAssertedOnPin /\ ~I'))
                             THEN cycle + 1 ELSE interruptCycle
    BY <1>7 DEF Operate, PopSR, Trigger, CheckInterrupts
  <2>2. cycle + 1 \in 0 .. Len(Table[instr]) - 1
    BY <1>1, <1>7, OpFacts DEF Inner
  <2>3. Passed' /\ Caused' /\ IrqKept'
    BY <1>1, <2>1 DEF Passed, Caused, IrqKept, MAX
  <2> QED BY <1>1, <2>1, <2>2, <2>3
<1>8. CASE Op = "branch"
  <2>1. /\ cycle' = cycle + 2 /\ UNCHANGED <<instr, I, nmiFlag>>
        /\ interruptCycle' = IF interruptCycle \in 0 .. 7 THEN interruptCycle + 2 ELSE interruptCycle
    BY <1>1, <1>8 DEF Operate, Branch
  <2>2. cycle = 1 /\ Len(Table[instr]) = 4 /\ instr = "BRANCH"
    BY <1>1, <1>8, OpFacts
  <2>3. Passed' /\ Caused' /\ IrqKept'
    BY <1>1, <2>1, <2>2 DEF Passed, Caused, IrqKept, Entering, MAX
  <2> QED BY <1>1, <2>1, <2>2, <2>3
<1>9. CASE Op = "pushLow"
  <2>1. /\ nmiFlag' = FALSE /\ cycle' = cycle + 1 /\ UNCHANGED <<instr, I>>
        /\ interruptCycle' = IF interruptCycle = MAX /\ irqAssertedOnPin /\ ~I
                             THEN cycle + 1 ELSE interruptCycle
    BY <1>9 DEF Operate, PushLow, Trigger, CheckInterrupts
  <2>2. cycle = 2 /\ instr = "BRK" /\ cycle + 1 \in 0 .. Len(Table[instr]) - 1
    BY <1>1, <1>9, OpFacts DEF Inner
  <2>3. Passed' /\ Caused' /\ IrqKept'
    BY <1>1, <2>1, <2>2 DEF Passed, Caused, IrqKept, MAX
  <2> QED BY <1>1, <2>1, <2>2, <2>3
<1> QED BY <1>1, <1>2, <1>3, <1>4, <1>5, <1>6, <1>7, <1>8, <1>9, OpFacts DEF Inner

LEMMA StepStep ==
  ASSUME IInv, Run, Step  PROVE IInv'
<1>1. TypeOK /\ Noticed
  BY DEF IInv
<1>2. /\ done' = done \cup {"cpu"} /\ UNCHANGED <<phase, rdy, steal, nosteal, swallowed>>
      /\ UNCHANGED <<irqAssertedOnPin, low, clearInt, clobbered>>
      /\ ciaRead' \in BOOLEAN /\ Operate(Op, cycle + 1) /\ Op # "write"
  BY DEF Run, Step
<1>3. /\ instr' \in DOMAIN Table /\ cycle' \in 0 .. Len(Table[instr']) - 1
      /\ I' \in BOOLEAN /\ nmiFlag' \in BOOLEAN
      /\ Passed' /\ Caused' /\ IrqKept'
  BY <1>2, OperateFacts
<1>4. TypeOK'
  <2>1. Flags'
    BY <1>1, <1>2, <1>3 DEF Flags, TypeOK
  <2>2. interruptCycle' \in -1 .. 8 \cup {-MAX, MAX}
    <3>1. \A x \in DOMAIN Table : Len(Table[x]) \in 1 .. 7
      <4>1. \A x \in DOMAIN Table : 0 \in 0 .. Len(Table[x]) - 1
        BY FirstCycle
      <4> QED BY <4>1, TableFacts
    <3> DEFINE n == Len(Table[instr'])
    <3>2. n \in 1 .. 7 /\ cycle' \in 0 .. n - 1
      BY <1>3, <3>1
    <3> HIDE DEF n
    <3>3. cycle' \in 0 .. 6
      BY <3>2
    <3> QED BY <1>3, <3>3 DEF Passed
  <2> QED BY <1>1, <1>2, <1>3, <2>1, <2>2 DEF TypeOK, Flags
<1>5. Noticed'
  BY <1>1, <1>2 DEF Noticed
<1> QED BY <1>3, <1>4, <1>5 DEF IInv

LEMMA WriteStep ==
  ASSUME IInv, Run, NEW again \in BOOLEAN, Write(again)  PROVE IInv'
<1>1. /\ TypeOK /\ Passed /\ Caused /\ Noticed /\ IrqKept
      /\ cycle \in 0 .. 6 /\ interruptCycle \in -1 .. 8 \cup {-MAX, MAX}
      /\ irqAssertedOnPin \in BOOLEAN
  BY OpFacts DEF IInv, TypeOK
<1>2. /\ done' = done \cup {"cpu"} /\ UNCHANGED <<phase, rdy, steal, nosteal, swallowed>>
      /\ UNCHANGED <<instr, I, nmiFlag, ciaRead>>
      /\ cycle' = cycle + 1 /\ Op = "write" /\ phase = "PHI2"
      /\ clobbered' \subseteq clobbered \cup {"steal", "clearInt"}
  BY DEF Run, Write, Clobbers
<1>3. /\ low' \subseteq low \cup {"vic"}
      /\ \/ UNCHANGED <<irqAssertedOnPin, interruptCycle, clearInt>>
         \/ /\ irqAssertedOnPin' = TRUE /\ UNCHANGED clearInt
            /\ interruptCycle' = IF interruptCycle = MAX /\ (nmiFlag \/ ~I)
                                 THEN cycle + 1 ELSE interruptCycle
         \/ irqAssertedOnPin' = FALSE /\ clearInt' = 4 /\ UNCHANGED interruptCycle
  BY DEF Write, Trigger, CheckInterrupts, interruptDelay
<1>4. instr # "BRK" /\ cycle + 1 \in 0 .. Len(Table[instr]) - 1 /\ cycle + 1 \in 0 .. 6
  BY <1>1, <1>2, OpFacts DEF Inner
<1>5. /\ irqAssertedOnPin' \in BOOLEAN
      /\ clearInt' = clearInt \/ clearInt' = 4
      /\ interruptCycle' = interruptCycle \/ interruptCycle' = cycle + 1
  BY <1>1, <1>3
<1>6. TypeOK'
  <2>1. Flags'
    BY <1>1, <1>2, <1>5 DEF Flags, TypeOK
  <2>2. clobbered' \subseteq {"steal", "nosteal", "clearInt"} /\ low' \subseteq {"cia", "vic"}
    BY <1>1, <1>2, <1>3 DEF TypeOK
  <2>3. clearInt' \in 0 .. 4 /\ interruptCycle' \in -1 .. 8 \cup {-MAX, MAX}
    BY <1>1, <1>4, <1>5 DEF TypeOK
  <2> QED BY <1>1, <1>2, <1>4, <2>1, <2>2, <2>3 DEF TypeOK, Flags
<1>7. Passed' /\ Noticed'
  BY <1>1, <1>2, <1>5 DEF Passed, Noticed
<1>8. Caused' /\ IrqKept'
  BY <1>1, <1>2, <1>3, <1>4 DEF Caused, IrqKept, Entering, MAX
<1> QED BY <1>6, <1>7, <1>8 DEF IInv

LEMMA StallStep ==
  ASSUME IInv, Stall  PROVE IInv'
<1> DEFINE cli == instr = "CLI" /\ cycle = 0
           sei == instr = "SEI" /\ cycle = 0
           ic == IF cli /\ irqAssertedOnPin /\ interruptCycle = MAX THEN -MAX
                 ELSE IF sei /\ ~nmiFlag /\ cycle <= interruptCycle + interruptDelay THEN MAX
                 ELSE interruptCycle
<1>1. /\ TypeOK /\ Passed /\ Caused /\ Noticed /\ IrqKept
      /\ cycle \in 0 .. 6 /\ I \in BOOLEAN
  BY OpFacts DEF IInv, TypeOK
<1>2. /\ I' = (sei \/ (I /\ ~cli))
      /\ interruptCycle' = IF ic = cycle THEN ic - 1 ELSE ic
      /\ steal' = FALSE /\ done' = done \cup {"cpu"}
      /\ UNCHANGED <<phase, lines, instr, cycle, rdy, nosteal, clearInt, ciaRead, clobbered, swallowed>>
  BY DEF Stall
<1>3. Passed' /\ interruptCycle' \in -1 .. 8 \cup {-MAX, MAX}
  BY <1>1, <1>2 DEF Passed, MAX
<1>4. Caused' /\ IrqKept'
  <2>1. UNCHANGED <<nmiFlag, irqAssertedOnPin, clearInt, instr, cycle, swallowed>>
    BY <1>2 DEF lines
  <2>2. interruptCycle \in -1 .. 8 \cup {-MAX, MAX}
    BY <1>1 DEF TypeOK
  <2>3. interruptCycle' # MAX => interruptCycle # MAX \/ irqAssertedOnPin
    BY <1>1, <1>2, <2>2 DEF MAX
  <2>4. Caused'
    BY <1>1, <2>1, <2>3 DEF Caused
  <2>5. ASSUME irqAssertedOnPin, I' = FALSE, interruptCycle' = MAX
        PROVE  interruptCycle = MAX /\ ~cli /\ I = FALSE
    <3>1. ~sei /\ (I = FALSE \/ cli)
      BY <1>1, <1>2, <2>5
    <3> HIDE DEF sei
    <3>2. interruptCycle' # interruptCycle =>
            (cli /\ interruptCycle' = -MAX) \/ interruptCycle' = cycle - 1
      BY <1>1, <1>2, <2>5, <3>1 DEF MAX
    <3>3. interruptCycle = MAX /\ ~(cli /\ interruptCycle = MAX)
      BY <1>1, <1>2, <2>2, <2>5, <3>1, <3>2 DEF MAX
    <3> QED BY <3>1, <3>3
  <2>6. I' \in BOOLEAN
    BY <1>1, <1>2
  <2>7. IrqKept'
    BY <1>1, <2>1, <2>5, <2>6 DEF IrqKept, Entering
  <2> QED BY <2>4, <2>7
<1>5. TypeOK'
  <2>1. Flags'
    BY <1>1, <1>2 DEF Flags, TypeOK, lines
  <2> QED BY <1>1, <1>2, <1>3, <2>1 DEF TypeOK, Flags, lines
<1>6. Noticed'
  BY <1>1, <1>2 DEF Noticed
<1> QED BY <1>3, <1>4, <1>5, <1>6 DEF IInv

LEMMA Initially ==
  ASSUME Init  PROVE IInv
<1>1. TypeOK
  <2>1. Flags
    BY DEF Init, Flags
  <2> QED BY <2>1 DEF Init, TypeOK, Flags, Table, MAX
<1> QED BY <1>1 DEF Init, IInv, Passed, Caused, Noticed, IrqKept

\* Nothing is forgotten and nothing made up, for any instructions and any writes.
THEOREM Invariance == Spec => []IInv
<1>1. Init => IInv
  BY Initially
<1>2. IInv /\ [Next]_vars => IInv'
  <2>1. ASSUME IInv, Chips  PROVE IInv'
    BY <2>1, RaiseIRQStep, CiaReleasesStep, RemoveIRQStep, TriggerNMIStep, SetRDYStep DEF Chips
  <2>2. ASSUME IInv, Run  PROVE IInv'
    BY <2>2, StepStep, WriteStep DEF Run
  <2>3. ASSUME IInv, UNCHANGED vars  PROVE IInv'
    <3>1. TypeOK'
      BY <2>3 DEF IInv, TypeOK, vars, lines, cpu
    <3> QED BY <2>3, <3>1 DEF IInv, Passed, Caused, Noticed, IrqKept, Entering, vars, lines, cpu
  <2> QED BY <2>1, <2>2, <2>3, StallStep, ClockStep DEF Next
<1> QED BY <1>1, <1>2, PTL DEF Spec

\* triggerIRQ(), removeIRQ() and the checks between instructions: an IRQ is not
\* forgotten while its line is low and interrupts are enabled.
THEOREM IrqKeptCorrect == Spec => []IrqKept
<1>1. IInv => IrqKept
  BY DEF IInv
<1> QED BY <1>1, Invariance, PTL

\* interruptsAndNextOpcode(): an interrupt sequence has a cause.
THEOREM JustifiedCorrect == Spec => []Justified
<1>1. ASSUME IInv  PROVE Justified
  <2>1. TypeOK /\ Caused /\ cycle \in 0 .. 6
    BY <1>1, OpFacts DEF IInv
  <2>2. Op \in {"next", "cli", "sei"} => instr # "BRK"
    BY <2>1, OpFacts
  <2>3. cycle + 1 > interruptCycle + interruptDelay => interruptCycle # MAX
    BY <2>1 DEF MAX, interruptDelay
  <2> QED BY <2>1, <2>2, <2>3 DEF Justified, Caused
<1> QED BY <1>1, Invariance, PTL

-----------------------------------------------------------------------------
(* The CPU's event, for programs and writes that release the line once and *)
(* do not raise it.                                                        *)

LEMMA OneChips ==
  ASSUME IInv, OneInv, Chips  PROVE OneInv'
<1>1. TypeOK /\ OneCpuEvent /\ Distance /\ Fetched /\ rdy \in BOOLEAN /\ steal \in BOOLEAN
  BY DEF IInv, OneInv, TypeOK
<1>2. /\ UNCHANGED <<instr, cycle, phase>> /\ phase = "PHI1"
  BY DEF Chips, RaiseIRQ, CiaReleases, RemoveIRQ, TriggerNMI, SetRDY, cpu
<1>3. Fetched' /\ NoSteal' = NoSteal /\ Releasing' = Releasing
  BY <1>1, <1>2 DEF Fetched, NoSteal, Op, Releasing
<1>4. CASE \E chip \in {"cia", "vic"} : RaiseIRQ(chip)
  <2>1. /\ UNCHANGED <<rdy, nosteal, clearInt, ciaRead, clobbered>>
        /\ UNCHANGED steal \/ (~rdy /\ steal' = TRUE)
    BY <1>4 DEF RaiseIRQ, Restart
  <2> QED BY <1>1, <1>2, <1>3, <2>1 DEF OneInv, OneCpuEvent, Distance, Acted
<1>5. CASE CiaReleases
  <2>1. ciaRead /\ ciaRead' = FALSE /\ UNCHANGED <<rdy, steal, nosteal>>
    BY <1>5 DEF CiaReleases
  <2>2. clearInt = 0 /\ Releasing
    BY <1>1, <2>1 DEF Distance, Releasing
  <2>3. clobbered' = clobbered /\ clearInt' \in {0, 3}
    BY <1>5, <2>2 DEF CiaReleases, Clobbers, interruptDelay
  <2> QED BY <1>1, <1>3, <2>1, <2>2, <2>3 DEF OneInv, OneCpuEvent, Distance
<1>6. CASE RemoveIRQ
  <2>1. clearInt = 1 /\ clearInt' = 0 /\ UNCHANGED <<rdy, steal, nosteal, ciaRead, clobbered>>
    BY <1>6 DEF RemoveIRQ
  <2> QED BY <1>1, <1>3, <2>1 DEF OneInv, OneCpuEvent, Distance
<1>7. CASE TriggerNMI
  <2>1. /\ UNCHANGED <<rdy, nosteal, clearInt, ciaRead, clobbered>>
        /\ UNCHANGED steal \/ (~rdy /\ steal' = TRUE)
    BY <1>7 DEF TriggerNMI, Restart
  <2> QED BY <1>1, <1>2, <1>3, <2>1 DEF OneInv, OneCpuEvent, Distance, Acted
<1>8. CASE SetRDY
  <2>1. UNCHANGED <<clearInt, ciaRead>> /\ rdy' = ~rdy
    BY <1>8 DEF SetRDY
  <2>2. CASE rdy
    BY <1>1, <1>2, <1>3, <1>8, <2>1, <2>2 DEF OneInv, OneCpuEvent, Distance, Acted, SetRDY, Clobbers
  <2>3. CASE ~rdy
    <3>1. steal' = FALSE /\ nosteal' = TRUE /\ nosteal = FALSE /\ rdy' = TRUE
      BY <1>1, <1>8, <2>3 DEF SetRDY, OneCpuEvent, TypeOK
    <3>2. clobbered' = clobbered
      BY <1>8, <2>3, <3>1 DEF SetRDY, Clobbers
    <3> QED BY <1>1, <1>2, <1>3, <2>1, <3>1, <3>2 DEF OneInv, OneCpuEvent, Distance, Acted
  <2> QED BY <2>2, <2>3
<1> QED BY <1>4, <1>5, <1>6, <1>7, <1>8 DEF Chips

LEMMA OneClock ==
  ASSUME IInv, OneInv, HalfCycle \/ Cycle  PROVE OneInv'
<1>1. TypeOK /\ OneCpuEvent /\ Distance /\ Fetched /\ clearInt \in 0 .. 4
  BY DEF IInv, OneInv, TypeOK
<1>2. UNCHANGED <<instr, cycle, rdy, steal, nosteal, ciaRead, clobbered>>
  BY DEF HalfCycle, Cycle, cpu
<1>3. Fetched' /\ OneCpuEvent'
  BY <1>1, <1>2 DEF Fetched, NoSteal, Op, OneCpuEvent
<1>4. Distance'
  <2>1. CASE HalfCycle
    BY <1>1, <1>2, <2>1 DEF HalfCycle, Distance, Acted, Releasing
  <2>2. CASE Cycle
    <3>1. clearInt' = (IF clearInt = 0 THEN 0 ELSE clearInt - 1) /\ phase' = "PHI1"
      BY <2>2 DEF Cycle
    <3> QED BY <1>1, <1>2, <3>1 DEF Distance, Releasing
  <2> QED BY <2>1, <2>2
<1> QED BY <1>3, <1>4 DEF OneInv

LEMMA OneStall ==
  ASSUME IInv, OneInv, Stall  PROVE OneInv'
<1>1. TypeOK /\ OneCpuEvent /\ Distance /\ Fetched
  BY DEF IInv, OneInv
<1>2. /\ phase = "PHI2" /\ ~NoSteal
      /\ UNCHANGED <<phase, instr, cycle, rdy, nosteal, clearInt, ciaRead, clobbered>>
      /\ steal' = FALSE /\ done' = done \cup {"cpu"}
  BY DEF Stall
<1>3. Fetched' /\ NoSteal' = NoSteal /\ Releasing' = Releasing /\ (Acted => Acted')
  BY <1>1, <1>2 DEF Fetched, NoSteal, Op, Releasing, Acted
<1> QED BY <1>1, <1>2, <1>3 DEF OneInv, OneCpuEvent, Distance

LEMMA OneRun ==
  ASSUME "raise" \notin VicWrites, "RMW" \notin Program, IInv, OneInv, Run  PROVE OneInv'
<1>1. TypeOK /\ OneCpuEvent /\ Distance /\ Fetched /\ Noticed
      /\ clearInt \in 0 .. 4 /\ rdy \in BOOLEAN /\ steal \in BOOLEAN /\ cycle \in 0 .. 6
      /\ ciaRead \in BOOLEAN
  BY OpFacts DEF IInv, OneInv, TypeOK
<1>2. /\ phase = "PHI2" /\ "cpu" \notin done /\ (nosteal \/ steal)
      /\ done' = done \cup {"cpu"} /\ UNCHANGED <<phase, rdy, steal, nosteal>>
  BY DEF Run
<1>3. /\ ~Acted /\ Acted' /\ ciaRead = FALSE
      /\ clearInt = 0 \/ (clearInt = 3 /\ Releasing) \/ (clearInt = 2 /\ (Releasing \/ cycle = 0))
  BY <1>1, <1>2 DEF Acted, Distance, Noticed
<1>4. CASE Step
  <2>1. /\ Op # "write" /\ Operate(Op, cycle + 1) /\ UNCHANGED <<clearInt, clobbered>>
        /\ ciaRead' \in BOOLEAN /\ (ciaRead' => Op = "load")
    BY <1>4 DEF Step
  <2>2. OneCpuEvent'
    BY <1>1, <1>2, <2>1 DEF OneCpuEvent
  <2>3. Fetched'
    BY <1>1, <2>1 DEF Fetched, Operate, InterruptsAndNextOpcode, FetchNextOpcode, Cli, Sei, PopSR,
                      Branch, PushLow
  <2>4. Op = "next" => cycle' = 0
    BY <2>1 DEF Operate, InterruptsAndNextOpcode, FetchNextOpcode
  <2>5. Op \in {"idle", "load"} => cycle' = cycle + 1 /\ instr' = instr
    BY <2>1 DEF Operate
  <2>6. Distance'
    <3>1. CASE clearInt # 0 /\ Releasing
      <4>1. Op = "next"
        BY <1>1, <3>1, OpFacts DEF Releasing
      <4> QED BY <1>3, <2>1, <2>4, <3>1, <4>1 DEF Distance
    <3>2. CASE clearInt = 2 /\ cycle = 0
      <4>1. Op = "idle"
        BY <1>1, <3>2, OpFacts
      <4> QED BY <1>3, <2>1, <2>5, <3>2, <4>1 DEF Distance
    <3>3. CASE clearInt = 0
      <4>1. Op = "load" => instr = "LOAD" /\ cycle = 2
        BY <1>1, OpFacts
      <4> QED BY <1>3, <2>1, <2>5, <3>3, <4>1 DEF Distance
    <3> QED BY <1>3, <3>1, <3>2, <3>3
  <2> QED BY <2>2, <2>3, <2>6 DEF OneInv
<1>5. ASSUME NEW again \in BOOLEAN, Write(again)  PROVE OneInv'
  <2>1. /\ Op = "write" /\ cycle' = cycle + 1 /\ UNCHANGED <<instr, ciaRead>>
        /\ again = FALSE /\ clearInt' \in {clearInt, 4}
        /\ clobbered' = clobbered \cup Clobbers("steal", again)
             \cup Clobbers("clearInt", clearInt > 0 /\ irqAssertedOnPin /\ ~irqAssertedOnPin')
    <3>1. /\ Op = "write" /\ cycle' = cycle + 1 /\ UNCHANGED <<instr, ciaRead>>
          /\ clobbered' = clobbered \cup Clobbers("steal", again)
               \cup Clobbers("clearInt", clearInt > 0 /\ irqAssertedOnPin /\ ~irqAssertedOnPin')
      BY <1>5 DEF Write
    <3>2. again = FALSE
      BY <1>5 DEF Write
    <3>3. \/ UNCHANGED clearInt
          \/ irqAssertedOnPin' = FALSE /\ clearInt' = interruptDelay + 2
      BY <1>5 DEF Write
    <3> QED BY <3>1, <3>2, <3>3 DEF interruptDelay
  <2>2. instr = "STORE" /\ cycle = 2
    <3>1. instr # "RMW"
      BY <1>1 DEF Fetched
    <3> QED BY <1>1, <2>1, <3>1, OpFacts
  <2>3. clearInt = 0
    BY <1>3, <2>2 DEF Releasing
  <2>4. clobbered' = clobbered
    BY <2>1, <2>3 DEF Clobbers
  <2>5. OneCpuEvent'
    BY <1>1, <1>2, <2>4 DEF OneCpuEvent
  <2>6. Releasing' /\ Fetched'
    BY <1>1, <2>1, <2>2 DEF Releasing, Fetched
  <2>7. Distance'
    BY <1>3, <2>1, <2>3, <2>6 DEF Distance
  <2> QED BY <2>5, <2>6, <2>7 DEF OneInv
<1> QED BY <1>4, <1>5 DEF Run

\* setRDY(), triggerIRQ(), triggerNMI() and eventWithSteals(): as long as the VIC's
\* line is not raised by a write, which c64.h allows (see RaisesAnyTime), and no
\* instruction writes twice, the CPU's event is on the queue just once when it has
\* to be, and clearInt is never scheduled while it is pending.
THEOREM OneCpuEventCorrect ==
  ASSUME "raise" \notin VicWrites, "RMW" \notin Program  PROVE Spec => []OneCpuEvent
<1>1. Init => OneInv
  <2>1. ASSUME Init  PROVE ~NoSteal \/ rdy
    BY <2>1 DEF Init
  <2> QED BY DEF Init, OneInv, OneCpuEvent, Distance, Fetched
<1>2. IInv /\ OneInv /\ [Next]_vars => OneInv'
  <2>1. ASSUME IInv, OneInv, UNCHANGED vars  PROVE OneInv'
    BY <2>1 DEF OneInv, OneCpuEvent, Distance, Fetched, NoSteal, Op, Releasing, Acted, vars, lines, cpu
  <2> QED BY <2>1, OneChips, OneClock, OneStall, OneRun DEF Next
<1>3. OneInv => OneCpuEvent
  BY DEF OneInv
<1> QED BY <1>1, <1>2, <1>3, Invariance, PTL DEF Spec
=============================================================================

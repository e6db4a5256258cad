---------------------------- MODULE CpuInterrupt ----------------------------
(***************************************************************************)
(* How the CPU recognises interrupts (src/c64/CPU/mos6510.cpp) and the     *)
(* lines that reach it: the shared IRQ line, the NMI and BA, of            *)
(* src/c64/c64.h.                                                          *)
(*                                                                         *)
(* An instruction is a sequence of cycles, each an operation that matters  *)
(* here or an idle one; the table below has one instruction per way of     *)
(* dealing with interrupts, and the CPU may fetch any of Program.          *)
(* interruptCycle is relative to the instruction, as every fetch resets    *)
(* it.  A cycle has the PHI1 half, where the chips change the lines, and   *)
(* the PHI2 half, where the CPU's own event fires.  The VIC changes its    *)
(* line also during a write of the CPU to its registers; CIA 1 releases    *)
(* its line in the cycle after the CPU has read its interrupt register.    *)
(***************************************************************************)
EXTENDS Integers, Sequences, FiniteSets

CONSTANTS
  Program,   \* the instructions the CPU may fetch
  VicWrites  \* what a write may do to the VIC's line: "raise" or "lower" it

Table == [
  PLAIN  |-> <<"idle", "next">>,
  LOAD   |-> <<"idle", "idle", "load", "next">>,
  STORE  |-> <<"idle", "idle", "write", "next">>,
  RMW    |-> <<"idle", "idle", "idle", "write", "write", "next">>,
  BRANCH |-> <<"idle", "branch", "idle", "next">>,
  CLI    |-> <<"idle", "cli">>,
  SEI    |-> <<"idle", "sei">>,
  PLP    |-> <<"idle", "idle", "popSR", "next">>,
  RTI    |-> <<"idle", "idle", "popSR", "idle", "idle", "next">>,
  BRK    |-> <<"idle", "push", "pushLow", "push", "idle", "setI", "fetch">>]

ASSUME ProgramAssumption == Program \subseteq DOMAIN Table
ASSUME WritesAssumption == VicWrites \subseteq {"raise", "lower"}

VARIABLES
  phase,           \* the half of the present cycle
  done,            \* who has acted in this PHI1
  instr, cycle,    \* cycleCount: the instruction and the cycle in it, from 0
  I,               \* the interrupt disable flag
  nmiFlag,
  irqAssertedOnPin,
  interruptCycle,
  rdy,
  steal, nosteal,  \* m_steal and m_nosteal are pending
  clearInt,        \* cycles to the clearInt event plus one; 0 when not pending
  low,             \* who holds the IRQ line low; irqCount is their number
  ciaRead,         \* CIA 1's interrupt register was read in this cycle
  clobbered,       \* events that were scheduled while they were pending
  swallowed        \* clearInt has fired although the line was low again

lines == <<nmiFlag, irqAssertedOnPin, low>>
cpu == <<instr, cycle, I, interruptCycle>>
vars == <<phase, done, lines, cpu, rdy, steal, nosteal, clearInt, ciaRead, clobbered, swallowed>>

MAX == 100
interruptDelay == 2

CheckInterrupts(nmi, pin, flag) == nmi \/ (pin /\ ~flag)

\* calculateInterruptTriggerCycle(), at cycle c.
Trigger(nmi, pin, flag, ic, c) == IF ic = MAX /\ CheckInterrupts(nmi, pin, flag) THEN c ELSE ic

Clobbers(event, pending) == IF pending THEN {event} ELSE {}

-----------------------------------------------------------------------------
(* The chips, in PHI1.                                                     *)

\* A stalled CPU is run in this cycle, to process the interrupt's first clock.
Restart == steal' = TRUE

\* interruptIRQ(true), triggerIRQ().
RaiseIRQ(chip) ==
  /\ chip \notin low /\ chip \notin done
  /\ chip = "cia" => ~ciaRead
  /\ phase = "PHI1"
  /\ low' = low \cup {chip}
  /\ done' = done \cup {chip}
  /\ IF low = {}
     THEN /\ irqAssertedOnPin' = TRUE
          /\ interruptCycle' = Trigger(nmiFlag, TRUE, I, interruptCycle, cycle)
          /\ IF ~rdy /\ interruptCycle' = cycle THEN Restart ELSE UNCHANGED steal
     ELSE UNCHANGED <<irqAssertedOnPin, interruptCycle, steal>>
  /\ UNCHANGED <<phase, nmiFlag, instr, cycle, I, rdy, nosteal, clearInt, ciaRead, clobbered, swallowed>>

\* A variant: the CPU is told of the release at once, not after the delay.
CiaReleasesSilently ==
  /\ phase = "PHI1" /\ ciaRead
  /\ ciaRead' = FALSE
  /\ low' = low \ {"cia"}
  /\ done' = done \cup {"cia"}
  /\ irqAssertedOnPin' = (low \ {"cia"} # {})
  /\ UNCHANGED <<phase, nmiFlag, cpu, rdy, steal, nosteal, clearInt, clobbered, swallowed>>

\* interruptIRQ(false), clearIRQ(), by CIA 1 after a read of its register.
CiaReleases ==
  /\ phase = "PHI1" /\ ciaRead
  /\ ciaRead' = FALSE
  /\ low' = low \ {"cia"}
  /\ done' = done \cup {"cia"}
  /\ IF low = {"cia"}
     THEN /\ irqAssertedOnPin' = FALSE
          /\ clobbered' = clobbered \cup Clobbers("clearInt", clearInt > 0)
          /\ clearInt' = interruptDelay + 1
     ELSE UNCHANGED <<irqAssertedOnPin, clobbered, clearInt>>
  /\ UNCHANGED <<phase, nmiFlag, cpu, rdy, steal, nosteal, swallowed>>

\* A variant: a pending NMI is removed as well.
RemoveInterrupt ==
  /\ phase = "PHI1" /\ clearInt = 1
  /\ clearInt' = 0
  /\ interruptCycle' = MAX
  /\ swallowed' = (swallowed \/ (irqAssertedOnPin /\ interruptCycle # MAX))
  /\ UNCHANGED <<phase, done, lines, instr, cycle, I, rdy, steal, nosteal, ciaRead, clobbered>>

\* removeIRQ().
RemoveIRQ ==
  /\ phase = "PHI1" /\ clearInt = 1
  /\ clearInt' = 0
  /\ interruptCycle' = IF nmiFlag THEN interruptCycle ELSE MAX
  /\ swallowed' = (swallowed \/ (irqAssertedOnPin /\ interruptCycle' # interruptCycle))
  /\ UNCHANGED <<phase, done, lines, instr, cycle, I, rdy, steal, nosteal, ciaRead, clobbered>>

\* triggerNMI().
TriggerNMI ==
  /\ phase = "PHI1" /\ "nmi" \notin done
  /\ done' = done \cup {"nmi"}
  /\ nmiFlag' = TRUE
  /\ interruptCycle' = Trigger(TRUE, irqAssertedOnPin, I, interruptCycle, cycle)
  /\ IF rdy THEN UNCHANGED steal ELSE Restart
  /\ UNCHANGED <<phase, irqAssertedOnPin, low, instr, cycle, I, rdy, nosteal, clearInt, ciaRead, clobbered, swallowed>>

\* A variant: the event of the old state stays on the queue.
SetRDYKeepsEvents ==
  /\ phase = "PHI1" /\ "ba" \notin done
  /\ done' = done \cup {"ba"}
  /\ rdy' = ~rdy
  /\ IF rdy
     THEN /\ steal' = TRUE
          /\ clobbered' = clobbered \cup Clobbers("steal", steal)
          /\ UNCHANGED nosteal
     ELSE /\ nosteal' = TRUE
          /\ clobbered' = clobbered \cup Clobbers("nosteal", nosteal)
          /\ UNCHANGED steal
  /\ UNCHANGED <<phase, lines, cpu, clearInt, ciaRead, swallowed>>

\* setBA() with a new state, setRDY().
SetRDY ==
  /\ phase = "PHI1" /\ "ba" \notin done
  /\ done' = done \cup {"ba"}
  /\ rdy' = ~rdy
  /\ IF rdy
     THEN /\ nosteal' = FALSE /\ steal' = TRUE
          /\ clobbered' = clobbered \cup Clobbers("steal", steal)
     ELSE /\ steal' = FALSE /\ nosteal' = TRUE
          /\ clobbered' = clobbered \cup Clobbers("nosteal", nosteal)
  /\ UNCHANGED <<phase, lines, cpu, clearInt, ciaRead, swallowed>>

\* The first half of the cycle is over.
HalfCycle ==
  /\ phase = "PHI1" /\ clearInt # 1 /\ ~ciaRead
  /\ phase' = "PHI2"
  /\ UNCHANGED <<done, lines, cpu, rdy, steal, nosteal, clearInt, ciaRead, clobbered, swallowed>>

-----------------------------------------------------------------------------
(* The CPU, in PHI2.  c is cycleCount, already past the cycle that runs.   *)

\* fetchNextOpcode(), with the flag, the NMI and interruptCycle as they are by then.
FetchNextOpcode(nmi, flag, ic) ==
  /\ instr' \in Program
  /\ cycle' = 0
  /\ interruptCycle' =
       IF ~CheckInterrupts(nmi, irqAssertedOnPin, flag) THEN MAX
       ELSE IF ic # MAX THEN -MAX ELSE MAX

\* interruptsAndNextOpcode().
InterruptsAndNextOpcode(flag, ic, c) ==
  IF c > ic + interruptDelay
  THEN instr' = "BRK" /\ cycle' = 0 /\ interruptCycle' = MAX
  ELSE FetchNextOpcode(nmiFlag, flag, ic)

\* A variant: enabling interrupts does not look for a pending one.
CliOnly(c) ==
  /\ I' = FALSE
  /\ InterruptsAndNextOpcode(FALSE, interruptCycle, c)
  /\ UNCHANGED nmiFlag

\* cli_instr().
Cli(c) ==
  /\ I' = FALSE
  /\ InterruptsAndNextOpcode(FALSE, Trigger(nmiFlag, irqAssertedOnPin, FALSE, interruptCycle, c), c)
  /\ UNCHANGED nmiFlag

\* sei_instr(): the next instruction is chosen first.
Sei(c) ==
  /\ I' = TRUE
  /\ IF c > interruptCycle + interruptDelay
     THEN instr' = "BRK" /\ interruptCycle' = MAX
     ELSE /\ instr' \in Program
          /\ interruptCycle' = IF nmiFlag /\ interruptCycle # MAX THEN -MAX ELSE MAX
  /\ cycle' = 0
  /\ UNCHANGED nmiFlag

\* PopSR().
PopSR(c) ==
  /\ I' \in BOOLEAN
  /\ interruptCycle' = Trigger(nmiFlag, irqAssertedOnPin, I', interruptCycle, c)
  /\ cycle' = c
  /\ UNCHANGED <<instr, nmiFlag>>

\* branch_instr(true) without a page crossing.
Branch(c) ==
  /\ cycle' = c + 1
  /\ interruptCycle' = IF interruptCycle \in 0 .. 7 THEN interruptCycle + 2 ELSE interruptCycle
  /\ UNCHANGED <<instr, I, nmiFlag>>

\* brkPushLowPC(): the vector is chosen and the NMI is served.
PushLow(c) ==
  /\ nmiFlag' = FALSE
  /\ interruptCycle' = Trigger(FALSE, irqAssertedOnPin, I, interruptCycle, c)
  /\ cycle' = c
  /\ UNCHANGED <<instr, I>>

\* The cycle's operation, as far as it does not touch the IRQ line.
Operate(op, c) ==
  \/ /\ op \in {"idle", "load", "push", "setI"}
     /\ I' = (I \/ op = "setI")
     /\ cycle' = c
     /\ UNCHANGED <<instr, interruptCycle, nmiFlag>>
  \/ op = "next" /\ InterruptsAndNextOpcode(I, interruptCycle, c) /\ UNCHANGED <<I, nmiFlag>>
  \/ op = "fetch" /\ FetchNextOpcode(nmiFlag, I, interruptCycle) /\ UNCHANGED <<I, nmiFlag>>
  \/ op = "cli" /\ Cli(c)
  \/ op = "sei" /\ Sei(c)
  \/ op = "popSR" /\ PopSR(c)
  \/ op = "branch" /\ Branch(c)
  \/ op = "pushLow" /\ PushLow(c)

Op == Table[instr][cycle + 1]

\* The operations of a cycle that nobody can steal.
NoSteal == Op \in {"write", "push", "pushLow"}

\* An operation other than a write; a load may be of CIA 1's interrupt register.
Step ==
  /\ Op # "write"
  /\ Operate(Op, cycle + 1)
  /\ ciaRead' \in {FALSE} \cup (IF Op = "load" THEN {TRUE} ELSE {})
  /\ UNCHANGED <<irqAssertedOnPin, low, clearInt, clobbered>>

\* A write, which may make the VIC raise or lower its line there and then; the
\* CPU's own event, which is running, is off the queue.  again is TRUE when
\* triggerIRQ() has put it there.
Write(again) ==
  /\ Op = "write"
  /\ cycle' = cycle + 1
  /\ \/ /\ UNCHANGED <<irqAssertedOnPin, low, interruptCycle, clearInt>>
        /\ again = FALSE
     \/ /\ "raise" \in VicWrites /\ "vic" \notin low
        /\ low' = low \cup {"vic"}
        /\ IF low = {}
           THEN /\ irqAssertedOnPin' = TRUE
                /\ interruptCycle' = Trigger(nmiFlag, TRUE, I, interruptCycle, cycle + 1)
                /\ again = (~rdy /\ interruptCycle' = cycle + 1)
           ELSE UNCHANGED <<irqAssertedOnPin, interruptCycle>> /\ again = FALSE
        /\ UNCHANGED clearInt
     \/ /\ "lower" \in VicWrites /\ "vic" \in low
        /\ low' = low \ {"vic"}
        /\ IF low = {"vic"}
           THEN irqAssertedOnPin' = FALSE /\ clearInt' = interruptDelay + 2
           ELSE UNCHANGED <<irqAssertedOnPin, clearInt>>
        /\ again = FALSE
        /\ UNCHANGED interruptCycle
  /\ clobbered' = clobbered \cup Clobbers("steal", again)
                    \cup Clobbers("clearInt", clearInt > 0 /\ irqAssertedOnPin /\ ~irqAssertedOnPin')
  /\ UNCHANGED <<instr, I, nmiFlag, ciaRead>>

\* eventWithoutSteals(), and eventWithSteals() in a cycle that cannot be stolen.
Run ==
  /\ phase = "PHI2" /\ "cpu" \notin done
  /\ nosteal \/ (steal /\ NoSteal)
  /\ Step \/ \E again \in BOOLEAN : Write(again)
  /\ done' = done \cup {"cpu"}
  /\ UNCHANGED <<phase, rdy, steal, nosteal, swallowed>>

\* eventWithSteals() in any other cycle: the CPU waits, with some exceptions.
Stall ==
  /\ phase = "PHI2" /\ "cpu" \notin done
  /\ steal /\ ~NoSteal
  /\ LET cli == instr = "CLI" /\ cycle = 0
         sei == instr = "SEI" /\ cycle = 0
         ic == IF cli /\ irqAssertedOnPin /\ interruptCycle = MAX THEN -MAX
               ELSE IF sei /\ ~nmiFlag /\ cycle <= interruptCycle + interruptDelay THEN MAX
               ELSE interruptCycle
     IN /\ I' = (sei \/ (I /\ ~cli))
        /\ interruptCycle' = IF ic = cycle THEN ic - 1 ELSE ic
  /\ steal' = FALSE
  /\ done' = done \cup {"cpu"}
  /\ UNCHANGED <<phase, lines, instr, cycle, rdy, nosteal, clearInt, ciaRead, clobbered, swallowed>>

\* The next cycle begins.
Cycle ==
  /\ phase = "PHI2"
  /\ steal \/ nosteal => "cpu" \in done
  /\ phase' = "PHI1"
  /\ done' = {}
  /\ clearInt' = IF clearInt = 0 THEN 0 ELSE clearInt - 1
  /\ UNCHANGED <<lines, cpu, rdy, steal, nosteal, ciaRead, clobbered, swallowed>>

\* reset(), Initialise(): the CPU is about to fetch the first opcode.
Init ==
  /\ phase = "PHI1" /\ done = {}
  /\ instr = "BRK" /\ cycle = 6
  /\ I = FALSE
  /\ nmiFlag = FALSE /\ irqAssertedOnPin = FALSE /\ low = {}
  /\ interruptCycle = MAX
  /\ rdy = TRUE /\ nosteal = TRUE /\ steal = FALSE
  /\ clearInt = 0 /\ ciaRead = FALSE
  /\ clobbered = {} /\ swallowed = FALSE

Chips ==
  \/ \E chip \in {"cia", "vic"} : RaiseIRQ(chip)
  \/ CiaReleases \/ RemoveIRQ
  \/ TriggerNMI
  \/ SetRDY

Next == Chips \/ HalfCycle \/ Run \/ Stall \/ Cycle

\* The event queue does not stop; the VIC gives the bus back (see NmiServed).
Fairness ==
  WF_vars(HalfCycle) /\ WF_vars(Cycle) /\ WF_vars(Run) /\ WF_vars(Stall)
    /\ WF_vars(RemoveIRQ) /\ WF_vars(CiaReleases)

Spec == Init /\ [][Next]_vars /\ Fairness

-----------------------------------------------------------------------------

\* The CPU is always in a cycle of an instruction of the table.
TypeOK ==
  /\ phase \in {"PHI1", "PHI2"} /\ done \subseteq {"cia", "vic", "nmi", "ba", "cpu"}
  /\ instr \in DOMAIN Table /\ cycle \in 0 .. Len(Table[instr]) - 1
  /\ {I, nmiFlag, irqAssertedOnPin, rdy, steal, nosteal, ciaRead, swallowed} \subseteq BOOLEAN
  /\ interruptCycle \in -1 .. 8 \cup {-MAX, MAX}
  /\ clearInt \in 0 .. 4
  /\ low \subseteq {"cia", "vic"}
  /\ clobbered \subseteq {"steal", "nosteal", "clearInt"}

\* c64.h: interruptIRQ(true) may be called "any time", also by a write of the
\* CPU itself while the bus is being taken away.
RaisesAnyTime == "steal" \notin clobbered

\* A running CPU has its event on the queue, and exactly one; one that waits
\* for the bus has none, and only in a cycle that can be stolen. No event is ever
\* queued twice, as long as the chips pull the line low in PHI1 and no
\* instruction releases it twice.
OneCpuEvent ==
  /\ clobbered = {}
  /\ nosteal <=> rdy
  /\ steal => ~rdy
  /\ ~rdy /\ ~steal => ~NoSteal

\* The CPU is in the interrupt sequence, before the vector is chosen.
Entering == instr = "BRK" /\ cycle <= 2

\* An IRQ is not forgotten while its line is low and interrupts are enabled, unless
\* the line went low so soon after its release that the release caught up with it.
IrqKept == irqAssertedOnPin /\ ~I /\ ~swallowed => interruptCycle # MAX \/ Entering

\* The CPU does not enter an interrupt sequence for a line that is long gone.
Justified ==
  Op \in {"next", "cli", "sei"} /\ phase = "PHI2" /\ cycle + 1 > interruptCycle + interruptDelay
    => nmiFlag \/ irqAssertedOnPin \/ clearInt > 0

\* An NMI is served, as long as the VIC gives the bus back again and again.
NmiServed == []<>(phase = "PHI2" /\ rdy) => (nmiFlag ~> ~nmiFlag)

=============================================================================

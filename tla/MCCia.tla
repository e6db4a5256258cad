-------------------------------- MODULE MCCia --------------------------------
(* The parts of a CIA, one at a time: a run is of one of them, the others   *)
(* stay at their first state.                                               *)
(*                                                                          *)
(* The timer: a byte of three values, so that the counter runs from 8 down, *)
(* long enough to fall asleep (above 2) for several cycles.                 *)
(*                                                                          *)
(* The interrupt logic: timer B, which the 6526 treats in its own way, and  *)
(* the serial port, which may also raise its flag in the second half of a   *)
(* cycle; the clock's alarm behaves like the serial port, and timer A like  *)
(* both in the first half.                                                  *)
(*                                                                          *)
(* The clock: the times around every carry, in three programs, of which one *)
(* watches the alarm, one reads, and one changes the frequency.             *)
EXTENDS Cia, TLC

VARIABLE part

Program(tenthsSet, seconds, minutes, hours, uses) ==
  [writes |-> <<seconds, minutes, hours>> @@ (0 :> tenthsSet),
   reads |-> uses = "reads", alarm |-> uses = "alarm", frequency |-> uses = "frequency"]

Carries == Program({9}, {\h59, \h09}, {\h59, \h29}, {\h07, \h09, \h11, \h12, \h91, \h92}, "frequency")
Alarms == Program({0, 9}, {\h59}, {0}, {\h11, \h12}, "alarm")
Reads == Program({9}, {\h59}, {\h59}, {\h11}, "reads")
MCPrograms == {Carries, Alarms, Reads}

MCInit ==
  /\ CiaInit
  /\ \/ part = "timer" /\ Model = "6526" /\ ~model4485 /\ gap = 1 /\ program = Reads
     \/ part = "logic" /\ ~model4485 /\ gap = 1 /\ program = Reads
     \/ part = "port" /\ Model = "6526" /\ program = Reads
     \/ part = "clock" /\ Model = "6526" /\ ~model4485 /\ gap = 1

\* The disjuncts of CiaNext.
MCNext ==
  /\ UNCHANGED part
  /\ \/ part = "timer" /\ Next /\ UNCHANGED <<logic, port, tod>>
     \/ part = "logic" /\ Irq!Next /\ UNCHANGED <<vars, port, tod>>
     \/ part = "port" /\ Port!Next /\ UNCHANGED <<vars, logic, tod>>
     \/ part = "clock" /\ Day!Next /\ UNCHANGED <<vars, logic, port>>

\* Where a part runs, its time goes on: see SerialPort.Fairness and CiaTimer.Fairness,
\* of whose two actions one or the other is possible.
Runs ==
  \/ part = "timer" /\ (Cycle \/ Cascade) /\ UNCHANGED port
  \/ part = "port" /\ Port!Cycle /\ UNCHANGED vars

MCSpec == MCInit /\ [][MCNext]_<<part, vars, logic, port, tod>> /\ WF_<<vars, port>>(Runs)

(* A running timer's next underflow comes: see CiaTimer.Expires.            *)
TimerExpires == part = "timer" => Expires

(* A byte in an output port ends with an interrupt: see                     *)
(* SerialPort.BytesEnd.                                                     *)
BytesEnd == part = "port" => Port!BytesEnd
=============================================================================

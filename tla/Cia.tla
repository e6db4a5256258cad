---------------------------------- MODULE Cia ----------------------------------
(* The parts of a CIA behind its bus: a timer, the interrupt logic, the     *)
(* serial port and the time of day, each in a module of its own             *)
(* (src/c64/CIA). They meet only where a part sets its flag, which          *)
(* CiaInterrupt lets it do whenever it could, and where timer A drives the  *)
(* serial port, which underflows for SerialPort in any of several rhythms:  *)
(* a step of the chip is a step of one of them, in any order, a reset too,  *)
(* which in the code reaches all of them at once.                           *)
EXTENDS CiaTimer

CONSTANTS
  Models, Source, TimerB, OnAccess, \* of the interrupt logic
  SerialModels, Gaps, Stale,        \* of the serial port
  Programs, MaxTenths               \* of the clock

ASSUME SourceAssumption == "REQUEST" \notin Source

VARIABLES
  Model, phase, busUsed, fired, icr, idr, idrTemp, sinceClear, sinceSet, scheduled, asserted,
  events, owed, late, overlapped,
  model4485, gap, half, output, count, cnt, loaded, pending, forceFinish, cntHistory,
  unnoted, queue, flipDue, idle, line, bytesOwed, finished, reset,
  program, clock, latch, alarm, isLatched, isStopped, ring, cra7, crb7, alarmed, shown,
  ticks, tenths

logic == <<Model, phase, busUsed, fired, icr, idr, idrTemp, sinceClear, sinceSet, scheduled,
           asserted, events, owed, late, overlapped>>
port == <<model4485, gap, half, output, count, cnt, loaded, pending, forceFinish, cntHistory,
          unnoted, queue, flipDue, idle, line, bytesOwed, finished, reset>>
tod == <<program, clock, latch, alarm, isLatched, isStopped, ring, cra7, crb7, alarmed,
         shown, ticks, tenths>>

Irq == INSTANCE CiaInterrupt

Port == INSTANCE SerialPort WITH Models <- SerialModels

Day == INSTANCE Tod

ASSUME ProgramsAssumption == Programs \subseteq Day!Program

CiaInit == Init /\ Irq!Init /\ Port!Init /\ Day!Init

CiaNext ==
  \/ Next /\ UNCHANGED <<logic, port, tod>>
  \/ Irq!Next /\ UNCHANGED <<vars, port, tod>>
  \/ Port!Next /\ UNCHANGED <<vars, logic, tod>>
  \/ Day!Next /\ UNCHANGED <<vars, logic, port>>

CiaSpec == CiaInit /\ [][CiaNext]_<<vars, logic, port, tod>>

-----------------------------------------------------------------------------

(* No part queues an event of its own that is on the queue, and none that   *)
(* runs forgets to: see CiaTimer.OneEvent, CiaInterrupt.EventsOnce and      *)
(* SerialPort.QueuedOnce.                                                   *)
QueuedOnce == OneEvent /\ Irq!EventsOnce /\ Port!QueuedOnce

(* A read returns the flags since the last: see CiaInterrupt.FlagsOwed.     *)
FlagsOwed == Irq!FlagsOwed

(* The line follows flags and reads: see CiaInterrupt.LineExplained.        *)
LineExplained == Irq!LineExplained

(* An enabled flag interrupts the CPU: see CiaInterrupt.Signalled.          *)
Signalled == Irq!Signalled

(* Every byte accepted is announced by exactly one interrupt: see           *)
(* SerialPort.BytesAnnounced.                                               *)
BytesAnnounced == Port!BytesAnnounced

(* A byte that a switch to input cuts off is finished just when the line    *)
(* asks for it: see SerialPort.CutOffRightly.                               *)
CutOffRightly == Port!CutOffRightly

(* Each tenth of a second comes in time and carries: see Tod.KeepsTime.     *)
KeepsTime == Day!KeepsTime

(* What is read from the hours down is one moment: see Tod.OneMoment.       *)
OneMoment == Day!OneMoment

(* The alarm goes off when clock and alarm meet: see Tod.AlarmOnce.         *)
AlarmOnce == Day!AlarmOnce
=============================================================================

---------------------------- MODULE CiaInterrupt ----------------------------
(***************************************************************************)
(* The interrupt logic of a CIA: from the flags its parts set to the line  *)
(* to the CPU (src/c64/CIA/interrupt.h, interrupt.cpp and the sources      *)
(* 6526 and 8521 of mos652x.h, mos652x.cpp).                               *)
(*                                                                         *)
(* A cycle has two halves.  In PHI1 the timers, the clock and the serial   *)
(* port set flags while the logic's own events fire; in PHI2 the CPU may   *)
(* read or write the register, or access the serial port or the clock and  *)
(* so set their flags.                                                     *)
(* The events of the logic are kept in the order they were scheduled,      *)
(* with the number of cycles left: events of one time fire in that order.  *)
(* The order between them and the other parts is left open.                *)
(***************************************************************************)
EXTENDS Integers, Sequences, SequencesExt

CONSTANTS
  Models,  \* those of "6526" and "8521" that an engine is configured with
  Source,  \* the flags: INTERRUPT_UNDERFLOW_A, ...; "REQUEST" is none
  TimerB,  \* INTERRUPT_UNDERFLOW_B
  OnAccess \* those that an access of the CPU may set: INTERRUPT_SP and INTERRUPT_ALARM

VARIABLES
  Model,      \* the one that is built in
  phase,      \* the half of the present cycle
  busUsed,    \* the CPU has had its bus cycle
  fired,      \* the flags triggered in this cycle: each part does so once
  icr,        \* the mask
  idr,        \* the flags, with "REQUEST" for bit 7
  idrTemp,    \* what is left of the flags once a read takes effect
  sinceClear, \* cycles since last_clear, 2 for more
  sinceSet,   \* cycles since last_set, 2 for more
  scheduled,  \* interruptEvent is believed to be pending
  asserted,   \* the interrupt line
  events,     \* the logic's events on the queue
  \* History, for the properties:
  owed,       \* flags that were set and that no read has returned yet
  late,       \* those of them set, or looked for by a write, in the cycle after a read
  overlapped  \* the last read came before the one before it had taken effect

history == <<owed, late, overlapped>>

vars == <<Model, phase, busUsed, fired, icr, idr, idrTemp, sinceClear, sinceSet,
          scheduled, asserted, events, history>>

Events == {"interrupt", "updateIdr", "setIrq", "clearIrq"}

IsPending(e, q) == \E i \in DOMAIN q : q[i].event = e

\* EventScheduler::schedule(e, delay, EVENT_CLOCK_PHI1): from PHI2 the next PHI1
\* belongs to the next cycle.
Scheduled(e, delay, q) ==
  Append(q, [event |-> e, left |-> IF phase = "PHI1" THEN delay ELSE delay + 1])

\* cancel(e): the first place where it is found is taken out.
Cancelled(e, q) ==
  IF IsPending(e, q)
  THEN RemoveAt(q, CHOOSE i \in DOMAIN q : q[i].event = e /\ \A j \in 1 .. i - 1 : q[j].event # e)
  ELSE q

\* The register was read, or written, in the previous cycle.
ack0 == sinceClear = 1
write0 == sinceSet = 1

\* A variant: the interrupt is scheduled again while it is pending.
ScheduleInterruptAgain(delay, q) == Scheduled("interrupt", delay, q)

\* schedule(delay).
ScheduleInterrupt(delay, q) == IF scheduled THEN q ELSE Scheduled("interrupt", delay, q)

Delay == IF Model = "8521" THEN 0 ELSE 1

\* trigger(s) for a flag s, with the part common to both models, isTriggered(s).
TriggerFlag(s) ==
  LET lost == IF Model = "6526" /\ s = TimerB /\ ack0 THEN {TimerB} ELSE {}
  IN /\ idr' = (idr \cup {s}) \ lost
     /\ idrTemp' = (idrTemp \cup {s}) \ lost
     /\ owed' = (owed \cup {s}) \ lost
     /\ late' = IF ack0 THEN late \cup {s} ELSE late
     /\ IF s \in icr
        THEN /\ events' = ScheduleInterrupt(Delay, events)
             /\ scheduled' = TRUE
        ELSE UNCHANGED <<events, scheduled>>

\* A part of the chip sets its flag.
Trigger(s) ==
  /\ s \notin fired
  /\ phase = "PHI1" \/ (s \in OnAccess /\ ~busUsed)
  /\ busUsed' = (phase = "PHI2")
  /\ TriggerFlag(s)
  /\ fired' = fired \cup {s}
  /\ UNCHANGED <<phase, icr, sinceClear, sinceSet, asserted, overlapped>>

\* setIrq(), as part of another action.
SetIrq == asserted' = (asserted \/ ~ack0)

\* interrupt(), with triggerInterrupt() of the model; q is the queue without it.
Interrupt(q) ==
  /\ IF "REQUEST" \in idr
     THEN UNCHANGED <<idr, idrTemp, asserted>> /\ events' = q
     ELSE /\ idr' = idr \cup {"REQUEST"}
          /\ idrTemp' = IF Model = "8521" THEN idrTemp \cup {"REQUEST"} ELSE idrTemp
          /\ events' = IF Model = "8521" /\ ack0 THEN Scheduled("setIrq", 1, q) ELSE q
          /\ SetIrq
  /\ scheduled' = FALSE

\* A variant: the flags are emptied, what has come since the read is forgotten.
UpdateIdrEmpty(q) ==
  /\ idr' = {} /\ idrTemp' = {}
  /\ events' = q
  /\ UNCHANGED <<scheduled, asserted>>

\* updateIdr().
UpdateIdr(q) ==
  /\ idr' = idrTemp
  /\ IF ack0
     THEN idrTemp' = {} /\ events' = Scheduled("updateIdr", 1, q)
     ELSE UNCHANGED idrTemp /\ events' = q
  /\ UNCHANGED <<scheduled, asserted>>

\* The first event that is due fires.
Fire ==
  \E i \in DOMAIN events :
    /\ events[i].left = 0
    /\ \A j \in 1 .. i - 1 : events[j].left > 0
    /\ LET q == RemoveAt(events, i)
       IN \/ events[i].event = "interrupt" /\ Interrupt(q)
          \/ events[i].event = "updateIdr" /\ UpdateIdr(q)
          \/ /\ events[i].event = "setIrq"
             /\ SetIrq
             /\ events' = q
             /\ UNCHANGED <<idr, idrTemp, scheduled>>
          \/ /\ events[i].event = "clearIrq"
             /\ asserted' = FALSE
             /\ events' = q
             /\ UNCHANGED <<idr, idrTemp, scheduled>>
    /\ UNCHANGED <<phase, busUsed, fired, icr, sinceClear, sinceSet, history>>

\* The first half of the cycle ends when nothing is due any more.
HalfCycle ==
  /\ phase = "PHI1"
  /\ \A i \in DOMAIN events : events[i].left > 0
  /\ phase' = "PHI2"
  /\ UNCHANGED <<busUsed, fired, icr, idr, idrTemp, sinceClear, sinceSet,
                 scheduled, asserted, events, history>>

\* A variant: a read leaves the line alone.
ClearKeepsLine ==
  /\ phase = "PHI2" /\ ~busUsed
  /\ sinceClear' = 0
  /\ events' = Scheduled("updateIdr", 1, Cancelled("updateIdr", events))
  /\ idrTemp' = {} /\ idr' = IF Model = "6526" THEN idr \cap {"REQUEST"} ELSE idr
  /\ busUsed' = TRUE
  /\ owed' = {} /\ late' = {} /\ overlapped' = IsPending("updateIdr", events)
  /\ UNCHANGED <<phase, fired, icr, sinceSet, scheduled, asserted>>

\* clear(): the CPU reads the register.
Clear ==
  /\ phase = "PHI2" /\ ~busUsed
  /\ sinceClear' = 0
  /\ LET q == Scheduled("clearIrq", 0, events)
     IN IF IsPending("updateIdr", q)
        THEN events' = q /\ UNCHANGED idrTemp
        ELSE events' = Scheduled("updateIdr", 1, q) /\ idrTemp' = {}
  /\ idr' = IF Model = "6526" THEN idr \cap {"REQUEST"} ELSE idr
  /\ busUsed' = TRUE
  /\ owed' = {} /\ late' = {} /\ overlapped' = IsPending("updateIdr", events)
  /\ UNCHANGED <<phase, fired, icr, sinceSet, scheduled, asserted>>

\* A variant: flags that are already set when they are enabled are ignored.
SetMask(mask, on) ==
  /\ phase = "PHI2" /\ ~busUsed
  /\ icr' = IF on THEN icr \cup mask ELSE icr \ mask
  /\ sinceSet' = 0
  /\ busUsed' = TRUE
  /\ late' = IF ack0 THEN owed ELSE late
  /\ UNCHANGED <<phase, fired, idr, idrTemp, sinceClear, asserted, owed, overlapped,
                 events, scheduled>>

\* set(mask): the CPU writes the register, with bit 7 set or not.
Set(mask, on) ==
  LET new == IF on THEN icr \cup mask ELSE icr \ mask
  IN /\ phase = "PHI2" /\ ~busUsed
     /\ icr' = new
     /\ \/ ~ack0 /\ idr \cap new # {}
           /\ events' = ScheduleInterrupt(Delay, events) /\ scheduled' = TRUE
        \/ ~ack0 /\ idr \cap new = {} /\ write0
           /\ events' = (IF scheduled THEN Cancelled("interrupt", events) ELSE events)
           /\ scheduled' = FALSE
        \/ (ack0 \/ (idr \cap new = {} /\ ~write0)) /\ UNCHANGED <<events, scheduled>>
     /\ sinceSet' = 0
     /\ busUsed' = TRUE
     /\ late' = IF ack0 THEN owed ELSE late
     /\ UNCHANGED <<phase, fired, idr, idrTemp, sinceClear, asserted, owed, overlapped>>

Older(age) == IF age = 2 THEN 2 ELSE age + 1

\* The next cycle begins.
Cycle ==
  /\ phase = "PHI2"
  /\ phase' = "PHI1"
  /\ busUsed' = FALSE /\ fired' = {}
  /\ sinceClear' = Older(sinceClear) /\ sinceSet' = Older(sinceSet)
  /\ events' = [i \in DOMAIN events |-> [events[i] EXCEPT !.left = @ - 1]]
  /\ UNCHANGED <<icr, idr, idrTemp, scheduled, asserted, history>>

\* reset(), which leaves idrTemp alone.  The clock restarts at 0, the time
\* last_clear and last_set are given.
Cleared ==
  /\ phase' = "PHI1" /\ busUsed' = FALSE /\ fired' = {}
  /\ icr' = {} /\ idr' = {}
  /\ sinceClear' = 0 /\ sinceSet' = 0
  /\ scheduled' = FALSE /\ asserted' = FALSE
  /\ events' = <<>>
  /\ owed' = {} /\ late' = {} /\ overlapped' = FALSE

Reset == Cleared /\ UNCHANGED <<Model, idrTemp>>

\* setModel(), which replaces the whole source by a new one; the reset of the
\* machine always follows.
SetModel == Cleared /\ idrTemp' = {} /\ Model' \in Models \ {Model}

Init ==
  /\ Model \in Models
  /\ phase = "PHI1" /\ busUsed = FALSE /\ fired = {}
  /\ icr = {} /\ idr = {} /\ idrTemp = {}
  /\ sinceClear = 0 /\ sinceSet = 0
  /\ scheduled = FALSE /\ asserted = FALSE
  /\ events = <<>>
  /\ owed = {} /\ late = {} /\ overlapped = FALSE

Run ==
  \/ \E s \in Source : Trigger(s)
  \/ Fire
  \/ HalfCycle
  \/ Clear
  \/ \E mask \in SUBSET Source, on \in BOOLEAN : Set(mask, on)
  \/ Cycle

Next == (Run /\ UNCHANGED Model) \/ Reset \/ SetModel

Spec == Init /\ [][Next]_vars

-----------------------------------------------------------------------------

\* Every flag and mask holds sources only, every pending event is one of the logic.
TypeOK ==
  /\ Model \in Models
  /\ phase \in {"PHI1", "PHI2"}
  /\ {busUsed, scheduled, asserted} \subseteq BOOLEAN
  /\ fired \subseteq Source /\ icr \subseteq Source
  /\ idr \subseteq Source \cup {"REQUEST"}
  /\ idrTemp \subseteq Source \cup {"REQUEST"}
  /\ sinceClear \in 0 .. 2 /\ sinceSet \in 0 .. 2
  /\ \A i \in DOMAIN events : events[i].event \in Events /\ events[i].left \in 0 .. 2

\* The logic never schedules an event that is on the queue, in spite of the
\* unguarded calls in clear() and scheduleIrq(), and the flag that guards the
\* interrupt says exactly whether it is pending.
EventsOnce ==
  /\ \A i, j \in DOMAIN events : events[i].event = events[j].event => i = j
  /\ scheduled <=> IsPending("interrupt", events)

\* The flags a read returns are those that were set since the last one: none is
\* lost, whenever it is set, and those a read has returned are gone when the
\* read has taken effect.
FlagsOwed ==
  ~overlapped =>
    /\ owed \subseteq idr
    /\ phase = "PHI2" /\ sinceClear = 2 => idr \ {"REQUEST"} = owed

\* A read of the register takes the line down in the next cycle, also when another
\* interrupt is due just then. But for that, the CPU is never interrupted without
\* being able to see that it was by this chip, and a request it can see is on the line.
LineExplained ==
  phase = "PHI2" =>
    /\ ack0 => ~asserted
    /\ ~overlapped /\ asserted /\ sinceClear > 0 => "REQUEST" \in idr
    /\ ~overlapped /\ "REQUEST" \in idr /\ sinceClear = 2 => asserted

\* An enabled flag interrupts the CPU, or is about to, even when it comes just
\* before a read takes effect; only one that comes in the very cycle after a
\* read may have to wait for the next flag.
Signalled ==
  phase = "PHI2" /\ (owed \ late) \cap icr # {} /\ ~overlapped => "REQUEST" \in idr \/ scheduled

=============================================================================

----------------------------- MODULE EventQueue -----------------------------
(***************************************************************************)
(* The event queue of the emulation as its clients see it                  *)
(* (src/EventScheduler.h): a sequence of pending events, each with the     *)
(* half-cycle at which it fires.  The linked list that implements it is in *)
(* module EventScheduler.                                                  *)
(*                                                                         *)
(* Time is counted in half-cycles: an even time is PHI1 (the chips), an    *)
(* odd one is PHI2 (the CPU).  Everything in the emulation runs inside     *)
(* Clock, as the callback of the event it fires; what the callback         *)
(* schedules or cancels are the steps that follow at the same time.        *)
(***************************************************************************)
EXTENDS Integers, Sequences, SequencesExt

CONSTANTS
  Event,      \* the event objects of the chips and the CPU
  MaxCycles,  \* bound: the largest delay a client asks for
  MaxTime     \* bound: no event is scheduled beyond this half-cycle

ASSUME QueueBounds == MaxCycles \in Nat /\ MaxTime \in Nat

VARIABLES
  queue,        \* the pending events, in the order they will fire
  triggerTime,  \* Event::triggerTime; kept after the event has fired
  currentTime   \* the clock, in half-cycles

vars == <<queue, triggerTime, currentTime>>

PHI1 == 0
PHI2 == 1
Phase == {PHI1, PHI2}

Pending == ToSet(queue)

\* The trigger time of an event asked for in a given phase: whole cycles from
\* the next slot of that phase, the present one included.
NextSlot(now, cycles, phase) ==
  now + (IF now % 2 = phase THEN 0 ELSE 1) + 2 * cycles

\* The first position whose event fires later than time t; the end if none does.
Slot(q, at, t) ==
  CHOOSE k \in 1 .. Len(q) + 1 :
    /\ \A i \in 1 .. k - 1 : at[q[i]] <= t
    /\ k <= Len(q) => at[q[k]] > t

\* EventScheduler::schedule(Event&), private: event e is to fire at time t.
\* The clients never schedule an event that is pending (a second insertion
\* would corrupt the list, see module EventScheduler).
Insert(e, t) ==
  /\ e \notin Pending
  /\ t <= MaxTime
  /\ triggerTime' = [triggerTime EXCEPT ![e] = t]
  /\ queue' = InsertAt(queue, Slot(queue, triggerTime', t), e)
  /\ UNCHANGED currentTime

\* schedule(event, cycles, phase).
ScheduleInPhase(e, cycles, phase) == Insert(e, NextSlot(currentTime, cycles, phase))

\* schedule(event, cycles): in the phase of the current event.
Schedule(e, cycles) == Insert(e, currentTime + 2 * cycles)

\* cancel(event): nothing happens when the event is not pending.
Cancel(e) ==
  /\ queue' = RemoveFirst(queue, e)
  /\ UNCHANGED <<triggerTime, currentTime>>

\* reset(): forget all pending events and restart the clock.
Reset ==
  /\ queue' = <<>>
  /\ currentTime' = 0
  /\ UNCHANGED triggerTime

\* clock(): the clock jumps to the first event, which leaves the queue.
\* The C++ dereferences the head without a test: it needs a pending event.
Clock ==
  /\ queue # <<>>
  /\ queue' = Tail(queue)
  /\ currentTime' = triggerTime[Head(queue)]
  /\ UNCHANGED triggerTime

\* Event does not initialise triggerTime; any value may be there.
Init ==
  /\ queue = <<>>
  /\ triggerTime \in [Event -> 0 .. MaxTime]
  /\ currentTime = 0

Next ==
  \/ \E e \in Event, c \in 0 .. MaxCycles, p \in Phase : ScheduleInPhase(e, c, p)
  \/ \E e \in Event, c \in 0 .. MaxCycles : Schedule(e, c)
  \/ \E e \in Event : Cancel(e)
  \/ Reset
  \/ Clock

Spec == Init /\ [][Next]_vars

-----------------------------------------------------------------------------

\* Type invariant of the queue.
TypeOK ==
  /\ queue \in Seq(Event)
  /\ triggerTime \in [Event -> 0 .. MaxTime]
  /\ currentTime \in 0 .. MaxTime

\* An event is in the queue at most once.
OnceOnly == \A i, j \in 1 .. Len(queue) : queue[i] = queue[j] => i = j

\* The queue is in firing order.
InOrder ==
  \A i, j \in 1 .. Len(queue) :
    i <= j => triggerTime[queue[i]] <= triggerTime[queue[j]]

\* No pending event is in the past: clock() never turns time back and
\* remaining() of a pending event is never negative.
NotOverdue == \A i \in 1 .. Len(queue) : currentTime <= triggerTime[queue[i]]

\* What clock() relies on when it takes the head of the list.
QueueOK == OnceOnly /\ InOrder /\ NotOverdue

\* The clock only ever advances, and it never passes a pending event: when the
\* time moves, every event left pending is still to come.
TimeAdvances ==
  [][currentTime' # currentTime /\ queue' # <<>> =>
       /\ currentTime' > currentTime
       /\ \A e \in Pending' : triggerTime'[e] >= currentTime']_vars

=============================================================================

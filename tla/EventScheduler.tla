--------------------------- MODULE EventScheduler ---------------------------
(***************************************************************************)
(* The linked list of src/EventScheduler.h and EventScheduler.cpp: the     *)
(* head pointer, and in every Event object the intrusive fields next and   *)
(* triggerTime.  A field keeps its last value when the event leaves the    *)
(* list; reset() forgets the list without touching the events.             *)
(*                                                                         *)
(* What is listed is the queue of module EventQueue: see EventList.        *)
(***************************************************************************)
EXTENDS Integers, FiniteSets, Sequences

CONSTANTS
  Event,      \* the event objects, finitely many
  NULL,       \* nullptr, which is none of them
  MaxCycles,  \* bound: the largest delay a client asks for
  MaxTime     \* bound: no event is scheduled beyond this half-cycle

VARIABLES
  firstEvent,   \* head of the list
  next,         \* Event::next of every event
  triggerTime,  \* Event::triggerTime of every event
  currentTime

vars == <<firstEvent, next, triggerTime, currentTime>>

\* The list as the loops walk it: Chain[k] is the value of *scan after k hops
\* along next.  A walk that has not met NULL after one hop per event is in a
\* cycle, and never will.
Hops == 0 .. Cardinality(Event)

Chain[k \in Hops] ==
  IF k = 0 THEN firstEvent
  ELSE IF Chain[k - 1] = NULL THEN NULL ELSE next[Chain[k - 1]]

\* isPending(event).
IsPending(e) == \E k \in Hops : Chain[k] = e

\* *scan = e, where scan has made k hops.
Store(k, nxt, e) ==
  IF k = 0
  THEN firstEvent' = e /\ next' = nxt
  ELSE firstEvent' = firstEvent /\ next' = [nxt EXCEPT ![Chain[k - 1]] = e]

\* A variant of Before: the scan stops at an event of the same time.
BeforeEqual(k, t, at) ==
  /\ Chain[k] # NULL => at[Chain[k]] >= t
  /\ \A j \in 0 .. k - 1 : Chain[j] # NULL /\ at[Chain[j]] < t

\* The scan for an event that fires later than time t stops after k hops.
Before(k, t, at) ==
  /\ Chain[k] # NULL => at[Chain[k]] > t
  /\ \A j \in 0 .. k - 1 : Chain[j] # NULL /\ at[Chain[j]] <= t

\* A variant of Insert: scheduled again while pending.
InsertPending(e, t) ==
  /\ t <= MaxTime
  /\ triggerTime' = [triggerTime EXCEPT ![e] = t]
  /\ \E k \in Hops : Before(k, t, triggerTime') /\ Store(k, [next EXCEPT ![e] = Chain[k]], e)
  /\ UNCHANGED currentTime

\* schedule(Event&): tuck e in before the first event that fires later.
Insert(e, t) ==
  /\ ~IsPending(e)
  /\ t <= MaxTime
  /\ triggerTime' = [triggerTime EXCEPT ![e] = t]
  /\ \E k \in Hops : Before(k, t, triggerTime') /\ Store(k, [next EXCEPT ![e] = Chain[k]], e)
  /\ UNCHANGED currentTime

\* schedule(event, cycles, phase): (currentTime & 1) ^ phase aligns the phase.
ScheduleInPhase(e, cycles, phase) ==
  Insert(e, currentTime + (IF currentTime % 2 = phase THEN 0 ELSE 1) + 2 * cycles)

\* schedule(event, cycles).
Schedule(e, cycles) == Insert(e, currentTime + 2 * cycles)

\* A variant of Cancel: drops the events before the match.
CancelFromHead(e) ==
  /\ IF IsPending(e) THEN firstEvent' = next[e] ELSE UNCHANGED firstEvent
  /\ UNCHANGED <<next, triggerTime, currentTime>>

\* cancel(event): unlink the first match, leave event.next as it is.
Cancel(e) ==
  /\ \/ \E k \in Hops :
          /\ Chain[k] = e
          /\ \A j \in 0 .. k - 1 : Chain[j] # e
          /\ Store(k, next, next[e])
     \/ ~IsPending(e) /\ UNCHANGED <<firstEvent, next>>
  /\ UNCHANGED <<triggerTime, currentTime>>

\* reset().
Reset ==
  /\ firstEvent' = NULL
  /\ currentTime' = 0
  /\ UNCHANGED <<next, triggerTime>>

\* clock(), up to the call of the event's callback.
Clock ==
  /\ firstEvent # NULL
  /\ firstEvent' = next[firstEvent]
  /\ currentTime' = triggerTime[firstEvent]
  /\ UNCHANGED <<next, triggerTime>>

\* Event's constructor initialises neither field.
Init ==
  /\ firstEvent = NULL
  /\ next \in [Event -> Event \cup {NULL}]
  /\ triggerTime \in [Event -> 0 .. MaxTime]
  /\ currentTime = 0

Next ==
  \/ \E e \in Event, c \in 0 .. MaxCycles, p \in {0, 1} : ScheduleInPhase(e, c, p)
  \/ \E e \in Event, c \in 0 .. MaxCycles : Schedule(e, c)
  \/ \E e \in Event : Cancel(e)
  \/ Reset
  \/ Clock

Spec == Init /\ [][Next]_vars

-----------------------------------------------------------------------------

\* The events on the list, head first.
Listed ==
  LET len == Cardinality({k \in Hops : Chain[k] # NULL})
  IN [i \in 1 .. len |-> Chain[i - 1]]

=============================================================================

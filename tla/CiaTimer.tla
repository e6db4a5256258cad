------------------------------ MODULE CiaTimer ------------------------------
(***************************************************************************)
(* A CIA timer on the event queue (src/c64/CIA/timer.h, timer.cpp).        *)
(*                                                                         *)
(* The timer does not run on every cycle.  reschedule() decides after each *)
(* clock whether to tick on the next cycle, to sleep until just before the *)
(* next underflow (m_cycleSkippingEvent), or to stop; an access of the CPU *)
(* first catches up (syncWithCpu) and then restarts the ticking            *)
(* (wakeUpAfterSyncWithCpu).  None of this may be seen: ref is a timer     *)
(* clocked on every cycle, and Agree says nobody can tell them apart.      *)
(*                                                                         *)
(* A cycle is the action Cycle, the PHI1 half, followed by the PHI2 half:  *)
(* at most one access of the CPU (one bus cycle), and for timer B the      *)
(* bTick event.  Times are kept relative to the present cycle.             *)
(***************************************************************************)
EXTENDS TimerOps

CONSTANT HighBytes  \* the values programs write to the latch's high byte

ASSUME HighBytesAssumption == HighBytes \subseteq 0 .. Byte - 1

VARIABLES
  t,          \* the timer's fields
  mode,       \* ciaEventPauseTime: -1 "stopped", 0 "ticking", > 0 "skipping"
  slept,      \* while skipping: the present cycle minus ciaEventPauseTime
  tick,       \* how often the timer's own event is queued, for the next PHI1
  skip,       \* cycles to m_cycleSkippingEvent; 0 when it is not pending
  underflow,  \* underFlow() was called in this cycle
  accessed,   \* the CPU has had its bus cycle
  bTick,      \* MOS652X::bTickEvent is pending: timer A has underflowed
  ref,        \* the timer clocked on every cycle
  refUnderflow

vars == <<t, mode, slept, tick, skip, underflow, accessed, bTick, ref, refUnderflow>>

refVars == <<ref, refUnderflow>>

\* Conditions of reschedule(), on the timer c as the clock left it.
Passing(c) == c.flags \cap {"OUT", "CR_FLOAD", "LOAD1", "LOAD"} # {}
Steady(c) == {"START", "PHI2IN", "COUNT2", "COUNT3"} \subseteq c.flags
Starting(c) == {"START", "PHI2IN"} \subseteq c.flags \/ {"START", "STEP"} \subseteq c.flags

\* A variant: a started timer stops before its count pipeline has filled.
KeepsTickingCounting(c) ==
  \/ Passing(c)
  \/ "COUNT3" \in c.flags /\ ~(Steady(c) /\ c.timer > 2)

KeepsTicking(c) ==
  \/ Passing(c)
  \/ "COUNT3" \in c.flags /\ ~(Steady(c) /\ c.timer > 2)
  \/ "COUNT3" \notin c.flags /\ Starting(c)

Sleeps(c) == ~Passing(c) /\ Steady(c) /\ c.timer > 2

\* reschedule(), with n pending ticks left; c is the timer after its clock.
Reschedule(c, n) ==
  IF KeepsTicking(c)
  THEN mode' = "ticking" /\ tick' = n + 1 /\ skip' = 0 /\ slept' = 0
  ELSE IF Sleeps(c)
       THEN mode' = "skipping" /\ tick' = n /\ skip' = c.timer - 1 /\ slept' = -1
       ELSE mode' = "stopped" /\ tick' = n /\ skip' = 0 /\ slept' = 0

\* event(): a clock, then reschedule().
Event(c, n) ==
  /\ t' = Clock(c)
  /\ underflow' = Underflows(c)
  /\ Reschedule(t', n)

\* The PHI1 half of a cycle: the due event of the timer, if there is one.
Cycle ==
  /\ ~bTick
  /\ accessed' = FALSE
  /\ \/ tick > 0 /\ skip # 1 /\ Event(t, tick - 1)
     \/ skip = 1 /\ Event([t EXCEPT !.timer = (@ - (slept + 1)) % (Byte * Byte)], tick)
     \/ /\ tick = 0 /\ skip # 1
        /\ underflow' = FALSE
        /\ skip' = IF skip = 0 THEN 0 ELSE skip - 1
        /\ slept' = IF skip = 0 THEN 0 ELSE slept + 1
        /\ UNCHANGED <<t, mode, tick>>
  /\ bTick' \in {FALSE} \cup Given("INMODE" \in t.ctrl /\ "START" \in t.flags, {TRUE})
  /\ ref' = Clock(ref)
  /\ refUnderflow' = Underflows(ref)

\* A variant: the sleep is taken to have begun a cycle earlier.
SyncedEarly ==
  IF mode = "skipping"
  THEN Clock([t EXCEPT !.timer = (@ - (slept + 1)) % (Byte * Byte)])
  ELSE t

\* syncWithCpu(): the timer as the access finds it.
Synced ==
  IF mode = "skipping" /\ slept >= 0
  THEN Clock([t EXCEPT !.timer = (@ - slept) % (Byte * Byte)])
  ELSE t

\* The clock() of syncWithCpu() calls underFlow().
SyncUnderflows ==
  mode = "skipping" /\ slept >= 0 /\ Underflows([t EXCEPT !.timer = (@ - slept) % (Byte * Byte)])

\* A variant: wakes up without having cancelled the pending tick.
WakeUpTwice ==
  /\ mode' = "ticking" /\ tick' = tick + 1 /\ skip' = 0 /\ slept' = 0
  /\ underflow' = (underflow \/ SyncUnderflows)

\* wakeUpAfterSyncWithCpu(), after syncWithCpu() has cancelled an event.
WakeUp ==
  /\ mode' = "ticking"
  /\ tick' = (IF mode = "ticking" /\ tick > 0 THEN tick - 1 ELSE tick) + 1
  /\ skip' = IF mode = "skipping" THEN 0 ELSE skip
  /\ slept' = 0
  /\ underflow' = (underflow \/ SyncUnderflows)

\* An access to the CIA, which leaves the timer as new, and ref as newRef.
Access(new, newRef) ==
  /\ ~accessed
  /\ t' = new
  /\ ref' = newRef
  /\ WakeUp
  /\ accessed' = TRUE
  /\ UNCHANGED <<bTick, refUnderflow>>

\* MOS652X::read, or a write to a register that does not belong to the timer.
ReadCia == Access(Synced, ref)

WriteLatchLo(data) == Access(LatchLo(Synced, data), LatchLo(ref, data))

WriteLatchHi(data) == Access(LatchHi(Synced, data), LatchHi(ref, data))

WriteControl(cr) == Access(SetControl(Synced, cr), SetControl(ref, cr))

\* MOS652X::bTick -> TimerB::cascade().
Cascade ==
  /\ bTick
  /\ t' = Step(Synced)
  /\ ref' = Step(ref)
  /\ WakeUp
  /\ bTick' = FALSE
  /\ UNCHANGED <<accessed, refUnderflow>>

\* Timer::reset(), by c64::reset() which has emptied the event queue: the timer
\* ticks from the next cycle.
Reset ==
  /\ t' = ResetTimer
  /\ mode' = "ticking" /\ slept' = 0 /\ tick' = 1 /\ skip' = 0
  /\ underflow' = FALSE /\ accessed' = TRUE /\ bTick' = FALSE
  /\ ref' = ResetTimer /\ refUnderflow' = FALSE

Init ==
  /\ t = ResetTimer
  /\ mode = "ticking" /\ slept = 0 /\ tick = 1 /\ skip = 0
  /\ underflow = FALSE /\ accessed = TRUE /\ bTick = FALSE
  /\ ref = ResetTimer /\ refUnderflow = FALSE

Next ==
  \/ Cycle
  \/ ReadCia
  \/ \E data \in 0 .. Byte - 1 : WriteLatchLo(data)
  \/ \E data \in HighBytes : WriteLatchHi(data)
  \/ \E cr \in SUBSET ControlBit : WriteControl(cr)
  \/ Cascade
  \/ Reset

\* The event queue never stops: cycles and the pending bTick always come.
Fairness == WF_vars(Cycle) /\ WF_vars(Cascade)

Spec == Init /\ [][Next]_vars /\ Fairness

-----------------------------------------------------------------------------

TypeOK ==
  /\ t \in Timer /\ ref \in Timer
  /\ mode \in {"stopped", "ticking", "skipping"}
  /\ slept \in -1 .. Byte * Byte
  /\ tick \in Nat
  /\ skip \in 0 .. Byte * Byte
  /\ {underflow, accessed, bTick, refUnderflow} \subseteq BOOLEAN

\* Exactly one event of a running timer is queued and none of a stopped one:
\* no access ever queues an event that is pending (which would corrupt the
\* event list) or forgets to queue one (the timer would be dead).
OneEvent ==
  /\ tick = (IF mode = "ticking" THEN 1 ELSE 0)
  /\ skip > 0 <=> mode = "skipping"

\* What can be told of a timer: a stopped one keeps the last stage of its
\* one-shot pipeline, which the first clock after it is woken up shifts out.
Seen(c) == [c EXCEPT !.flags = @ \ {"ONESHOT"}]

\* Sleeping and stopping are invisible: in every cycle an access finds the
\* timer, pipeline and all, as if it had been clocked on every cycle, and the
\* underflows happen in the same cycles.
Agree == Seen(Synced) = Seen(ref) /\ underflow = refUnderflow

\* A timer that counts clock cycles and that the CPU leaves alone from some
\* time on underflows again and again, unless an underflow has stopped it:
\* whatever was written before, its event is never lost.
Counting == {"START", "PHI2IN"} \subseteq t.flags
Expires == <>[](~accessed) => <>[](~Counting) \/ []<>underflow

=============================================================================

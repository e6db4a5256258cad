------------------------------ MODULE SerialPort ------------------------------
(***************************************************************************)
(* The serial port of a CIA (src/c64/CIA/SerialPort.h, SerialPort.cpp) and *)
(* the registers and the timer that drive it (mos652x.cpp): a byte written *)
(* to SDR is shifted out by sixteen flips of the CNT line, one for each    *)
(* underflow of timer A, and ends with an interrupt.                       *)
(*                                                                         *)
(* A cycle is the action Phi1, in which the port's deferred events fire    *)
(* and the timer may underflow, and then the half PHI2, in which startSdr  *)
(* fires and the CPU makes at most one access.  The port's events of a     *)
(* PHI1 were scheduled two cycles before, the timer's later: they fire     *)
(* first.  Times are kept relative to the present cycle.                   *)
(***************************************************************************)
EXTENDS Integers, Sequences, FiniteSets

CONSTANTS
  Models,  \* of BOOLEAN: the values of model4485
  Gaps,    \* the shortest distances of the timer's underflows, in cycles
  Stale    \* bound: how far, in half-cycles, a trigger time from before a reset lies ahead

VARIABLES
  model4485, gap,  \* the chip, and how often its timer underflows
  half,        \* 1 or 2, the half-cycle that is next
  output,      \* bit 6 of control register A
  count, cnt, loaded, pending, forceFinish,
  cntHistory,  \* the last three values of the line that were noted, newest first
  unnoted,     \* cycles since lastSync; three stand for more
  queue,       \* a set of <<event, half-cycles from now>>
  flipDue,     \* flipCntEvent's trigger time from now, when it is not queued
  idle,        \* cycles since the last underflow, at most gap
  line,        \* the last three values of the line, newest first
  bytesOwed,   \* bytes accepted and not yet announced by an interrupt
  finished,    \* forceFinish was decided from what line and queue said
  reset        \* flipDue is from before a reset

environment == <<model4485, gap>>
vars == <<model4485, gap, half, output, count, cnt, loaded, pending, forceFinish,
          cntHistory, unnoted, queue, flipDue, idle, line, bytesOwed, finished, reset>>

Never == -1    \* flipDue: the trigger time has passed

-----------------------------------------------------------------------------
(* The event queue, as the port uses it.                                   *)

Queued(q, e) == \E x \in q : x[1] = e
Due(q, e) == <<e, 0>> \in q
Fired(q) == {x \in q : x[2] # 0}
Cancel(q, e) == {x \in q : x[1] # e}
After(q, e, halves) == q \cup {<<e, halves>>}

\* remaining(flipCntEvent).
Remaining(q) ==
  IF Queued(q, "flipCnt") THEN (CHOOSE x \in q : x[1] = "flipCnt")[2] ELSE flipDue

\* The next half-cycle begins. flipDue tells what remains of a stale trigger time.
HalfCycle(q) == {<<x[1], x[2] - 1>> : x \in q}

Passes(q) ==
  /\ queue' = HalfCycle(q)
  /\ flipDue' = IF Queued(q, "flipCnt") \/ flipDue = Never THEN Never ELSE flipDue - 1

-----------------------------------------------------------------------------
(* PHI1.                                                                   *)

\* syncCntHistory(), when n cycles have passed: only the last three are of use.
Noted(n) == IF n = 0 THEN cntHistory ELSE IF n = 1 THEN <<cnt, cntHistory[1], cntHistory[2]>>
            ELSE IF n = 2 THEN <<cnt, cnt, cntHistory[1]>> ELSE <<cnt, cnt, cnt>>

\* The port as flipCnt() leaves it.
Flips == Due(queue, "flipCnt") /\ count # 0
Completes == Flips /\ count = 2
Flipped == IF Flips THEN count - 1 ELSE count

\* A variant: the byte that waits is announced with the one before.
NextByteLost(wait) == <<FALSE, FALSE>>

\* A variant: the byte that waits goes on waiting.
NextByteWaits(wait) == <<FALSE, wait>>

\* The bytes loaded and pending when a byte is complete.
NextByte(wait) == <<wait, FALSE>>

\* The queue when the port's events of this half-cycle have fired.
AfterEvents ==
  IF Completes THEN After(Cancel(Fired(queue), "sp"), "sp", 4) ELSE Fired(queue)

\* A variant: an underflow during a flip schedules another one.
HandleAgain(q, n) == IF n = 0 THEN q ELSE After(q, "flipCnt", 4)

\* handle(), with n flips to go.
Handle(q, n) ==
  CASE n = 0 -> q
    [] n # 0 /\ (Queued(q, "flipFake") \/ Queued(q, "flipCnt")) -> After(Cancel(q, "flipFake"), "flipFake", 4)
    [] OTHER -> After(q, "flipCnt", 4)

\* The timer's underflow reaches the port when it is an output.
Reaches(underflow) == underflow /\ output
Loads(underflow, load) == Reaches(underflow) /\ load /\ Flipped = 0

Phi1(underflow) ==
  /\ half = 1
  /\ underflow => idle = gap
  /\ LET noted == IF Flips THEN Noted(unnoted) ELSE cntHistory
         bytes == IF Completes THEN NextByte(pending) ELSE <<loaded, pending>>
         line1 == IF Flips THEN 1 - cnt ELSE cnt
         n     == IF Loads(underflow, bytes[1]) THEN 16 ELSE Flipped
     IN  /\ cntHistory' = noted
         /\ cnt' = line1
         /\ count' = n
         /\ loaded' = bytes[1] /\ pending' = bytes[2]
         /\ unnoted' = IF Flips THEN 1 ELSE IF unnoted = 3 THEN 3 ELSE unnoted + 1
         /\ Passes(IF Reaches(underflow) THEN Handle(AfterEvents, n) ELSE AfterEvents)
         /\ line' = <<line1, line[1], line[2]>>
  /\ idle' = IF underflow THEN 1 ELSE IF idle = gap THEN gap ELSE idle + 1
  /\ bytesOwed' = IF Due(queue, "sp") THEN bytesOwed - 1 ELSE bytesOwed
  /\ half' = 2
  /\ reset' = (reset /\ ~Queued(queue', "flipCnt"))
  /\ UNCHANGED <<environment, output, forceFinish, finished>>

-----------------------------------------------------------------------------
(* PHI2: doStartSdr(), and an access of the CPU.                           *)

Starts == Due(queue, "startSdr")
Loaded == loaded \/ Starts
Waiting == pending \/ (loaded /\ Starts)

\* What a half-cycle PHI2 does to the history.
Accepts ==
  bytesOwed + (IF Starts /\ ~(loaded /\ pending) THEN 1 ELSE 0) - (IF Due(queue, "sp") THEN 1 ELSE 0)

NoAccess(q) ==
  /\ half = 2
  /\ loaded' = Loaded /\ pending' = Waiting
  /\ Passes(q)
  /\ bytesOwed' = Accepts
  /\ half' = 1
  /\ UNCHANGED <<environment, output, count, cnt, forceFinish, cntHistory, unnoted, idle, line, finished, reset>>

Idle == NoAccess(Fired(queue))

\* A write to SDR: startSdr().
WriteSdr == NoAccess(After(Fired(queue), "startSdr", 2))

Mask == IF model4485 THEN 1 .. 3 ELSE 2 .. 3

\* A variant: the flip that is about to happen is not looked at.
FinishesWithoutFlip(noted) == \E i \in Mask : noted[i] = 0

\* Whether a switch to input will finish the byte: the line was low lately, or is about
\* to flip, except to complete the byte.
Finishes(noted) ==
  \/ \E i \in Mask : noted[i] = 0
  \/ count # 2 /\ Remaining(queue) = 1

\* The same, from the line itself and a flip that is under way.
LineLow == \E i \in Mask : line[i] = 0
FlipComes == count # 2 /\ <<"flipCnt", 1>> \in queue

\* A write to CRA that changes the direction: switchSerialDirection().
Switch ==
  /\ half = 2
  /\ output' = ~output
  /\ LET noted == Noted(unnoted)
         ends  == ~output /\ forceFinish
         kept  == Cancel(Cancel(Fired(queue), "flipCnt"), "flipFake")
     IN  /\ forceFinish' = (output /\ Finishes(noted))
         /\ cntHistory' = <<1, noted[2], noted[3]>>
         /\ queue' = HalfCycle(IF ends THEN After(Cancel(kept, "sp"), "sp", 4) ELSE kept)
         /\ flipDue' = IF Remaining(queue) = Never THEN Never ELSE Remaining(queue) - 1
         /\ finished' = (output /\ (LineLow \/ FlipComes))
         /\ bytesOwed' = IF ends \/ (Queued(queue, "sp") /\ ~Due(queue, "sp")) THEN 1 ELSE 0
  /\ unnoted' = 0
  /\ cnt' = 1 /\ count' = 0 /\ loaded' = FALSE /\ pending' = FALSE
  /\ line' = <<1, line[2], line[3]>>
  /\ half' = 1
  /\ UNCHANGED <<environment, idle, reset>>

-----------------------------------------------------------------------------
(* reset(), by c64::reset(): the queue is empty, the clock starts again,   *)
(* and the CPU needs more than three cycles for its first access.  What    *)
(* flipCntEvent last had as its trigger time may lie ahead of that clock.  *)

ResetPort ==
  /\ half' = 1
  /\ output' = FALSE
  /\ count' = 0 /\ cnt' = 1 /\ loaded' = FALSE /\ pending' = FALSE /\ forceFinish' = FALSE
  /\ cntHistory' = <<0, 0, 0>> /\ unnoted' = 3
  /\ queue' = {}
  /\ idle' = 1
  /\ line' = <<1, 1, 1>> /\ bytesOwed' = 0 /\ finished' = FALSE

Reset ==
  /\ ResetPort
  /\ flipDue' \in {Never} \cup Stale
  /\ reset' = (flipDue' # Never)
  /\ UNCHANGED environment

Init ==
  /\ model4485 \in Models /\ gap \in Gaps
  /\ half = 1
  /\ output = FALSE
  /\ count = 0 /\ cnt = 1 /\ loaded = FALSE /\ pending = FALSE /\ forceFinish = FALSE
  /\ cntHistory = <<0, 0, 0>> /\ unnoted = 3
  /\ queue = {} /\ flipDue = Never
  /\ idle = 1
  /\ line = <<1, 1, 1>> /\ bytesOwed = 0 /\ finished = FALSE /\ reset = FALSE

Cycle == (\E underflow \in BOOLEAN : Phi1(underflow)) \/ Idle

Next == Cycle \/ WriteSdr \/ Switch \/ Reset

\* Time goes on.
Fairness == WF_vars(Cycle)

Spec == Init /\ [][Next]_vars /\ Fairness

-----------------------------------------------------------------------------
(* The port queues each of its events at most once: handle() and startSdr() *)
(* schedule without a test, and the scheduler needs it.                     *)
QueuedOnce == \A x, y \in queue : x[1] = y[1] => x = y

AsInt(b) == IF b THEN 1 ELSE 0

(* Every byte accepted is announced by exactly one interrupt, unless the    *)
(* direction is switched: it is being shifted or waits, or its interrupt is *)
(* on its way.                                                              *)
BytesAnnounced == bytesOwed = AsInt(loaded) + AsInt(pending) + AsInt(Queued(queue, "sp"))

(* The port looks at CNT only when something happens, and finds the line as *)
(* it was in each of the cycles since; a byte that a switch to input cuts   *)
(* off is finished later just when the line was low in the last two cycles  *)
(* (three in the 4485) or about to flip. The exception is a trigger time    *)
(* that the engine's reset left behind, which remaining() takes for a flip. *)
CutOffRightly ==
  /\ half = 2 => Noted(unnoted) = line
  /\ reset \/ forceFinish = finished

(* A byte in an output port ends with an interrupt, if the timer goes on    *)
(* underflowing, and not in every cycle: each underflow would otherwise     *)
(* find the flip of the one before under way, and none be left to end it.   *)
BytesEnd ==
  []<><<Phi1(TRUE)>>_vars =>
    (output /\ gap > 1 /\ (loaded \/ pending) ~> ~output \/ Queued(queue, "sp"))

=============================================================================

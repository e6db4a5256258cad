------------------------------- MODULE Device -------------------------------
(***************************************************************************)
(* SIDs that are hardware (exsid-emu.cpp, usbsid-emu.cpp). They run by     *)
(* themselves, so each must be told how much of the machine's time lies    *)
(* between two commands. An exSID has its own account and gets the cycles  *)
(* with the command. The USBSIDs share one account, by which the program   *)
(* waits; an event of each makes it wait when nothing is written.          *)
(***************************************************************************)
EXTENDS Integers

CONSTANTS
  ExSids, UsbSids,   \* the chips of each kind
  Limit,             \* the cycles that one command can hold: 0xffff
  raster_rate,       \* the cycles after which the event of an USBSID waits
  LastCycle          \* bounds the cycles between two resets

VARIABLES
  now,          \* the scheduler's clock
  m_accessClk,  \* of each exSID: the time that it has been told of
  readflag,     \* the exSIDs that were read since the reset
  m_delayClk,   \* static in USBSID: the time that has been waited for
  queued,       \* of each USBSID: when its event is due
  passed,       \* of each exSID, and of the program: the cycles gone by
  commands,     \* that the last step sent, see Delay
  written       \* the chips that the last step wrote to

account == <<m_accessClk, readflag, m_delayClk, queued>>
vars == <<now, account, passed, commands, written>>

Waiting == "program"

-----------------------------------------------------------------------------
(* delay(): the cycles since the last time, in as many commands as it      *)
(* takes: some of Limit cycles and one of the rest.                        *)
DelayOnce(cycles) ==   \* as if there were an "if" for the "while"
  LET full == IF cycles > Limit THEN 1 ELSE 0 IN [full |-> full, rest |-> cycles - full * Limit]
Delay(cycles) ==
  LET full == IF cycles = 0 THEN 0 ELSE (cycles - 1) \div Limit
  IN  [full |-> full, rest |-> cycles - full * Limit]

None == [full |-> 0, rest |-> 0]

Send(who, pieces) ==
  /\ commands' = pieces
  /\ passed' = [passed EXCEPT ![who] = @ + pieces.full * Limit + pieces.rest]

DelayExSid(d) ==
  /\ Send(d, Delay(now - m_accessClk[d]))
  /\ m_accessClk' = [m_accessClk EXCEPT ![d] = now]

Write(c) ==
  /\ IF c \in ExSids
     THEN DelayExSid(c) /\ UNCHANGED <<m_delayClk, readflag, queued>>
     ELSE /\ Send(Waiting, Delay(now - m_delayClk))
          /\ m_delayClk' = now
          /\ UNCHANGED <<m_accessClk, readflag, queued>>
  /\ written' = {c}
  /\ UNCHANGED now

(* exSID::read() of a register that can be read. The first answers a       *)
(* program that looks for the chip's model, without the chip.              *)
Read(d, osc3) ==
  /\ IF osc3 /\ d \notin readflag
     THEN commands' = None /\ UNCHANGED <<m_accessClk, passed>> ELSE DelayExSid(d)
  /\ readflag' = readflag \union {d}
  /\ written' = {}
  /\ UNCHANGED <<now, m_delayClk, queued>>

(* exSID::clock(), at the end of Player::play(); that of USBSID is empty.  *)
Clock(d) ==
  /\ DelayExSid(d)
  /\ written' = {}
  /\ UNCHANGED <<now, m_delayClk, queued, readflag>>

(* USBSID::event().                                                        *)
EventAnew(c) ==   \* as if it always came a full period later
  /\ queued[c] = now
  /\ LET cycles == now - m_delayClk
     IN  /\ queued' = [queued EXCEPT ![c] = now + raster_rate]
         /\ IF cycles < raster_rate
            THEN commands' = None /\ UNCHANGED <<m_delayClk, passed>>
            ELSE m_delayClk' = now /\ Send(Waiting, [full |-> 0, rest |-> cycles])
  /\ written' = {}
  /\ UNCHANGED <<now, m_accessClk, readflag>>
Event(c) ==
  /\ queued[c] = now
  /\ LET cycles == now - m_delayClk
     IN  IF cycles < raster_rate
         THEN /\ queued' = [queued EXCEPT ![c] = now + raster_rate - cycles]
              /\ commands' = None /\ UNCHANGED <<m_delayClk, passed>>
         ELSE /\ queued' = [queued EXCEPT ![c] = now + raster_rate]
              /\ m_delayClk' = now /\ Send(Waiting, [full |-> 0, rest |-> cycles])
  /\ written' = {}
  /\ UNCHANGED <<now, m_accessClk, readflag>>

Tick ==
  /\ now < LastCycle /\ \A c \in UsbSids : queued[c] # now
  /\ now' = now + 1
  /\ commands' = None /\ written' = {}
  /\ UNCHANGED <<account, passed>>

(* c64::reset(), which has emptied the event queue and set back its clock. *)
Fresh ==
  [now |-> 0, m_accessClk |-> [d \in ExSids |-> 0], readflag |-> {}, m_delayClk |-> 0,
   queued |-> [c \in UsbSids |-> raster_rate],
   passed |-> [who \in ExSids \union {Waiting} |-> 0]]

Init ==
  /\ now = Fresh.now /\ m_accessClk = Fresh.m_accessClk /\ readflag = Fresh.readflag
  /\ m_delayClk = Fresh.m_delayClk /\ queued = Fresh.queued /\ passed = Fresh.passed
  /\ commands = None /\ written = {}

Reset ==
  /\ now' = Fresh.now /\ m_accessClk' = Fresh.m_accessClk /\ readflag' = Fresh.readflag
  /\ m_delayClk' = Fresh.m_delayClk /\ queued' = Fresh.queued /\ passed' = Fresh.passed
  /\ commands' = None /\ written' = {}

Next ==
  \/ Tick \/ Reset
  \/ \E c \in ExSids \union UsbSids : Write(c)
  \/ \E d \in ExSids : Clock(d) \/ \E osc3 \in BOOLEAN : Read(d, osc3)
  \/ \E c \in UsbSids : Event(c)

-----------------------------------------------------------------------------
(* A write reaches the hardware in the cycle of the machine in which it    *)
(* was made, however long ago the last one was and with no more cycles in  *)
(* a command than it can hold; and the program never runs ahead of an      *)
(* USBSID by more than a period of its event, however many chips and       *)
(* writes share the account.                                               *)
InStep ==
  /\ \A c \in written : passed[IF c \in ExSids THEN c ELSE Waiting] = now
  /\ written # {} => commands.rest <= Limit
  /\ UsbSids # {} => now - passed[Waiting] <= raster_rate
=============================================================================

------------------------------- MODULE Player -------------------------------
(***************************************************************************)
(* The engine object (src/player.cpp) and the objects it borrows: the SID  *)
(* builders of its client, the emulations they make (sidbuilder.cpp), the  *)
(* pages of the C64's I/O area that lead to them (c64.cpp), the model of   *)
(* the machine, the CPU's presence on the event queue and the mixer's      *)
(* pointers into the emulations' buffers.                                  *)
(* One action is one call of the public interface, exceptions included.    *)
(*                                                                         *)
(* An emulation is a member of Emu; a deleted one may be created again, as *)
(* memory is reused, so a pointer that outlives its emulation becomes      *)
(* Freed at the deletion.                                                  *)
(***************************************************************************)
EXTENDS Integers, Sequences, FiniteSets, SequencesExt, FiniteSetsExt

CONSTANTS
  Builders,   \* the client's sidbuilder objects
  Emu,        \* the storage of emulations, numbers other than Freed
  Tunes,      \* records [second, third, clock, sids, fault]
  Configs,    \* records [rate, second, third, model, force, sid, forceSid, builder]
  Default,    \* the configuration of SidConfig's constructor
  None        \* a null pointer, and address 0

Freed == 0
Faults == {"size", "driver", "place"}    \* what initialise() may throw

(* An address in the I/O area: its page, and the 32 bytes of it in which a *)
(* SID's registers are; the 16 pages and what is in them without SIDs.     *)
Pages == 0..15
Slots == 0..7
Device(page) ==
  CASE page \in 0..3 -> "VIC" [] page \in 4..7 -> "SID" [] page \in 8..11 -> "color RAM"
    [] page = 12 -> "CIA 1" [] page = 13 -> "CIA 2" [] page \in {14, 15} -> "open"

InSidArea(address) == address[1] \in (4..7) \union {14, 15}

Address == (Pages \X Slots) \union {None}

(* What a client may set to no builder is what it may set to one.          *)
ASSUME PlayerAssumption ==
  /\ Emu \subseteq Nat \ {Freed} /\ IsFiniteSet(Emu)
  /\ None \notin Builders /\ None \notin Emu /\ None \notin Tunes /\ None \notin Pages \X Slots
  /\ \A t \in Tunes :
       t \in [second : Address, third : Address, clock : STRING, fault : Faults \union {"none"},
              sids : Seq({"6581", "8580", "UNKNOWN", "ANY"})]
  /\ \A c \in Configs :
       /\ c \in [rate : STRING, second : Address, third : Address, force : BOOLEAN,
                 model : {"PAL", "NTSC", "DREAN", "OLD_NTSC", "PAL_M"},
                 sid : {"6581", "8580"}, forceSid : BOOLEAN, builder : Builders \union {None}]
       /\ [c EXCEPT !.builder = None] \in Configs
  /\ Default \in Configs /\ Default.builder = None

VARIABLES
  m_tune, m_cfg,
  m_chips,       \* the emulations in use, the base SID first
  chipset,       \* what each of them was made to be, and for which machine
  sidobjs,       \* sidobjs[b]: the emulations builder b has made
  sidBank,       \* the emulation in the pages of the SID
  extraSidBanks, \* of a page with extra SIDs, the emulation in each slot
  machine,       \* the model of the C64
  cpu,           \* "off": no event queued; "ready"; "halted" by an opcode
  memory,        \* the tune the machine was last set up for, with its driver
  m_simpleMixer, \* the emulations whose buffers the mixer points to
  reply,         \* what the last call returned
  mixerDue       \* the client has to call initMixer() before it mixes

sids == <<sidBank, extraSidBanks>>
inUse == <<m_chips, chipset>>
vars == <<m_tune, m_cfg, inUse, sidobjs, sids, machine, cpu, memory, m_simpleMixer,
          reply, mixerDue>>

Used == UNION {sidobjs[b] : b \in Builders}
Returned(op, ok, samples) == [op |-> op, ok |-> ok, samples |-> samples]

Init ==
  /\ m_tune = None /\ m_cfg = Default
  /\ m_chips = <<>> /\ chipset = <<>>
  /\ sidobjs = [b \in Builders |-> {}]
  /\ sidBank = None /\ extraSidBanks = <<>>
  /\ machine = "PAL_B"
  /\ cpu = "off" /\ memory = None
  /\ m_simpleMixer = <<>>
  /\ reply = Returned("new", TRUE, 0)
  /\ mixerDue = FALSE

-----------------------------------------------------------------------------
(* sidRelease: every route is cleared before the builders delete.          *)

Unlocked == [b \in Builders |-> sidobjs[b] \ ToSet(m_chips)]
KeepSids == UNCHANGED sids  \* as if clearSids() were missing
ClearSids == sidBank' = None /\ extraSidBanks' = <<>>

(* The pointers that led to deleted emulations.                            *)
Dangling(pointers, kept) ==
  [i \in DOMAIN pointers |-> IF pointers[i] \in kept THEN pointers[i] ELSE Freed]

-----------------------------------------------------------------------------
(* sidCreate. The addresses come from the tune where it names them.        *)

Chosen(tune, cfg, field) == IF tune[field] # None THEN tune[field] ELSE cfg[field]
Listed(address) == IF address = None THEN <<>> ELSE <<address>>
Addresses(tune, cfg) ==
  Listed(Chosen(tune, cfg, "second")) \o Listed(Chosen(tune, cfg, "third"))

(* The order in which new emulations take the places that are free: a      *)
(* table, which TLC fills once.                                            *)
Storage == {<<free, SetToSeq(free)>> : free \in SUBSET Emu}
OrderOf(free) == (CHOOSE s \in Storage : s[1] = free)[2]

(* What is left of the calls of lock() and addExtraSid() once one of them  *)
(* failed or all were made: the emulations locked, the chips among them    *)
(* that were pushed on m_chips, and the error. The builder can make        *)
(* "avail" emulations, the first of which is stored at fresh[1].           *)
SidCreate(builder, addresses, avail, fresh) ==
  LET wanted  == 1 + Len(addresses)
      rejects == {i \in 2..wanted : ~InSidArea(addresses[i - 1])}
      bad     == Min(rejects \union {wanted + 1})
      made    == Min({avail, wanted, bad})         \* calls of lock() that succeeded
      chips   == SubSeq(fresh, 1, IF made = bad THEN made - 1 ELSE made)
      error   == IF made = bad THEN "address" ELSE IF made < wanted THEN "emulation" ELSE "none"
  IN  IF builder = None THEN [locked |-> {}, chips |-> <<>>, error |-> "none"]
      ELSE [locked |-> ToSet(SubSeq(fresh, 1, made)), chips |-> chips, error |-> error]

(* What a bank of extra SIDs does not map stays as it was. The later of    *)
(* two SIDs in one slot hides the earlier.                                 *)
AddExtraSids(chips, addresses) ==
  LET at(page, slot) == {i \in 2..Len(chips) : addresses[i - 1] = <<page, slot>>}
      pages == {addresses[i - 1][1] : i \in 2..Len(chips)}
  IN  [page \in pages |->
         [slot \in Slots |->
            IF at(page, slot) = {} THEN None ELSE chips[Max(at(page, slot))]]]

(* A read or a write of the CPU reaches one of the emulations, or a device *)
(* of the machine where there is none.                                     *)
Reached(page, slot) ==
  IF page \in DOMAIN extraSidBanks /\ extraSidBanks[page][slot] # None
  THEN <<"SID", extraSidBanks[page][slot]>>
  ELSE IF Device(page) = "SID" THEN <<"SID", sidBank>> ELSE <<Device(page)>>

(* getSidModel() for the base SID and the extra ones, whose default is     *)
(* what the base SID is. A tune need not ask for a model.                  *)
Requested(tune, i) == IF i \in DOMAIN tune.sids THEN tune.sids[i] ELSE "UNKNOWN"
GetSidModel(asked, default, forced) ==
  IF forced \/ asked \in {"UNKNOWN", "ANY"} THEN default ELSE asked
SidModel(tune, cfg, i) ==
  LET base == GetSidModel(Requested(tune, 1), cfg.sid, cfg.forceSid)
  IN  IF i = 1 THEN base ELSE GetSidModel(Requested(tune, i), base, cfg.forceSid)

Made(objs, b, emus) ==
  IF b = None THEN objs ELSE [objs EXCEPT ![b] = @ \union emus]

(* c64model(): the tune's clock decides, unless it is unknown or the       *)
(* configuration insists.                                                  *)
Preferred(model) ==
  CASE model = "PAL" -> "PAL_B" [] model = "NTSC" -> "NTSC_M" [] model = "DREAN" -> "PAL_N"
    [] model = "OLD_NTSC" -> "OLD_NTSC_M" [] model = "PAL_M" -> "PAL_M"
C64Model(tune, cfg) ==
  IF cfg.force \/ tune.clock \in {"UNKNOWN", "ANY"} THEN Preferred(cfg.model)
  ELSE IF tune.clock = "NTSC" THEN "NTSC_M" ELSE "PAL_B"

(* sidParams(), when the machine has got its model.                        *)
SidParamsEarly(tune, cfg) == machine    \* as if it came before setModel()
SidParams(tune, cfg) == C64Model(tune, cfg)

-----------------------------------------------------------------------------
(* initialise(): reset takes the CPU off the queue and it comes back only  *)
(* as the last step, when the tune is in memory.                           *)

Initialise(tune) ==
  IF tune.fault = "none"
  THEN cpu' = "ready" /\ memory' = tune
  ELSE cpu' = "off" /\ memory' = None

-----------------------------------------------------------------------------
(* config(cfg, force), called by "op" for the tune "tune".                 *)

Unchanged == UNCHANGED <<inUse, sidobjs, sids, machine, cpu, memory, m_simpleMixer, mixerDue>>

(* What failure leaves: the emulations just made are released again, and   *)
(* the configuration in force loses its builder. The call config(m_cfg)    *)
(* that follows compares m_cfg with itself and returns at once.            *)
FailKeepsBuilder(kept) ==  \* as if m_cfg.sidEmulation stayed
  m_chips' = <<>> /\ chipset' = <<>> /\ sidobjs' = kept /\ ClearSids /\ UNCHANGED m_cfg

Fail(kept) ==
  /\ m_chips' = <<>> /\ chipset' = <<>>
  /\ sidobjs' = kept
  /\ ClearSids
  /\ m_cfg' = [m_cfg EXCEPT !.builder = None]

Succeed(tune, cfg, made, chips, addresses) ==
  /\ m_chips' = chips
  /\ chipset' = [i \in DOMAIN chips |->
                   [model |-> SidModel(tune, cfg, i), machine |-> SidParams(tune, cfg)]]
  /\ sidobjs' = made
  /\ sidBank' = (IF chips = <<>> THEN None ELSE chips[1])
  /\ extraSidBanks' = AddExtraSids(chips, addresses)
  /\ m_cfg' = cfg

Setup(op, tune, cfg) ==
  LET addresses == Addresses(tune, cfg)
      others    == UNION {Unlocked[b] : b \in Builders}
      fresh     == OrderOf(Emu \ others)
  IN  \E avail \in 0..Len(fresh) :
        LET result == SidCreate(cfg.builder, addresses, avail, fresh)
            leaked == result.locked \ ToSet(result.chips)
            failed == result.error # "none" \/ tune.fault # "none"
        IN  /\ IF result.error = "none"
               THEN machine' = C64Model(tune, cfg) /\ Initialise(tune)
               ELSE UNCHANGED <<machine, cpu, memory>>
            /\ IF failed THEN Fail(Made(Unlocked, cfg.builder, leaked))
               ELSE Succeed(tune, cfg, Made(Unlocked, cfg.builder, result.locked), result.chips, addresses)
            /\ m_simpleMixer' = Dangling(m_simpleMixer, others)
            /\ reply' = Returned(op, ~failed, 0)
            /\ mixerDue' = ~failed

Config(cfg) ==
  /\ UNCHANGED m_tune
  /\ IF cfg = m_cfg
     THEN UNCHANGED m_cfg /\ Unchanged /\ reply' = Returned("config", TRUE, 0)
     ELSE IF cfg.rate = "bad"
     THEN /\ UNCHANGED m_cfg /\ Unchanged
          /\ reply' = Returned("config", FALSE, 0)
     ELSE IF m_tune = None
     THEN /\ m_cfg' = cfg /\ Unchanged
          /\ reply' = Returned("config", TRUE, 0)
     ELSE Setup("config", m_tune, cfg)

(* As if load() did not force the new tune through config().               *)
LoadUnforced(tune) ==
  /\ m_tune' = tune /\ UNCHANGED m_cfg /\ Unchanged
  /\ reply' = Returned("load", TRUE, 0)

(* load(): a tune the engine cannot set up is rejected.                    *)
Load(tune) ==
  /\ Setup("load", tune, m_cfg)
  /\ m_tune' = IF reply'.ok THEN tune ELSE None

Unload ==
  /\ m_tune' = None
  /\ UNCHANGED m_cfg /\ Unchanged
  /\ reply' = Returned("unload", TRUE, 0)

(* reset() has no guard against a missing tune: the client has one.        *)
Reset ==
  /\ m_tune # None
  /\ Initialise(m_tune)
  /\ reply' = Returned("reset", m_tune.fault = "none", 0)
  /\ UNCHANGED <<m_tune, m_cfg, inUse, sidobjs, sids, machine, m_simpleMixer, mixerDue>>

(* play(): an exception of the CPU leaves its event off the queue, so the  *)
(* machine runs on without it. The client mixes only with a mixer made     *)
(* since the last successful set-up.                                       *)
Play ==
  /\ mixerDue => m_chips = <<>>
  /\ \/ /\ m_tune = None
        /\ reply' = Returned("play", FALSE, 0)
        /\ UNCHANGED cpu
     \/ /\ m_tune # None
        /\ \E samples \in {0, Len(m_chips)} : reply' = Returned("play", TRUE, samples)
        /\ UNCHANGED cpu
     \/ /\ m_tune # None /\ cpu = "ready"
        /\ cpu' = "halted"
        /\ reply' = Returned("play", FALSE, 0)
  /\ UNCHANGED <<m_tune, m_cfg, inUse, sidobjs, sids, machine, memory, m_simpleMixer, mixerDue>>

InitMixer ==
  /\ m_chips # <<>>
  /\ m_simpleMixer' = m_chips
  /\ mixerDue' = FALSE
  /\ reply' = Returned("initMixer", TRUE, 0)
  /\ UNCHANGED <<m_tune, m_cfg, inUse, sidobjs, sids, machine, cpu, memory>>

(* A builder is deleted, and made again, once its client has configured    *)
(* another for a loaded tune.                                              *)
RemoveBuilder(b) ==
  /\ m_tune # None /\ m_cfg.builder # b
  /\ sidobjs' = [sidobjs EXCEPT ![b] = {}]
  /\ m_simpleMixer' = Dangling(m_simpleMixer, Used \ sidobjs[b])
  /\ reply' = Returned("remove", TRUE, 0)
  /\ UNCHANGED <<m_tune, m_cfg, inUse, sids, machine, cpu, memory, mixerDue>>

Next ==
  \/ \E cfg \in Configs : Config(cfg)
  \/ \E tune \in Tunes : Load(tune)
  \/ Unload \/ Reset \/ Play \/ InitMixer
  \/ \E b \in Builders : RemoveBuilder(b)

Spec == Init /\ [][Next]_vars

-----------------------------------------------------------------------------
TypeOK ==
  /\ m_tune \in Tunes \union {None}
  /\ m_cfg \in Configs
  /\ m_chips \in Seq(Emu) /\ Len(m_chips) <= 3
  /\ DOMAIN chipset = DOMAIN m_chips
  /\ sidobjs \in [Builders -> SUBSET Emu]
  /\ sidBank \in Emu \union {None}
  /\ DOMAIN extraSidBanks \subseteq Pages
  /\ \A page \in DOMAIN extraSidBanks : extraSidBanks[page] \in [Slots -> Emu \union {None}]
  /\ machine \in {"PAL_B", "NTSC_M", "OLD_NTSC_M", "PAL_N", "PAL_M"}
  /\ cpu \in {"off", "ready", "halted"}
  /\ memory \in Tunes \union {None}
  /\ m_simpleMixer \in Seq(Emu \union {Freed})

(* The chips are distinct emulations of existing builders, and the I/O area *)
(* leads only to chips, whatever step of a set-up failed: neither the      *)
(* CPU's accesses nor play() can reach a deleted emulation. And samples    *)
(* that play() reports are mixed from the buffers of the chips that        *)
(* produced them.                                                          *)
Alive ==
  /\ ToSet(m_chips) \subseteq Used
  /\ IsInjective(m_chips)
  /\ \A b, c \in Builders : b # c => sidobjs[b] \intersect sidobjs[c] = {}
  /\ \A page \in Pages, slot \in Slots :
       LET r == Reached(page, slot)
       IN  r[1] = "SID" => r[2] = None \/ r[2] \in ToSet(m_chips)
  /\ reply.op = "play" /\ reply.samples > 0 => m_simpleMixer = m_chips

(* With a tune loaded, config() tells the truth: one SID for the machine   *)
(* and one for each address the tune or the configuration names, all of    *)
(* them made by the configured builder; none without a builder. The CPU    *)
(* reaches each at its address, the base SID in all else of its pages, and *)
(* everywhere else what it reached before there were extra SIDs. Each SID  *)
(* runs at the speed of the machine it is in and is of the model that the  *)
(* tune asks for, or the configuration where it insists or the tune does   *)
(* not care; there an extra SID is what the base SID is.                   *)
Honest ==
  m_tune # None =>
    LET addresses == Addresses(m_tune, m_cfg)
    IN  /\ IF m_cfg.builder = None THEN m_chips = <<>>
           ELSE /\ Len(m_chips) = 1 + Len(addresses)
                /\ ToSet(m_chips) \subseteq sidobjs[m_cfg.builder]
        /\ \A i \in DOMAIN m_chips :
             /\ chipset[i].machine = machine
             /\ chipset[i].model =
                  IF m_cfg.forceSid THEN m_cfg.sid
                  ELSE IF Requested(m_tune, i) \in {"6581", "8580"} THEN m_tune.sids[i]
                  ELSE IF i = 1 THEN m_cfg.sid ELSE chipset[1].model
        /\ m_chips # <<>> =>
             \A page \in Pages, slot \in Slots :
               IF <<page, slot>> \in ToSet(addresses)
               THEN \E i \in 2..Len(m_chips) :
                      addresses[i - 1] = <<page, slot>> /\ Reached(page, slot) = <<"SID", m_chips[i]>>
               ELSE Reached(page, slot) =
                      IF Device(page) = "SID" THEN <<"SID", m_chips[1]>> ELSE <<Device(page)>>

(* An accepted tune is the one in memory, with the CPU running or stopped  *)
(* by an opcode, on the machine that tune and configuration ask for: a     *)
(* set-up that fails on the way, which takes the CPU off the queue and may *)
(* have changed the model, never leaves its tune loaded, and one that      *)
(* fails before leaves the machine as it was.                              *)
PlaysTune ==
  m_tune # None =>
    memory = m_tune /\ cpu # "off" /\ machine = C64Model(m_tune, m_cfg)

(* sidbuilder.h: usedDevices() is the "number of used sids, 0 if none":    *)
(* with a tune loaded, what a builder holds is what the engine uses.       *)
UsedDevices ==
  m_tune # None => Used \subseteq ToSet(m_chips)
=============================================================================

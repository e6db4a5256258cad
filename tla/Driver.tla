------------------------------- MODULE Driver -------------------------------
(***************************************************************************)
(* A tune on its way into the machine: the file is loaded, a song chosen,  *)
(* the machine reset, the driver put into a free page, the ROMs hooked,    *)
(* the data placed and the CPU started (Player::initialise, psiddrv.cpp);  *)
(* then the driver's own program (psiddrv.a65), which banks the memory for *)
(* the tune's init and play routines.                                      *)
(***************************************************************************)
EXTENDS Tune, Mmu

CONSTANTS
  Files,       \* the files that are loaded
  Wild,        \* those of them whose code writes to the processor port
  DirValues, DataValues    \* what it writes there

ASSUME FilesAssumption == Files \subseteq File /\ Wild \subseteq Files
ASSUME ValuesAssumption == DirValues \subseteq SUBSET Bit /\ DataValues \subseteq SUBSET Bit

VARIABLES
  file, tune, song,   \* the file, what was made of it, the chosen song
  engine,             \* "off", "running", or why it failed
  driver,             \* the page the driver is in, 0 for none
  resetHook, trap, subtune,   \* the patches of the ROMs
  pc,                 \* where the CPU is
  port,               \* the processor port
  stacked,            \* the value of it that the interrupt routine has pushed
  banked,             \* the map when the interrupt came
  driven, age         \* the unused bit when it was last an output; cycles since

rom == <<resetHook, trap, subtune>>
unused == <<driven, age>>
vars == <<file, tune, song, engine, driver, rom, pc, port, stacked, banked, unused>>

NoFile == [id |-> "none"]
NoSong == [number |-> 0]

-----------------------------------------------------------------------------
(* psiddrv::drvReloc(): the driver's first page, 0 if there is none. It    *)
(* takes one page.                                                         *)

TunePages(t) == Page(t.load)..Page(t.load + t.len - 1)
Blocks == (4..207) \ BasicRom

FreePage(t) ==
  LET free == Blocks \ TunePages(t)
  IN  IF free = {} THEN 0 ELSE CHOOSE p \in free : \A q \in free : p <= q

FirstPage(t) ==    \* as if the tune's pages were not skipped
  IF t.compatibility = "BASIC" \/ t.relocStartPage = 0 THEN 4 ELSE t.relocStartPage % 255
DrvReloc(t) ==
  CASE t.compatibility = "BASIC" -> 4
    [] t.compatibility # "BASIC" /\ t.relocStartPage = 255 -> 0
    [] t.compatibility # "BASIC" /\ t.relocStartPage = 0 -> FreePage(t)
    [] OTHER -> IF t.relocPages < 1 THEN 0 ELSE t.relocStartPage

(* iomap(): the bank bits with which an address is memory; for a tune of   *)
(* the real machine the driver leaves them alone.                          *)
Untouched == {"untouched"}
IomapLow(t, addr) ==    \* as if the I/O area were memory like that below it
  CASE t.compatibility \in {"R64", "BASIC"} \/ addr = 0 -> Untouched
    [] OTHER -> IF addr < 40960 THEN Bank ELSE IF addr < 57344 THEN {"HIRAM", "CHAREN"}
                ELSE {"LORAM", "CHAREN"}
Iomap(t, addr) ==
  CASE t.compatibility \in {"R64", "BASIC"} \/ addr = 0 -> Untouched
    [] OTHER ->
         IF addr < 40960 THEN Bank                    \* $a000
         ELSE IF addr < 53248 THEN {"HIRAM", "CHAREN"}  \* $d000
         ELSE IF addr >= 57344 THEN {"LORAM", "CHAREN"} \* $e000
         ELSE {"CHAREN"}

-----------------------------------------------------------------------------
Init ==
  /\ file = NoFile /\ tune = NoTune /\ song = NoSong
  /\ engine = "off" /\ driver = 0
  /\ resetHook = FALSE /\ trap = "none" /\ subtune = -1
  /\ pc = "halted" /\ port = ResetPort /\ stacked = {} /\ banked = {}
  /\ driven = FALSE /\ age = 0

LoadTune(f) ==
  /\ file = NoFile
  /\ file' = f /\ tune' = Load(f)
  /\ UNCHANGED <<song, engine, driver, rom, pc, port, stacked, banked, unused>>

SelectSong(n) ==
  /\ tune.accepted /\ pc = "halted"
  /\ song' = Selected(tune, n)
  /\ UNCHANGED <<file, tune, engine, driver, rom, pc, port, stacked, banked, unused>>

(* load(0): the machine is left as it is, but no longer run.               *)
Unload ==
  /\ file # NoFile
  /\ file' = NoFile /\ tune' = NoTune /\ song' = NoSong
  /\ engine' = "off" /\ driver' = 0 /\ pc' = "halted"
  /\ port' = ResetPort /\ stacked' = {} /\ banked' = {} /\ driven' = FALSE /\ age' = 0
  /\ UNCHANGED rom

(* install(), for the ROMs: what the reset has left there and the patches  *)
(* of this tune; the one for BASIC holds the number of the song.           *)
Install(was) ==
  /\ resetHook' = TRUE
  /\ trap' = IF tune.compatibility = "BASIC" THEN "basic" ELSE "stop"
  /\ subtune' = IF tune.compatibility = "BASIC" THEN song.number - 1 ELSE was.subtune

(* The ROMs after MMU::reset().                                            *)
RomKept == [resetHook |-> resetHook, trap |-> trap, subtune |-> subtune]   \* as if it did not touch them
RomReset == [resetHook |-> FALSE, trap |-> "none", subtune |-> -1]

(* Player::initialise() after c64::reset(), ending with resetCpu(). The    *)
(* client has chosen a song.                                               *)
SetUp(t) ==
  IF t.load + t.len - 1 > 65535 THEN "size" ELSE IF DrvReloc(t) = 0 THEN "space" ELSE "running"

Initialise ==
  /\ tune.accepted /\ song # NoSong
  /\ engine' = SetUp(tune)
  /\ IF SetUp(tune) = "running"
     THEN /\ driver' = DrvReloc(tune) /\ pc' = "cold" /\ port' = ResetCpu(ResetPort)
          /\ Install(RomReset)
     ELSE /\ driver' = 0 /\ pc' = "halted" /\ port' = ResetPort
          /\ resetHook' = RomReset.resetHook /\ trap' = RomReset.trap
          /\ subtune' = RomReset.subtune
  /\ stacked' = {} /\ banked' = {} /\ driven' = FALSE /\ age' = 0
  /\ UNCHANGED <<file, tune, song>>

-----------------------------------------------------------------------------
(* The driver's program.                                                   *)

(* What the unused bit goes through when the port becomes p.               *)
Follow(p) ==
  /\ port' = p
  /\ driven' = IF "UNUSED" \in p.dir THEN "UNUSED" \in p.data
               ELSE IF "UNUSED" \in port.dir THEN "UNUSED" \in port.data ELSE driven
  /\ age' = IF "UNUSED" \in p.dir \union port.dir THEN 0 ELSE age

(* setiomap, with the call of the tune's init routine.                     *)
SetIomap ==
  /\ pc = "cold"
  /\ LET map == Iomap(tune, tune.init)
     IN  Follow(PokeData(port, IF map = Untouched THEN Bank ELSE map))
  /\ pc' = "init"
  /\ UNCHANGED <<file, tune, song, engine, driver, rom, stacked, banked>>

(* The init routine is back.                                               *)
InitReturns ==
  /\ pc = "init"
  /\ IF Iomap(tune, tune.init) # Untouched /\ Iomap(tune, tune.play) # Untouched
     THEN Follow(PokeData(port, Bank)) ELSE UNCHANGED <<port, unused>>
  /\ pc' = "idle"
  /\ UNCHANGED <<file, tune, song, engine, driver, rom, stacked, banked>>

(* irqjob, which the interrupt vector points to for a tune with a play     *)
(* routine.                                                                *)
IrqJobSwapped ==   \* as if the port were pushed after it was written
  /\ pc = "idle"
  /\ Iomap(tune, tune.init) # Untouched /\ Iomap(tune, tune.play) # Untouched
  /\ stacked' = DataRead(PokeData(port, Iomap(tune, tune.play)))
  /\ banked' = port.pla
  /\ Follow(PokeData(Peeked(port), Iomap(tune, tune.play)))
  /\ pc' = "play"
  /\ UNCHANGED <<file, tune, song, engine, driver, rom>>
IrqJob ==
  /\ pc = "idle"
  /\ Iomap(tune, tune.init) # Untouched /\ Iomap(tune, tune.play) # Untouched
  /\ stacked' = DataRead(port)
  /\ banked' = port.pla
  /\ Follow(PokeData(Peeked(port), Iomap(tune, tune.play)))
  /\ pc' = "play"
  /\ UNCHANGED <<file, tune, song, engine, driver, rom>>

PlayReturns ==
  /\ pc = "play"
  /\ Follow(PokeData(port, stacked))
  /\ pc' = "idle" /\ stacked' = {} /\ banked' = {}
  /\ UNCHANGED <<file, tune, song, engine, driver, rom>>

(* Code of the tune that uses the port, and the time that passes.          *)
Roams == file \in Wild /\ UNCHANGED <<file, tune, song, engine, driver, rom, pc, stacked, banked>>

TunePokesDir == pc = "init" /\ Roams /\ \E v \in DirValues : Follow(PokeDir(port, v))
TunePokesData == pc \in {"init", "play"} /\ Roams /\ \E v \in DataValues : Follow(PokeData(port, v))
TunePeeks == pc \in {"init", "play"} /\ Roams /\ Follow(Peeked(port))
Cycle ==
  /\ pc # "halted" /\ Roams
  /\ port' = Tick(port)
  /\ age' = IF "UNUSED" \in port.dir \/ age > FALL_OFF THEN age ELSE age + 1
  /\ UNCHANGED driven

Next ==
  \/ \E f \in Files : LoadTune(f)
  \/ \E n \in {0, 1, 2, 32, 33, 34, 256, 257} : SelectSong(n)
  \/ Unload \/ Initialise
  \/ SetIomap \/ InitReturns \/ IrqJob \/ PlayReturns
  \/ TunePokesDir \/ TunePokesData \/ TunePeeks \/ Cycle

Spec == Init /\ [][Next]_vars

-----------------------------------------------------------------------------
(* The states the program can be in.                                       *)
TypeOK ==
  /\ (file = NoFile \/ file \in File) /\ tune.accepted \in BOOLEAN
  /\ engine \in {"off", "size", "space", "running"}
  /\ driver \in {0} \union Blocks
  /\ resetHook \in BOOLEAN /\ subtune \in -1..255 /\ trap \in {"none", "basic", "stop"}
  /\ pc \in {"halted", "cold", "init", "idle", "play"}
  /\ port \in Port /\ stacked \subseteq Bit /\ banked \subseteq Bank
  /\ driven \in BOOLEAN /\ age \in 0..(FALL_OFF + 1)

(* Whatever numbers a header holds, the chosen song is one of the tune's,  *)
(* and its speed and clock come from the header (whose songs are counted). *)
SongPlays ==
  song # NoSong =>
    /\ song.number \in 1..tune.songs /\ tune.songs \in 1..MAX_SONGS
    /\ file.id \in {"PSID", "RSID"} /\ file.songs # 0 =>
         /\ song.clock = IF Extended(file) THEN file.clock ELSE "UNKNOWN"
         /\ LET bit == IF tune.compatibility = "PSID" THEN (song.number - 1) % 32
                       ELSE Least(song.number, 32) - 1
            IN  song.speed = "CIA_1A" <=> file.id = "RSID" \/ bit \in file.speed

(* A running tune does not overwrite the driver, unless its header claims  *)
(* a free area in its midst or it is a BASIC program below $0700; and none *)
(* is refused for lack of space while a page is free, but for one whose    *)
(* header says that none is.                                               *)
Claimed == tune.compatibility # "BASIC" /\ tune.relocPages # 0
Midst ==
  /\ tune.relocStartPage > Page(tune.load)
  /\ tune.relocStartPage + tune.relocPages - 1 < Page(tune.load + tune.len - 1)
DriverPlaced ==
  /\ engine = "running" /\ ~(Claimed /\ Midst) /\ ~(tune.compatibility = "BASIC" /\ tune.load < 1792) =>
       driver \notin TunePages(tune)
  /\ engine = "space" => tune.relocStartPage = 255 \/ Blocks \subseteq TunePages(tune)

(* When the driver calls the tune's init or play routine, the CPU sees the *)
(* memory that the tune was loaded into, not a ROM or the I/O area; a      *)
(* BASIC program is started in the ROM. (A tune may turn the bank bits     *)
(* into inputs: then it has its way.)                                      *)
Calls(addr) == ReadMap(port.pla, addr \div 4096) = "RAM"
CodeVisible ==
  [][Bank \subseteq port.dir =>
       /\ pc = "cold" /\ pc' = "init" =>
            IF tune.compatibility = "BASIC" THEN ReadMap(port'.pla, 11) = "BASIC"
            ELSE tune.init < 4096 \/ Calls(tune.init)'
       /\ pc = "idle" /\ pc' = "play" => tune.play < 4096 \/ Calls(tune.play)']_vars

(* The interrupt routine leaves the map as it was, although it reads the   *)
(* port and writes back what it has read.                                  *)
BankKept == [][pc = "play" /\ pc' = "idle" => port'.pla = banked]_vars

(* The unused bit reads as it was last driven, for FALL_OFF cycles after   *)
(* it became an input and not longer, whenever it is looked at.            *)
ChargeHolds ==
  pc # "halted" =>
    ("UNUSED" \in DataRead(port) <=> driven /\ ("UNUSED" \in port.dir \/ age <= FALL_OFF))

(* The ROMs hold the patches of the tune and of the song that run and of   *)
(* no other, whatever ran or failed before; when the set-up has failed     *)
(* they hold none.                                                         *)
HooksOfTune ==
  /\ engine = "running" =>
       /\ resetHook
       /\ trap = (IF tune.compatibility = "BASIC" THEN "basic" ELSE "stop")
       /\ subtune = IF tune.compatibility = "BASIC" THEN song.number - 1 ELSE -1
  /\ engine \in {"size", "space"} => ~resetHook /\ trap = "none" /\ subtune = -1

(* SidTuneBase.cpp, checkRelocInfo: "Check against load range" and "Check  *)
(* that the relocation information does not use the following memory       *)
(* areas: 0x0000-0x03FF, 0xA000-0xBFFF and 0xD000-0xFFFF".                 *)
RelocInfoChecked ==
  tune.accepted /\ tune.relocPages # 0 =>
    tune.relocStartPage..(tune.relocStartPage + tune.relocPages - 1) \subseteq Blocks \ TunePages(tune)
=============================================================================

-------------------------------- MODULE Tune --------------------------------
(***************************************************************************)
(* What a file says of its tune and which files are accepted               *)
(* (src/sidtune): the headers of PSID and RSID, the fixed values of MUS    *)
(* and of BASIC programs, and the checks of SidTuneBase. Addresses, pages  *)
(* and lengths are the real numbers; texts are left out.                   *)
(***************************************************************************)
EXTENDS Integers, Sequences

Byte == 0..255
Word == 0..65535

Page(addr) == addr \div 256
MAX_SONGS == 256
MAX_MEMORY == 65536
SIDTUNE_R64_MIN_LOAD_ADDR == 2024      \* $07e8

(* A file, as far as it matters. "speed" is the set of the bits that are   *)
(* set of 32, "fileLoad" the two bytes before the data, "len" the length   *)
(* of the data with these two bytes where they belong to them.             *)
File ==
  [id : {"PSID", "RSID", "MUS", "PRG"}, version : 0..9,
   load : Word, init : Word, play : Word,
   songs : Word, start : Word, speed : SUBSET (0..31),
   mus : BOOLEAN, specific : BOOLEAN, clock : {"UNKNOWN", "PAL", "NTSC", "ANY"},
   relocStartPage : Byte, relocPages : Byte, chip2 : Byte, chip3 : Byte,
   fileLoad : Word, len : Nat, stereo : BOOLEAN]

NoTune == [accepted |-> FALSE]

-----------------------------------------------------------------------------
(* PSID and RSID.                                                          *)

Extended(h) == h.version >= 2

SupportedVersion(h) == h.version \in (IF h.id = "PSID" THEN 1..4 ELSE 2..4)

Reserved(h) == h.id = "RSID" => h.load = 0 /\ h.play = 0 /\ h.speed = {}

Compatibility(h) ==
  CASE h.id = "PSID" -> IF ~Extended(h) \/ h.specific THEN "PSID" ELSE "C64"
    [] h.id = "RSID" -> IF h.specific THEN "BASIC" ELSE "R64"

(* Pages of the I/O area where a further chip may be, by bits 4 to 11 of   *)
(* its address.                                                            *)
ValidateAddress(a) == a % 2 = 0 /\ a \notin 0..65 \union 128..223

SidChip(a) == 53248 + 16 * a

Chips(h) ==
  LET second == IF h.version >= 3 /\ ValidateAddress(h.chip2) THEN <<SidChip(h.chip2)>> ELSE <<>>
      third  == IF h.version >= 4 /\ h.chip3 # h.chip2 /\ ValidateAddress(h.chip3)
                THEN <<SidChip(h.chip3)>> ELSE <<>>
  IN  <<54272>> \o second \o third

(* The speed and the clock are tabulated for the songs that the header     *)
(* counts, the others keep the defaults.                                   *)
Least(a, b) == IF a < b THEN a ELSE b
TryLoad(h) ==
  [accepted |-> TRUE, format |-> h.id, load |-> h.load, init |-> h.init, play |-> h.play,
   songs |-> h.songs, startSong |-> h.start, compatibility |-> Compatibility(h),
   relocStartPage |-> IF Extended(h) THEN h.relocStartPage ELSE 0,
   relocPages |-> IF Extended(h) THEN h.relocPages ELSE 0,
   speed |-> IF h.id = "RSID" THEN 0..31 ELSE h.speed,
   clock |-> IF Extended(h) THEN h.clock ELSE "UNKNOWN",
   tabulated |-> Least(h.songs, MAX_SONGS),
   chips |-> Chips(h), len |-> h.len]

-----------------------------------------------------------------------------
(* The other formats.                                                      *)

(* The data of a MUS file lies below its player, which is installed with   *)
(* it; the file's first two bytes stay in front of the data.               *)
SIDTUNE_MUS_DATA_ADDR == 2304          \* $0900
Player1 == 57344                       \* $e000
MergeFits(h) == h.len - 4 <= Player1 - SIDTUNE_MUS_DATA_ADDR

LoadMus(h) ==
  [accepted |-> TRUE, format |-> "MUS", load |-> SIDTUNE_MUS_DATA_ADDR,
   init |-> IF h.stereo THEN 64656 ELSE 60512, play |-> IF h.stereo THEN 64662 ELSE 60544,
   songs |-> 1, startSong |-> 1, compatibility |-> "C64",
   relocStartPage |-> 0, relocPages |-> 0,
   speed |-> 0..31, clock |-> "ANY", tabulated |-> 1,
   chips |-> IF h.stereo THEN <<54272, 54528>> ELSE <<54272>>, len |-> h.len]

LoadPrg(h) ==
  [accepted |-> TRUE, format |-> "PRG", load |-> 0, init |-> 0, play |-> 0,
   songs |-> 1, startSong |-> 1, compatibility |-> "BASIC",
   relocStartPage |-> 0, relocPages |-> 0,
   speed |-> 0..31, clock |-> "UNKNOWN", tabulated |-> 1, chips |-> <<54272>>, len |-> h.len]

-----------------------------------------------------------------------------
(* acceptSidTune().                                                        *)

FixSongs(t) ==
  LET songs == IF t.songs > MAX_SONGS THEN MAX_SONGS ELSE IF t.songs = 0 THEN 1 ELSE t.songs
  IN  [t EXCEPT !.songs = songs, !.startSong = IF @ \in 1..songs THEN @ ELSE 1]

ResolveAddrs(t, fileLoad) ==
  LET inFile == t.load = 0
      load   == IF inFile THEN fileLoad ELSE t.load
  IN  [t EXCEPT !.play = IF @ = 65535 THEN 0 ELSE @,
                !.load = load,
                !.len = IF inFile THEN @ - 2 ELSE @,
                !.init = IF @ = 0 /\ t.compatibility # "BASIC" THEN load ELSE @]

ResolvableAddrs(t) == (t.load = 0 => t.len >= 2) /\ (t.compatibility = "BASIC" => t.init = 0)

FixReloc(t) ==
  CASE t.relocStartPage = 255 -> [t EXCEPT !.relocPages = 0]
    [] t.relocStartPage # 255 /\ t.relocPages = 0 -> [t EXCEPT !.relocStartPage = 0]
    [] OTHER -> t

BasicRom == 160..191                   \* pages $a0 to $bf
CheckRelocInfoNoLoad(t) ==  \* as if the load range were not looked at
  t.relocStartPage # 255 /\ t.relocPages # 0 =>
    LET startp == t.relocStartPage
        endp   == (startp + t.relocPages - 1) % 256
    IN  /\ endp >= startp /\ startp >= 4
        /\ startp \notin BasicRom /\ startp < 208 /\ endp \notin BasicRom /\ endp < 208
CheckRelocInfo(t) ==
  t.relocStartPage # 255 /\ t.relocPages # 0 =>
    LET startp  == t.relocStartPage
        endp    == (startp + t.relocPages - 1) % 256
        startlp == Page(t.load)
        endlp   == (startlp + Page(t.len - 1)) % 256
    IN  /\ endp >= startp
        /\ startlp \notin startp..endp /\ endlp \notin startp..endp
        /\ startp >= 4 /\ startp \notin BasicRom /\ startp < 208
        /\ endp \notin BasicRom /\ endp < 208

(* A tune for the real machine starts in memory that it has loaded and     *)
(* that is not below a ROM or the I/O area.                                *)
CheckCompatibility(t) ==
  t.compatibility = "R64" =>
    /\ t.init \div 4096 \notin {10, 11, 13, 14, 15}
    /\ t.init \in t.load..(t.load + t.len - 1)
    /\ t.load >= SIDTUNE_R64_MIN_LOAD_ADDR

AcceptSidTune(t, fileLoad) ==
  LET fixed == FixReloc(ResolveAddrs(FixSongs(t), fileLoad))
  IN  IF /\ ResolvableAddrs(t)
         /\ CheckRelocInfo(fixed) /\ CheckCompatibility(fixed)
         /\ fixed.len \in 1..MAX_MEMORY
      THEN fixed ELSE NoTune

(* SidTune::load() and read().                                             *)
Load(h) ==
  CASE h.id \in {"PSID", "RSID"} ->
         IF SupportedVersion(h) /\ Reserved(h) /\ ~(Extended(h) /\ h.mus)
         THEN AcceptSidTune(TryLoad(h), h.fileLoad) ELSE NoTune
    [] h.id = "MUS" -> IF MergeFits(h) THEN AcceptSidTune(LoadMus(h), h.fileLoad) ELSE NoTune
    [] h.id = "PRG" -> AcceptSidTune(LoadPrg(h), h.fileLoad)

-----------------------------------------------------------------------------
(* selectSong(): the song, its speed and its clock.                        *)

TabulatedSpeedAll(t, i) ==   \* as if songs after the 32nd had bits of their own
  IF i < t.tabulated /\ i \in t.speed THEN "CIA_1A" ELSE "VBI"
TabulatedSpeed(t, i) ==      \* the table m_songSpeed
  IF i < t.tabulated /\ Least(i, 31) \in t.speed THEN "CIA_1A" ELSE "VBI"

Selected(t, n) ==
  LET song == IF n = 0 \/ n > t.songs THEN t.startSong ELSE n
  IN  [number |-> song,
       speed |-> CASE t.compatibility = "R64" -> "CIA_1A"
                   [] t.compatibility = "PSID" -> TabulatedSpeed(t, (song - 1) % 32)
                   [] OTHER -> TabulatedSpeed(t, song - 1),
       clock |-> IF song <= t.tabulated THEN t.clock ELSE "UNKNOWN"]
=============================================================================

------------------------------- MODULE Loader -------------------------------
(***************************************************************************)
(* How a SidTune object finds out what is in a file, and which other file  *)
(* belongs to it (src/sidtune: SidTuneBase, MUS, p00, prg;                 *)
(* sidplayfp/SidTune.cpp). Module Tune says what the headers mean and      *)
(* which numbers are accepted; here a file of a format is "ok" or not.     *)
(*                                                                         *)
(* The files beside each other have one name and different extensions, so  *)
(* an extension stands for a name, and a folder is a function of them.     *)
(***************************************************************************)
EXTENDS Integers, Sequences, FiniteSets, FiniteSetsExt, SequencesExt

CONSTANTS
  Folders,   \* functions of extensions to the contents of files
  Buffers,   \* contents that are read from memory
  Loaders    \* of "loadFile" and "callback", who reads the files

(* Contents: the format, whether its header is good, the length in bytes,  *)
(* and where a second MUS file starts within the first, 0 for nowhere.     *)
Missing == [format |-> "none", ok |-> FALSE, size |-> 0, inside |-> 0]

fileNameExtensions ==
  <<"sid", "SID", "c64", "prg", "p00", "C64", "PRG", "P00", "str", "STR", "mus", "MUS">>

Lower(ext) ==
  CASE ext = "SID" -> "sid" [] ext = "C64" -> "c64" [] ext = "PRG" -> "prg"
    [] ext = "P00" -> "p00" [] ext = "STR" -> "str" [] ext = "MUS" -> "mus" [] OTHER -> ext

MAX_FILELEN == 65536 + 2 + 124
SIDTUNE_MUS_DATA_ADDR == 2304   \* $0900
Player1 == 57344                \* $e000

VARIABLES
  folder, loader,
  fileName,   \* what was opened last, "" for a buffer or for nothing
  object,     \* what the SidTune points to: a tune, nothing, or a deleted one
  status

vars == <<folder, loader, fileName, object, status>>

(* What a format makes of a file; the others are tunes.                    *)
Unknown == [format |-> "unknown"]
Error == [format |-> "error"]
NoTune == [format |-> "none"]
Deleted == [format |-> "deleted"]
Tune(format, data, musDataLen) == [format |-> format, data |-> data, musDataLen |-> musDataLen]

-----------------------------------------------------------------------------
(* The formats.                                                            *)

PSID(file) ==
  IF file.format # "PSID" THEN Unknown
  ELSE IF file.ok THEN Tune("PSID", <<file>>, 0) ELSE Error

(* detect() looks for the ends of three voices: "ok" are MUS data with     *)
(* them, the others are of no format. The second of two files counts even  *)
(* if the first one has another inside.                                    *)
Detect(file) == file.format = "MUS" /\ file.ok
MUS(first, second) ==
  IF ~Detect(first) THEN Unknown
  ELSE IF \/ second.size # 0 /\ ~Detect(second)
          \/ first.size + second.size - 4 > Player1 - SIDTUNE_MUS_DATA_ADDR
       THEN Error
  ELSE IF second.size # 0 THEN Tune("MUS", <<first, second>>, first.size)
  ELSE Tune("MUS", <<first>>, IF first.inside # 0 THEN first.inside ELSE first.size)

(* A tape image has the extension of its type, and is a program or refused; *)
(* so is one with nothing behind its load address (acceptSidTune).         *)
p00(ext, file) ==
  IF Lower(ext) \notin {"d00", "s00", "p00", "u00", "r00"} \/ file.format # "X00" THEN Unknown
  ELSE IF Lower(ext) # "p00" \/ file.size <= 28 THEN Error
  ELSE Tune("P00", <<file>>, 0)

prg(ext, file) ==
  IF Lower(ext) \notin {"prg", "c64"} THEN Unknown
  ELSE IF file.size <= 2 THEN Error ELSE Tune("PRG", <<file>>, 0)

(* The second chip of a stereo tune, and the address its player is given   *)
(* for the lengths of its voices.                                          *)
Stereo(t) == Len(t.data) = 2 \/ t.data[1].inside # 0
PlayerData(t) == SIDTUNE_MUS_DATA_ADDR + t.musDataLen + 2

-----------------------------------------------------------------------------
(* The search.                                                             *)

(* A file that is not there makes loadFile() throw; a callback of the      *)
(* client's cannot throw what is caught and leaves the buffer empty.       *)
Contents(ext) == IF ext \in DOMAIN folder THEN folder[ext] ELSE Missing
Readable(ext) == loader = "callback" \/ Contents(ext).size > 0

(* The two files in the order of the chips: ".mus" is always the first.    *)
PairAsNamed(ext, other) == MUS(Contents(ext), Contents(other))
Pair(ext, other) ==
  IF Lower(other) = "mus" THEN MUS(Contents(other), Contents(ext))
  ELSE MUS(Contents(ext), Contents(other))

Companions(ext) ==
  {n \in DOMAIN fileNameExtensions :
     LET other == fileNameExtensions[n]
     IN  Lower(other) # Lower(ext) /\ Readable(other) /\ Pair(ext, other) \notin {Unknown, Error}}

(* Errors of a second file are ignored, the first loads on its own.        *)
FromMus(ext) ==
  IF Companions(ext) = {} THEN MUS(Contents(ext), Missing)
  ELSE Pair(ext, fileNameExtensions[Min(Companions(ext))])

FirstOf(candidates) ==
  LET hits == {n \in DOMAIN candidates : candidates[n] # Unknown}
  IN  IF hits = {} THEN Error ELSE candidates[Min(hits)]

GetFromFiles(ext) ==
  IF ~Readable(ext) THEN Error
  ELSE LET file == Contents(ext)
           mus  == MUS(file, Missing)
       IN  FirstOf(<<PSID(file), IF mus \in {Unknown, Error} THEN mus ELSE FromMus(ext),
                     p00(ext, file), prg(ext, file)>>)

(* A name without a dot has no place for another one: the search    *)
(* ends with an exception that load() does not catch.                      *)
Escapes(ext) ==
  /\ ext = "" /\ Readable(ext)
  /\ PSID(Contents(ext)) = Unknown /\ MUS(Contents(ext), Missing) \notin {Unknown, Error}

GetFromBuffer(file) ==
  IF file.size \notin 1..MAX_FILELEN THEN Error ELSE FirstOf(<<PSID(file), MUS(file, Missing)>>)

-----------------------------------------------------------------------------
(* The object. load() deletes the tune it had before it looks for another. *)

Init ==
  /\ folder \in Folders /\ loader \in Loaders
  /\ fileName = "" /\ object = NoTune /\ status = TRUE

Becomes(result) ==
  /\ object' = IF result = Error THEN NoTune ELSE result
  /\ status' = (result # Error)

Load(ext) ==
  /\ object # Deleted
  /\ fileName' = ext
  /\ IF Escapes(ext) THEN object' = Deleted /\ UNCHANGED status ELSE Becomes(GetFromFiles(ext))
  /\ UNCHANGED <<folder, loader>>

LoadNothing ==
  /\ object # Deleted
  /\ fileName' = "" /\ Becomes(NoTune)
  /\ UNCHANGED <<folder, loader>>

Read(file) ==
  /\ object # Deleted
  /\ fileName' = "" /\ Becomes(GetFromBuffer(file))
  /\ UNCHANGED <<folder, loader>>

(* What can be done with an object whose tune is deleted is to forget it.  *)
NewObject ==
  /\ object = Deleted
  /\ fileName' = "" /\ object' = NoTune /\ status' = TRUE
  /\ UNCHANGED <<folder, loader>>

Next ==
  \/ \E ext \in ToSet(fileNameExtensions) \union {"", "r00"} : Load(ext)
  \/ LoadNothing
  \/ \E file \in Buffers : Read(file)
  \/ NewObject

-----------------------------------------------------------------------------
(* A MUS file that loads alone is never refused for what lies beside it.   *)
(* Of x.mus and x.str, whichever is named, the first plays on the first    *)
(* chip and the other on the second, unless a file of another extension    *)
(* comes before; and the second player finds the second data, which lie    *)
(* behind the first in memory.                                             *)
MusAlone(ext) == MUS(Contents(ext), Missing) \notin {Unknown, Error}
PairPlays ==
  LET both == {"mus", "str"} \subseteq DOMAIN folder
        /\ MUS(Contents("mus"), Contents("str")) \notin {Unknown, Error}
        /\ \A ext \in DOMAIN folder \ {"mus", "str"} : ~Detect(Contents(ext))
  IN  /\ fileName # "" /\ MusAlone(fileName) /\ object # Deleted => status /\ object.format = "MUS"
      /\ fileName \in {"mus", "str"} /\ both /\ loader = "loadFile" =>
           IF MusAlone(fileName) THEN object.data = <<Contents("mus"), Contents("str")>> ELSE ~status
      /\ object.format = "MUS" /\ Stereo(object) =>
           LET second == SIDTUNE_MUS_DATA_ADDR
                 + (IF Len(object.data) = 2 THEN object.data[1].size ELSE object.data[1].inside)
           IN  PlayerData(object) = second + 2
=============================================================================

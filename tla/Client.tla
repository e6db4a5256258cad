------------------------------- MODULE Client -------------------------------
(***************************************************************************)
(* What a client of the library has: the engine (Player) and the object    *)
(* that searches a tune's files (Loader). They share no state; what a file *)
(* holds for the engine is in Tunes, whatever file it came from.           *)
(***************************************************************************)
EXTENDS Player

CONSTANTS Folders, Buffers, Loaders

VARIABLES folder, loader, fileName, object, status

search == <<folder, loader, fileName, object, status>>

Search == INSTANCE Loader

Content ==
  [format : {"MUS", "PSID", "X00", "data", "none"}, ok : BOOLEAN, size : Nat, inside : Nat]

(* An empty file cannot be opened, so it is not in the folder.             *)
ASSUME FilesAssumption ==
  /\ \A f \in Folders : \A ext \in DOMAIN f : f[ext] \in Content /\ f[ext].size > 0
  /\ Buffers \subseteq Content

-----------------------------------------------------------------------------
ClientInit == Init /\ Search!Init

PlayerStep == Next /\ UNCHANGED search
SearchStep == Search!Next /\ UNCHANGED vars

ClientNext == PlayerStep \/ SearchStep

ClientSpec == ClientInit /\ [][ClientNext]_<<vars, search>>

-----------------------------------------------------------------------------
(* Of two files the first plays first, whichever is named: see             *)
(* Loader.PairPlays.                                                       *)
PairPlays == Search!PairPlays
=============================================================================

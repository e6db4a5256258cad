------------------------------ MODULE MCPlayer ------------------------------
(* Two builders, storage for four emulations, and the tunes and            *)
(* configurations that differ in what the engine tells apart: extra SIDs   *)
(* in the SID's own pages, in a page that was open, twice in one slot and  *)
(* where none may be; clocks that the tune knows, leaves open and that     *)
(* are overruled.                                                          *)
(*                                                                         *)
(* And, as a part of its own, the client's other object, with the search   *)
(* for the files of a tune in folders of two files that may belong         *)
(* together and a third.                                                   *)
EXTENDS Client, TLC

VARIABLE part

d420 == <<4, 1>>
d500 == <<5, 0>>
d800 == <<8, 0>>
de00 == <<14, 0>>

Tune(second, third, clock, models, fault) ==
  [second |-> second, third |-> third, clock |-> clock, sids |-> models, fault |-> fault]
MCDefault ==
  [rate |-> "ok", second |-> None, builder |-> None, third |-> None,
   model |-> "PAL", force |-> FALSE, sid |-> "6581", forceSid |-> FALSE]

MCTunes ==
  {Tune(None, None, "NTSC", <<"ANY">>, "none"),
   Tune(d420, None, "ANY", <<"8580", "UNKNOWN">>, "none"),
   Tune(d420, de00, "PAL", <<"6581", "8580", "UNKNOWN">>, "none"),
   Tune(d420, None, "NTSC", <<>>, "place")}

MCConfigs ==
  {[MCDefault EXCEPT !.second = a[1], !.third = a[2], !.model = a[3], !.force = a[4],
                     !.sid = a[5], !.forceSid = a[6], !.builder = b] :
     a \in {<<None, None, "PAL", FALSE, "6581", FALSE>>, <<d800, None, "NTSC", TRUE, "8580", FALSE>>,
            <<None, d420, "OLD_NTSC", TRUE, "8580", TRUE>>},
     b \in Builders \union {None}}
  \union {[MCDefault EXCEPT !.rate = "bad"]}

Interchangeable == Permutations(Builders)
-----------------------------------------------------------------------------
File(format, ok, size, inside) ==
  [format |-> format, ok |-> ok, size |-> size, inside |-> inside]
NoContent == File("none", FALSE, 0, 0)
MusFiles ==
  {File("MUS", TRUE, 1000, 0), File("MUS", TRUE, 1200, 700), File("MUS", TRUE, 54100, 0),
   File("MUS", TRUE, 55044, 0), File("MUS", TRUE, 55045, 0), File("MUS", FALSE, 900, 0)}
OtherFiles ==
  {File("PSID", TRUE, 600, 0), File("PSID", FALSE, 600, 0), File("X00", TRUE, 28, 0),
   File("X00", TRUE, 29, 0), File("data", TRUE, 2, 0), File("data", TRUE, 3, 0)}
Thirds ==
  {<<"sid", c>> : c \in {f \in OtherFiles : f.format = "PSID"}}
  \union {<<e, c>> : e \in {"p00", "r00"}, c \in {f \in OtherFiles : f.format = "X00"}}
  \union {<<e, c>> : e \in {"PRG", "p00"}, c \in {f \in OtherFiles : f.format = "data"}}
  \union {<<e, c>> : e \in {"", "sid", "MUS", "prg"}, c \in {f \in MusFiles : f.size < 2000}}

Without(f) == [ext \in {e \in DOMAIN f : f[e] # NoContent} |-> f[ext]]
MCFolders ==
  {Without(("mus" :> m) @@ ("str" :> s) @@ (t[1] :> t[2])) :
     m \in MusFiles \union {NoContent}, s \in MusFiles \union {NoContent, File("data", TRUE, 3, 0)},
     t \in Thirds}

MCBuffers == MusFiles \union OtherFiles \union {NoContent, File("PSID", TRUE, 65663, 0)}
-----------------------------------------------------------------------------
\* A run is of one of the two; the search then has no files.
MCInit ==
  /\ Init
  /\ \/ part = "files" /\ Search!Init
     \/ /\ part = "player"
        /\ folder = <<>> /\ loader = "loadFile" /\ fileName = ""
        /\ object = Search!NoTune /\ status = TRUE

MCNext ==
  /\ UNCHANGED part
  /\ \/ part = "player" /\ PlayerStep
     \/ part = "files" /\ SearchStep

MCSpec == MCInit /\ [][MCNext]_<<part, vars, search>>
=============================================================================

------------------------------ MODULE MCDriver ------------------------------
(***************************************************************************)
(* Driver for TLC: families of files around the boundaries of the checks.  *)
(***************************************************************************)
EXTENDS DriverImage

Plain ==
  [id |-> "PSID", version |-> 2, load |-> 4096, init |-> 4096, play |-> 4099,
   songs |-> 1, start |-> 1, speed |-> {}, mus |-> FALSE, specific |-> FALSE, clock |-> "PAL",
   relocStartPage |-> 0, relocPages |-> 0, chip2 |-> 0, chip3 |-> 0,
   fileLoad |-> 4096, len |-> 512, stereo |-> FALSE]
PlainR64 == [Plain EXCEPT !.id = "RSID", !.load = 0, !.play = 0]

(* Where the data is and which pages the header claims.                    *)
Loads == {1024, 1792, 2023, 2024, 4096, 40704, 40960, 49152, 53248, 57344}
Lens == {1, 3, 258, 4096, 8192, 49152, 52226, 65535}
Placed ==
  {[f EXCEPT !.fileLoad = l, !.load = IF inFile \/ @ = 0 THEN 0 ELSE l, !.init = 0, !.len = n,
             !.specific = s, !.relocStartPage = r[1], !.relocPages = r[2]] :
      f \in {Plain, PlainR64}, l \in Loads, inFile \in BOOLEAN, n \in Lens, s \in BOOLEAN,
      r \in {<<0, 0>>, <<0, 4>>, <<255, 1>>, <<4, 1>>, <<3, 2>>, <<16, 0>>, <<16, 1>>,
             <<17, 32>>, <<15, 1>>, <<192, 16>>, <<192, 17>>, <<144, 80>>, <<207, 50>>}}

(* Where its routines are.                                                 *)
Called ==
  {[f EXCEPT !.init = i, !.play = IF f.id = "RSID" THEN 0 ELSE p, !.len = 61440, !.specific = s] :
      f \in {Plain, PlainR64}, s \in BOOLEAN,
      i \in {0, 4096, 40959, 40960, 53247, 53248, 57343, 57344, 65535},
      p \in {0, 4099, 40959, 40960, 53247, 53248, 57343, 57344, 65534, 65535}}

(* Its songs.                                                              *)
Sung ==
  {[Plain EXCEPT !.id = d, !.load = IF d = "RSID" THEN 0 ELSE @, !.play = IF d = "RSID" THEN 0 ELSE @,
                 !.songs = n, !.start = k, !.version = v, !.specific = s, !.speed = b, !.clock = c] :
      d \in {"PSID", "RSID"}, n \in {0, 1, 2, 33, 256, 257}, k \in {0, 1, 2, 33, 300},
      v \in {0, 1, 2, 5}, s \in BOOLEAN, b \in {{}, {1}, {0, 31}}, c \in {"PAL", "NTSC"}}

(* Its chips.                                                              *)
Chipped ==
  {[Plain EXCEPT !.version = v, !.chip2 = a, !.chip3 = b] :
      v \in 2..4, a \in {0, 64, 66, 67, 80, 126, 128, 224, 254}, b \in {0, 64, 66, 67, 80, 126, 128, 224, 254}}

Other ==
  {[Plain EXCEPT !.id = d, !.fileLoad = l, !.len = n, !.stereo = st, !.mus = m] :
      d \in {"MUS", "PRG", "PSID"}, l \in {2049, 4096, 57344}, n \in {2, 64, 40000, 65000},
      st \in BOOLEAN, m \in BOOLEAN}

Plays == [Plain EXCEPT !.init = 4100, !.play = 40960, !.len = 40960]
MCFiles == UNION {Placed, Called, Sung, Chipped, Other, {Plays}}
MCWild == {Plays}
MCDirValues == {Bank, {"HIRAM", "CHAREN"}, {}, Bit}
MCDataValues == {Bank, {"LORAM", "CHAREN"}, {}, {"HIRAM", "UNUSED"}}
=============================================================================

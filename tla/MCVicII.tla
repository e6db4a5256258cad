------------------------------ MODULE MCVicII ------------------------------
(* The chip: frames of four lines, of which two may be bad, with rows of   *)
(* two lines; the cycles of a line are the real ones. The sprites of the   *)
(* three chips are chosen so that each is fetched in one of them, some     *)
(* neighbours and some apart, and in both halves of the wrapping line.     *)
(*                                                                         *)
(* The sprite: its numbers are small enough to be checked as they are. A   *)
(* run is of the chip or of the sprite, and the one that is not running    *)
(* stays at its first state.                                               *)
EXTENDS Video

Bus(clock, sprites) ==
  [clock |-> clock, maxRasters |-> 4, sprites |-> sprites, compares |-> {7},
   accesses |-> {"read", "control"}]
Irq(accesses) ==
  [clock |-> "PAL", maxRasters |-> 4, sprites |-> {}, compares |-> {0, 3},
   accesses |-> accesses]

Chips == {Bus("PAL", {0, 1, 4}), Bus("NTSC", {2, 3, 5}), Bus("OLD_NTSC", {0, 6, 7}),
          Irq({"compare", "flags", "mask"}), Irq({"flags", "mask", "lightpen"})}

RunsChip == visit = 0
Rest ==
  /\ model = "PAL" /\ visit = 0 /\ mc_base = 0 /\ mc = 0 /\ lines = 0 /\ height = 0
  /\ enable = FALSE /\ y_expansion = FALSE /\ exp_flop = FALSE /\ dma = FALSE
  /\ plain = FALSE /\ late = FALSE
MCInit ==
  \/ Init /\ Rest
  \/ Init /\ setup = Irq({"compare", "flags", "mask"}) /\ Sprite!Init

MCNext ==
  \/ RunsChip /\ Next /\ UNCHANGED sprite
  \/ ~RunsChip /\ Sprite!Next /\ UNCHANGED vars

MCSpec == MCInit /\ [][MCNext]_<<vars, sprite>>
=============================================================================

------------------------------- MODULE Video -------------------------------
(* The VIC, and one of its sprites on its own. VicII lets a sprite begin   *)
(* and end its DMA whenever Sprites might, so that the two need not be run *)
(* in step: here each takes its steps in any order.                        *)
EXTENDS VicII

VARIABLES model, visit, enable, y_expansion, exp_flop, dma, mc_base, mc, lines, plain, late, height

sprite == <<model, visit, enable, y_expansion, exp_flop, dma, mc_base, mc, lines, plain, late, height>>

Sprite == INSTANCE Sprites WITH Models <- {"PAL", "NTSC"}, Model <- model

VideoInit == Init /\ Sprite!Init

VideoNext == (Next /\ UNCHANGED sprite) \/ (Sprite!Next /\ UNCHANGED vars)

VideoSpec == VideoInit /\ [][VideoNext]_<<vars, sprite>>

-----------------------------------------------------------------------------
(* A sprite whose registers are left alone has its 21 or 42 lines: see     *)
(* Sprites.SpriteHeight.                                                   *)
SpriteHeight == Sprite!SpriteHeight

(* Whatever a program crunches, a sprite's fetching ends: see              *)
(* Sprites.FetchingEnds.                                                   *)
FetchingEnds == Sprite!FetchingEnds
=============================================================================

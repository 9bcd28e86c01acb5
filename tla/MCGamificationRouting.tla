----------------------- MODULE MCGamificationRouting -----------------------
(* A small instance of GamificationRouting.                                *)
EXTENDS GamificationRouting, TLC

MCEvents == 1..2
MCCutoffs == 1..2
=============================================================================

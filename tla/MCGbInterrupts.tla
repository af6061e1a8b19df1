---------------------------- MODULE MCGbInterrupts ----------------------------
(***************************************************************************)
(* GbInterrupts for TLC, with the three sources VBlank, STAT and timer.    *)
(***************************************************************************)
EXTENDS GbInterrupts

MCSources == 0..2
=============================================================================

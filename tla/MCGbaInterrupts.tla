---------------------------- MODULE MCGbaInterrupts ----------------------------
(* Two sources (VBlank is bit 0): the fewest that have a priority and a    *)
(* wait mask that leaves one out.                                          *)
EXTENDS GbaInterrupts

MCSources == {0, 1}
=============================================================================

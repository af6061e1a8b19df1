------------------------------- MODULE MCGbLcd -------------------------------
(***************************************************************************)
(* GbLcd for TLC: lines of ten units, three visible lines of five, steps   *)
(* of one and two units.  Two units stay below the shortest mode, three,   *)
(* and cross every boundary both exactly and with a remainder.             *)
(***************************************************************************)
EXTENDS GbLcd

MCSteps == {1, 2}
MCLycs == {0, 1}
=============================================================================

------------------------------ MODULE MCGbTimer ------------------------------
(***************************************************************************)
(* GbTimer for TLC: the ten divider bits the timer can look at, a TIMA of  *)
(* three values, and instructions of one, two and three machine cycles.    *)
(***************************************************************************)
EXTENDS GbTimer

MCDivModulus == 1024
MCTimaMax == 2
MCInstrCycles == {4, 8, 12}
=============================================================================

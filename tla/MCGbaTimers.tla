----------------------------- MODULE MCGbaTimers -----------------------------
(***************************************************************************)
(* GbaTimers for TLC: two timers that overflow at 3, on a prescaler of 2   *)
(* or on the timer below, and rounds of one and five cycles.  Five cycles  *)
(* with a reload of 2 overflow a timer more than once, and cascade the     *)
(* second timer too.                                                       *)
(***************************************************************************)
EXTENDS GbaTimers

MCPrescale == <<1, 2>>
Mode(up, scale) == [enable |-> TRUE, up |-> up, irq |-> TRUE, scale |-> scale]
MCControls == {Stopped, Mode(FALSE, 2), Mode(TRUE, 1)}
MCData == {2}
MCCycles == {1, 5}
=============================================================================

---------------------------- MODULE EmulatorCore ----------------------------
(***************************************************************************)
(* The emulator as its frontends see it (core/core.cpp): one object that   *)
(* holds a GB/GBC machine and a GBA machine and sends every call to the    *)
(* one its system_ names.  The operators take and return that object, a    *)
(* record; a machine is the game it runs, its save RAM, the buttons it was *)
(* last told of and whether its CPU has faulted.                           *)
(***************************************************************************)
EXTENDS Integers

CONSTANTS Games, SystemOf, \* game to "gb", "gbc" or "gba"
          Batteries,       \* the games whose cartridge has a battery and RAM
          NoFile,          \* what reading a file that is not there gives
          MaxVersion       \* bound: how often a game may change its RAM

Systems == {"gb", "gbc", "gba"}
ASSUME SystemAssumption == SystemOf \in [Games -> Systems]
NoGame == "no game"
ASSUME GamesAssumption == Batteries \subseteq Games /\ NoGame \notin Games

Image(g, n) == [of |-> g, version |-> n]
Blank(g) == [game |-> g, ram |-> Image(g, 0), pad |-> {}, fault |-> FALSE]
NewCore == [system |-> "gb", machines |-> [side \in {"gb", "gba"} |-> Blank(NoGame)]]

Side(system) == IF system = "gba" THEN "gba" ELSE "gb"
Machine(c) == c.machines[Side(c.system)]
WithMachine(c, m) == [c EXCEPT !.machines[Side(c.system)] = m]

SetSystem(c, system) == [c EXCEPT !.system = system]
LoadRom(c, g) == WithMachine(c, Blank(g))
HasBattery(c) == Machine(c).game \in Batteries
LoadRamData(c, image) == WithMachine(c, [Machine(c) EXCEPT !.ram = image])
SetJoypadState(c, buttons) == WithMachine(c, [Machine(c) EXCEPT !.pad = buttons])

(* The types, by the sets of buttons a machine may be told of.              *)
Owners == Games \union {NoGame}
Images == [of : Owners, version : Nat]
MachinesWith(pads) == [game : Owners, ram : Images, pad : pads, fault : BOOLEAN]
CoresWith(pads) == [system : Systems, machines : [{"gb", "gba"} -> MachinesWith(pads)]]
StatesWith(pads) == [system : Systems, machine : MachinesWith(pads)]

(* The frames that may follow: the program may store into its RAM, and its  *)
(* CPU may fault; a machine that has faulted no longer steps.               *)
StepFrame(c) ==
  LET m == Machine(c)
      stores == {m.ram} \union
                  IF HasBattery(c) /\ m.ram.version < MaxVersion
                  THEN {Image(m.ram.of, m.ram.version + 1)} ELSE {}
  IN  IF m.fault THEN {c}
      ELSE {WithMachine(c, [m EXCEPT !.ram = o.ram, !.fault = o.fault]) : o \in [ram : stores, fault : BOOLEAN]}

(* A save state holds the machine and its system; loading it asks for the   *)
(* same system, not for the same game.  The GB CPU takes a fault away then, *)
(* the GBA CPU has its fault in the state.                                  *)
SaveState(c) == [system |-> c.system, machine |-> Machine(c)]
CanLoadState(c, s) == s.system = c.system
LoadState(c, s) ==
  WithMachine(c, [s.machine EXCEPT !.fault = @ /\ c.system = "gba", !.game = Machine(c).game])
=============================================================================

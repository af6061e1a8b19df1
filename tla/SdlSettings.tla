---------------------------- MODULE SdlSettings -----------------------------
(***************************************************************************)
(* The settings of the SDL frontend (frontend/main.cpp): the ones in       *)
(* force, the global ones (global_settings), and a game's own, an override *)
(* file beside its save, with an input map of its own.  Three settings     *)
(* stand for more: hud for the ones that only the settings screen changes  *)
(* (corner, size and time-out of the HUD, scale, rate and filter), cgb for *)
(* the colour correction that the menu and F2 change, and the deadzone     *)
(* that the input map holds as well.  Whether the HUD is shown and audio   *)
(* plays is left out: a start has rules of its own for both (the           *)
(* preference of ui_state.conf, not what is in force, becomes the global   *)
(* one; audio takes the file's word after load_game, and the override's    *)
(* after that), and F4 stores the one alone.  ui_state.conf is not a       *)
(* variable: leaving writes it, the next start reads it.                   *)
(***************************************************************************)
EXTENDS Integers

CONSTANTS SettingGames, None, \* no file, no game
          Levels,             \* values of a setting
          MapDeadzone,        \* the deadzone of InputConfig::set_default
          DefaultLevel,       \* what GlobalSettings holds before it is filled
          MaxChanges

VARIABLES inForce, global, \* [hud, cgb, deadzone]
          override,  \* game to its override file
          maps,      \* input maps: "global" and one per game, the deadzone in the file
          open,      \* the open game: game, active (rom_override_active), map
          romPath,   \* current_rom_path
          changes

setVars == <<inForce, global, override, maps, open, romPath, changes>>
Settings == [hud : Levels, cgb : Levels, deadzone : Levels]
ASSUME SettingsAssumption ==
  MapDeadzone \in Levels /\ DefaultLevel \in Levels /\ None \notin Levels /\ None \notin SettingGames /\ None \notin Settings

(* reload_input_config: the deadzone is the map's, or the default.          *)
MapsDeadzone(m) == IF maps[m] = None THEN MapDeadzone ELSE maps[m]

(***************************************************************************)
(* The end of load_game: the game's own settings or, without them, a       *)
(* base's.  The input map is loaded last, and its deadzone stays.          *)
(***************************************************************************)
Opened(g) ==
  LET own == override[g] # None
  IN  [game |-> g, active |-> own, map |-> IF own /\ maps[g] # None THEN g ELSE "global"]
InForceFor(g, base) ==
  [IF override[g] # None THEN override[g] ELSE base EXCEPT !.deadzone = MapsDeadzone(Opened(g).map)]
Unopened == [game |-> None, active |-> FALSE, map |-> "global"]

(***************************************************************************)
(* A start makes global what is in force when the window opens.  In the    *)
(* launcher that is what ui_state.conf and the options say; with a ROM on  *)
(* the command line load_game ran before, over a GlobalSettings that holds *)
(* its defaults, and what ui_state.conf says is lost.                      *)
(***************************************************************************)
Defaults == [hud |-> DefaultLevel, cgb |-> DefaultLevel, deadzone |-> MapDeadzone]
SetInit ==
  /\ override = [g \in SettingGames |-> None]
  /\ maps = [m \in SettingGames \union {"global"} |-> None]
  /\ \/ open = Unopened /\ romPath = None /\ inForce \in Settings
     \/ \E g \in SettingGames : open = Opened(g) /\ romPath = g /\ inForce = InForceFor(g, Defaults)
  /\ global = inForce /\ changes = 0
Step == changes < MaxChanges /\ changes' = changes + 1

OpenGame(g) ==
  /\ Step
  /\ open' = Opened(g) /\ romPath' = g /\ inForce' = InForceFor(g, global)
  /\ UNCHANGED <<global, override, maps>>
(* A launch that fails has already changed current_rom_path.                *)
OpenFails(g) ==
  /\ Step /\ romPath' = g
  /\ UNCHANGED <<inForce, global, override, maps, open>>

(***************************************************************************)
(* Changing a setting stores all of them, in the game's file when it has   *)
(* its own settings, else in the global ones.  The input map is saved      *)
(* wherever the deadzone is changed.                                       *)
(***************************************************************************)
Store_BothPlaces(s) ==
  /\ inForce' = s /\ global' = s
  /\ override' = IF open.active THEN [override EXCEPT ![open.game] = s] ELSE override
Store(s) ==
  /\ inForce' = s
  /\ IF open.active THEN override' = [override EXCEPT ![open.game] = s] /\ UNCHANGED global
     ELSE global' = s /\ UNCHANGED override
ChangeHud(x) ==
  /\ Step /\ x # inForce.hud
  /\ Store([inForce EXCEPT !.hud = x])
  /\ UNCHANGED <<maps, open, romPath>>
ChangeDeadzone(x) ==
  /\ Step /\ x # inForce.deadzone
  /\ Store([inForce EXCEPT !.deadzone = x])
  /\ maps' = [maps EXCEPT ![open.map] = x]
  /\ UNCHANGED <<open, romPath>>
\* the menu: only the one setting goes into the global ones
ChangeColor(x) ==
  LET s == [inForce EXCEPT !.cgb = x]
  IN  /\ Step /\ x # inForce.cgb /\ inForce' = s
      /\ IF open.active THEN override' = [override EXCEPT ![open.game] = s] /\ UNCHANGED global
         ELSE global' = [global EXCEPT !.cgb = x] /\ UNCHANGED override
      /\ UNCHANGED <<maps, open, romPath>>
\* F2 changes it without storing it
F2(x) ==
  /\ Step /\ x # inForce.cgb
  /\ inForce' = [inForce EXCEPT !.cgb = x]
  /\ UNCHANGED <<global, override, maps, open, romPath>>
SaveMap ==
  /\ Step
  /\ maps' = [maps EXCEPT ![open.map] = inForce.deadzone]
  /\ UNCHANGED <<inForce, global, override, open, romPath>>

(***************************************************************************)
(* Turning a game's own settings on and off (PER-ROM), for the open game   *)
(* or, in the launcher, for another one.                                   *)
(***************************************************************************)
OverrideOff ==
  /\ open.active
  /\ override' = [override EXCEPT ![open.game] = None]
  /\ open' = [open EXCEPT !.active = FALSE, !.map = "global"]
  /\ inForce' = global
  /\ UNCHANGED <<global, maps, romPath>>
OverrideOn ==
  LET g == open.game
      s == [inForce EXCEPT !.deadzone = IF maps[g] = None THEN @ ELSE maps[g]]
  IN  /\ g # None /\ ~open.active
      /\ open' = [open EXCEPT !.active = TRUE, !.map = g]
      /\ maps' = [maps EXCEPT ![g] = IF @ = None THEN inForce.deadzone ELSE @]
      /\ inForce' = s
      /\ override' = [override EXCEPT ![g] = s]
      /\ UNCHANGED <<global, romPath>>
ToggleOpen == Step /\ (OverrideOff \/ OverrideOn)
ToggleFor(g) ==
  /\ Step
  /\ IF open.game # None /\ g = romPath THEN OverrideOff \/ OverrideOn
     ELSE /\ override' = [override EXCEPT ![g] = IF @ = None THEN global ELSE None]
          /\ maps' = [maps EXCEPT ![g] = IF override[g] = None /\ @ = None
                                         THEN MapsDeadzone("global") ELSE @]
          /\ UNCHANGED <<inForce, global, open, romPath>>

(* Leaving writes what is in force to ui_state.conf, all but the colours,   *)
(* which the next start takes from its options.                             *)
Exit ==
  /\ Step
  /\ \/ /\ open' = Unopened /\ romPath' = None
        /\ \E color \in Levels : inForce' = [inForce EXCEPT !.cgb = color]
     \/ \E g \in SettingGames : open' = Opened(g) /\ romPath' = g /\ inForce' = InForceFor(g, Defaults)
  /\ global' = inForce'
  /\ UNCHANGED <<override, maps>>

SetNext ==
  \/ \E g \in SettingGames : OpenGame(g) \/ OpenFails(g) \/ ToggleFor(g)
  \/ \E x \in Levels : ChangeHud(x) \/ ChangeDeadzone(x) \/ ChangeColor(x) \/ F2(x)
  \/ SaveMap \/ ToggleOpen \/ Exit

SetSpec == SetInit /\ [][SetNext]_setVars

(* A game's own settings stay its own: within a session nothing of the      *)
(* global ones changes while they are in force, no step touches the file of *)
(* a game that is neither open nor chosen in the launcher, and what is in   *)
(* force is what the open game's file, or else the global settings, say     *)
(* (but for the deadzone, which the input map decides, and a colour         *)
(* switched with F2).  The file stays so while current_rom_path names the   *)
(* open game: after a failed launch PER-ROM in the launcher takes the open  *)
(* game for another one and removes its file, or puts the global settings   *)
(* into it.                                                                 *)
(*                                                                          *)
(* From session to session the global settings do not all survive: leaving  *)
(* and starting in the launcher keeps them if no game with its own settings *)
(* was open, else what is in force for that game becomes global; and a      *)
(* start with a ROM makes them that game's own, or the defaults.            *)
FileInForce == override[open.game] # None /\ inForce.hud = override[open.game].hud
NextSession ==
  IF open'.game = None
  THEN global'.hud = IF open.active THEN inForce.hud ELSE global.hud
  ELSE global'.hud = IF open'.active THEN override[open'.game].hud ELSE DefaultLevel
OverridesOwn ==
  [][/\ open.active /\ ~Exit => global' = global
     /\ Exit => NextSession
     /\ \A g \in SettingGames : override'[g] # override[g] => g = open.game \/ open' = open
     /\ ~open'.active => inForce'.hud = global'.hud
     /\ open'.active /\ (open.active /\ open'.game = open.game => romPath = open.game /\ FileInForce) =>
          FileInForce']_setVars
=============================================================================

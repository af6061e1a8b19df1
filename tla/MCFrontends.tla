----------------------------- MODULE MCFrontends ----------------------------
(***************************************************************************)
(* The frontends and what they keep for the player, for TLC: a session of  *)
(* the SDL frontend, one of the Vulkan frontend, the input bindings, the   *)
(* settings and the launcher.  A behaviour exercises one of them, chosen   *)
(* at the start, and the others rest.                                      *)
(***************************************************************************)
EXTENDS SdlFrontend, VulkanFrontend, InputConfig, SdlSettings, Launcher, TLC

VARIABLE unit

vars == <<unit, sdlVars, vkVars, inputVars, setVars, launcherVars>>

(* A game for each machine, both with a battery.                            *)
MCSystemOf == [g \in {"red", "ruby"} |-> IF g = "red" THEN "gb" ELSE "gba"]

(* Two buttons and an axis, of which one action has a button and a          *)
(* direction of the axis: the file keeps one source per action.             *)
MCPadDefault ==
  (<<"button", 1>> :> "a") @@ (<<"button", 2>> :> "right") @@ (<<"axis+", 0>> :> "right")
    @@ (<<"button", 3>> :> "left") @@ (<<"axis-", 0>> :> "left")
MCKeyDefault == ("a" :> 122) @@ ("right" :> 300) @@ ("left" :> 301)

(* Three ROMs, one in both directories and one only on the command line.    *)
MCCatalog == <<"lime", "red", "ruby">>
MCKindOf == [p \in {"lime", "red", "ruby"} |->
              CASE p = "lime" -> "gbc" [] p = "red" -> "gb" [] p = "ruby" -> "gba"]
MCRoots == <<{"red", "ruby"}, {"ruby"}>>
MCMatches == ("" :> {"lime", "red", "ruby"}) @@ ("r" :> {"red", "ruby"}) @@ ("ru" :> {"ruby"})

Init ==
  /\ unit \in {"sdl", "vulkan", "bindings", "settings", "launcher"}
  /\ SdlInit
  /\ VkInit /\ (unit # "vulkan" => vkSav = NoFile /\ Machine(vkCore).game = CHOOSE g \in Games : TRUE)
  /\ InputInit
  /\ SetInit /\ (unit # "settings" => open = Unopened /\ inForce = CHOOSE s \in Settings : TRUE)
  /\ LauncherInit /\ (unit # "launcher" => disk = {})

Main == unit = "sdl" /\ MainLoop /\ UNCHANGED <<unit, vkVars, inputVars, setVars, launcherVars>>
Emulation == unit = "sdl" /\ EmuThread /\ UNCHANGED <<unit, vkVars, inputVars, setVars, launcherVars>>
Next ==
  \/ Main
  \/ Emulation
  \/ /\ unit = "sdl" /\ (Events \/ Restart)
     /\ UNCHANGED <<unit, vkVars, inputVars, setVars, launcherVars>>
  \/ /\ unit = "vulkan" /\ VkNext
     /\ UNCHANGED <<unit, sdlVars, inputVars, setVars, launcherVars>>
  \/ /\ unit = "bindings" /\ InputNext
     /\ UNCHANGED <<unit, sdlVars, vkVars, setVars, launcherVars>>
  \/ /\ unit = "settings" /\ SetNext
     /\ UNCHANGED <<unit, sdlVars, vkVars, inputVars, launcherVars>>
  \/ /\ unit = "launcher" /\ LauncherNext
     /\ UNCHANGED <<unit, sdlVars, vkVars, inputVars, setVars>>

(* The operating system schedules both threads of the SDL frontend, and the *)
(* player's events come one at a time, so that the event loop ends.         *)
Fairness == WF_vars(Main) /\ WF_vars(Emulation)
Spec == Init /\ [][Next]_vars /\ Fairness
=============================================================================

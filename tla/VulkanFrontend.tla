--------------------------- MODULE VulkanFrontend ---------------------------
(***************************************************************************)
(* A session of the Vulkan frontend (frontend/vk_frontend.cpp): one game   *)
(* from the command line, a pause menu over it, and an emulation thread    *)
(* that shares the core under core_mutex and the atomics running, paused   *)
(* and joypad_state with the main thread.                                  *)
(*                                                                         *)
(* Each button is its own bit.  Filters, overlays, colour, audio and the   *)
(* drawing are left out: the menu's entries for them only flip a flag.     *)
(***************************************************************************)
EXTENDS EmulatorCore

CONSTANTS Keys, PadButtons,
          Items, Visible, \* entries of the menu, and how many the window shows
          VkMaxEvents

ASSUME ButtonsAssumption == Keys \intersect PadButtons = {}
ASSUME MenuAssumption == Items \in Nat /\ Items > 3 /\ Visible \in 1..Items

VARIABLES vkCore, vkSav, vkState, \* the core and the two files of the game
          ui,     \* at, open, index, scroll, key, pad
          shared, \* running, paused, joypad
          emuThread, \* at, applied; restored: the buttons the loaded state held
          down,   \* the buttons the player holds down
          vkEvents

vkVars == <<vkCore, vkSav, vkState, ui, shared, emuThread, down, vkEvents>>

VkInit ==
  /\ \E g \in Games : vkCore = LoadRom(SetSystem(NewCore, SystemOf[g]), g)
  /\ vkSav \in {NoFile, Image(Machine(vkCore).game, 1)} /\ vkState = NoFile
  /\ ui = [at |-> "loop", open |-> FALSE, index |-> 0, scroll |-> 0, key |-> {}, pad |-> {}]
  /\ shared = [running |-> TRUE, paused |-> FALSE, joypad |-> {}]
  /\ emuThread = [at |-> "idle", applied |-> {}, restored |-> {}] /\ down = {} /\ vkEvents = 0

(***************************************************************************)
(* The emulation thread.                                                   *)
(***************************************************************************)
VkCheck ==
  /\ emuThread.at = "idle" /\ shared.running /\ ~shared.paused
  /\ emuThread' = [emuThread EXCEPT !.at = "checked"]
  /\ UNCHANGED <<vkCore, vkSav, vkState, ui, shared, down, vkEvents>>
VkFrame ==
  /\ emuThread.at = "checked"
  /\ \E c \in StepFrame(IF shared.joypad # emuThread.applied THEN SetJoypadState(vkCore, shared.joypad) ELSE vkCore) :
       /\ vkCore' = c
       /\ emuThread' = [at |-> IF Machine(c).fault THEN "faulted" ELSE "idle", applied |-> shared.joypad,
                         restored |-> IF shared.joypad # emuThread.applied THEN {} ELSE emuThread.restored]
  /\ UNCHANGED <<vkSav, vkState, ui, shared, down, vkEvents>>
VkFault ==
  /\ emuThread.at = "faulted"
  /\ shared' = [shared EXCEPT !.running = FALSE]
  /\ emuThread' = [emuThread EXCEPT !.at = "ended"]
  /\ UNCHANGED <<vkCore, vkSav, vkState, ui, down, vkEvents>>
VkEnd ==
  /\ emuThread.at = "idle" /\ ~shared.running
  /\ emuThread' = [emuThread EXCEPT !.at = "ended"]
  /\ UNCHANGED <<vkCore, vkSav, vkState, ui, shared, down, vkEvents>>

(***************************************************************************)
(* The menu.                                                               *)
(***************************************************************************)
SetMenuOpen_KeepsButtons(u, open) ==
  IF open THEN [u EXCEPT !.open = TRUE, !.scroll = 0] ELSE [u EXCEPT !.open = FALSE]
SetMenuOpen(u, open) ==
  IF open = u.open THEN u
  ELSE IF open THEN [u EXCEPT !.open = TRUE, !.key = {}, !.pad = {}, !.scroll = 0]
  ELSE [u EXCEPT !.open = FALSE]
Share(u, joypad) == [shared EXCEPT !.paused = u.open, !.joypad = IF u.open THEN {} ELSE joypad]

KeepSelectionVisible(u) ==
  LET scroll == IF u.index < u.scroll THEN u.index
                ELSE IF u.index >= u.scroll + Visible THEN u.index - Visible + 1 ELSE u.scroll
  IN  [u EXCEPT !.scroll = IF scroll > Items - Visible THEN Items - Visible ELSE scroll]
VkEvent == ui.at = "loop" /\ shared.running /\ vkEvents < VkMaxEvents /\ vkEvents' = vkEvents + 1

ToggleMenu == \* F10 and the guide button; Escape closes an open menu
  /\ VkEvent
  /\ ui' = SetMenuOpen(ui, ~ui.open)
  /\ shared' = Share(ui', shared.joypad)
  /\ UNCHANGED <<vkCore, vkSav, vkState, emuThread, down>>
MoveMenu(delta) ==
  /\ VkEvent /\ ui.open
  /\ ui' = KeepSelectionVisible([ui EXCEPT !.index = (@ + delta + Items) % Items])
  /\ UNCHANGED <<vkCore, vkSav, vkState, shared, emuThread, down>>
VkSaveState ==
  /\ vkState' = SaveState(vkCore)
  /\ UNCHANGED <<vkCore, vkSav, ui, shared, emuThread, down>>
VkLoadState == \* the thread is not told that the buttons may have changed
  /\ IF vkState # NoFile /\ CanLoadState(vkCore, vkState)
     THEN /\ vkCore' = LoadState(vkCore, vkState)
          /\ emuThread' = [emuThread EXCEPT !.restored = vkState.machine.pad]
     ELSE UNCHANGED <<vkCore, emuThread>>
  /\ UNCHANGED <<vkSav, vkState, ui, shared, down>>
VkQuit ==
  /\ shared' = [shared EXCEPT !.running = FALSE]
  /\ UNCHANGED <<vkCore, vkSav, vkState, ui, emuThread, down>>
ApplyMenuAction ==
  /\ VkEvent /\ ui.open
  /\ \/ /\ ui.index = 0
        /\ ui' = SetMenuOpen(ui, FALSE) /\ shared' = Share(ui', shared.joypad)
        /\ UNCHANGED <<vkCore, vkSav, vkState, emuThread, down>>
     \/ ui.index = 1 /\ VkSaveState
     \/ ui.index = 2 /\ VkLoadState
     \/ ui.index \in 3..(Items - 2) /\ UNCHANGED <<vkCore, vkSav, vkState, ui, shared, emuThread, down>>
     \/ ui.index = Items - 1 /\ VkQuit
QuickSave == VkEvent /\ ~ui.open /\ VkSaveState
QuickLoad == VkEvent /\ ~ui.open /\ VkLoadState
CloseWindow == VkEvent /\ VkQuit

(***************************************************************************)
(* Buttons: the menu hides them from the game.  A pad that is unplugged    *)
(* lets go of its buttons.                                                 *)
(***************************************************************************)
Toggle(S, b) == IF b \in S THEN S \ {b} ELSE S \union {b}
Put(S, b, isDown) == IF isDown THEN S \union {b} ELSE S \ {b}
PressOrRelease(b) ==
  LET u == IF b \in Keys THEN [ui EXCEPT !.key = Put(@, b, b \notin down)]
           ELSE [ui EXCEPT !.pad = Put(@, b, b \notin down)]
      changed == u # ui /\ ~ui.open
  IN  /\ VkEvent
      /\ down' = Toggle(down, b)
      /\ ui' = IF changed THEN u ELSE ui
      /\ shared' = IF changed THEN [shared EXCEPT !.joypad = u.key \union u.pad] ELSE shared
      /\ UNCHANGED <<vkCore, vkSav, vkState, emuThread>>
Unplug ==
  /\ VkEvent
  /\ down' = down \ PadButtons
  /\ ui' = [ui EXCEPT !.pad = {}]
  /\ shared' = [shared EXCEPT !.joypad = ui.key]
  /\ UNCHANGED <<vkCore, vkSav, vkState, emuThread>>

(* Each turn of the main loop ends by drawing; after the loop the thread is *)
(* joined, and nothing is written.                                          *)
Draw ==
  /\ ui.at = "loop" /\ shared.running
  /\ ui' = IF ui.open THEN KeepSelectionVisible(ui) ELSE ui
  /\ UNCHANGED <<vkCore, vkSav, vkState, shared, emuThread, down, vkEvents>>
VkJoin ==
  /\ ui.at = "loop" /\ ~shared.running /\ emuThread.at = "ended"
  /\ ui' = [ui EXCEPT !.at = "done"]
  /\ UNCHANGED <<vkCore, vkSav, vkState, shared, emuThread, down, vkEvents>>

VkNext ==
  \/ VkCheck \/ VkFrame \/ VkFault \/ VkEnd
  \/ ToggleMenu \/ (\E d \in {1, -1} : MoveMenu(d)) \/ ApplyMenuAction
  \/ QuickSave \/ QuickLoad \/ CloseWindow
  \/ (\E b \in Keys \union PadButtons : PressOrRelease(b)) \/ Unplug
  \/ Draw \/ VkJoin
VkSpec == VkInit /\ [][VkNext]_vkVars

(* No button sticks: whatever the menu or an unplugged pad hid, the shared  *)
(* buttons are buttons the player still holds down, and so are the core's,  *)
(* once the thread has applied them; but for the buttons that a loaded      *)
(* state held, which the core keeps until the shared buttons change again.  *)
NoStuckButton ==
  /\ shared.joypad \subseteq down
  /\ emuThread.at = "idle" /\ emuThread.applied = shared.joypad =>
       Machine(vkCore).pad \subseteq down \union emuThread.restored
(* A menu that was moved or drawn shows its selection.                      *)
MenuShowsSelection ==
  [][ui.open /\ ui'.open /\ <<ui'.index, ui'.scroll>> # <<ui.index, ui.scroll>> =>
       ui'.scroll <= ui'.index /\ ui'.index < ui'.scroll + Visible]_vkVars
=============================================================================

---------------------------- MODULE FrontendProofs ----------------------------
(***************************************************************************)
(* Theorems about the frontends and the core they share, for every set of  *)
(* games, buttons, settings and bindings and every bound on the events,    *)
(* and about the launcher, for every library.                              *)
(***************************************************************************)
EXTENDS SdlFrontend, VulkanFrontend, SdlSettings, InputConfig, Launcher,
        SequenceTheorems, WellFoundedInduction, TLAPS

(***************************************************************************)
(* The core as an object: what its operations keep.                        *)
(***************************************************************************)
(* The machine in use can be read and replaced, and nothing else changes.   *)
LEMMA MachineTyped ==
  ASSUME NEW pads, NEW c \in CoresWith(pads)
  PROVE  Machine(c) \in MachinesWith(pads)
BY DEF CoresWith, Machine, Side

LEMMA MachineInUse ==
  ASSUME NEW pads, NEW c \in CoresWith(pads), NEW m \in MachinesWith(pads)
  PROVE  /\ WithMachine(c, m) \in CoresWith(pads)
         /\ Machine(WithMachine(c, m)) = m
         /\ WithMachine(c, m).system = c.system
<1>1. Side(c.system) \in {"gb", "gba"}
  BY DEF Side
<1> QED  BY <1>1 DEF CoresWith, Machine, WithMachine

(* Telling the core of buttons changes the machine's buttons only.          *)
LEMMA JoypadSet ==
  ASSUME NEW pads, NEW c \in CoresWith(pads), NEW S \in pads
  PROVE  /\ SetJoypadState(c, S) \in CoresWith(pads)
         /\ Machine(SetJoypadState(c, S)) = [Machine(c) EXCEPT !.pad = S]
         /\ SetJoypadState(c, S).system = c.system
<1>1. [Machine(c) EXCEPT !.pad = S] \in MachinesWith(pads)
  BY MachineTyped DEF MachinesWith
<1> QED  BY <1>1, MachineInUse DEF SetJoypadState

(* A frame leaves the buttons and the game alone, and the RAM that game's.  *)
LEMMA FrameKeeps ==
  ASSUME NEW pads, NEW c \in CoresWith(pads), NEW d \in StepFrame(c)
  PROVE  /\ d \in CoresWith(pads)
         /\ d.system = c.system
         /\ Machine(d).game = Machine(c).game
         /\ Machine(d).pad = Machine(c).pad
         /\ Machine(d).ram.of = Machine(c).ram.of
<1> DEFINE m == Machine(c)
<1>1. CASE m.fault
  BY <1>1 DEF StepFrame
<1>2. CASE ~m.fault
  <2>1. m \in MachinesWith(pads)
    BY MachineTyped DEF MachinesWith
  <2> DEFINE stores == {m.ram} \union
                         IF HasBattery(c) /\ m.ram.version < MaxVersion
                         THEN {Image(m.ram.of, m.ram.version + 1)} ELSE {}
  <2>2. PICK o \in [ram : stores, fault : BOOLEAN] :
          d = WithMachine(c, [m EXCEPT !.ram = o.ram, !.fault = o.fault])
    BY <1>2 DEF StepFrame
  <2>3. o.ram \in Images /\ o.ram.of = m.ram.of
    BY <2>1, <2>2 DEF MachinesWith, Images, Image
  <2>4. [m EXCEPT !.ram = o.ram, !.fault = o.fault] \in MachinesWith(pads)
    BY <2>1, <2>3 DEF MachinesWith
  <2> HIDE DEF m
  <2>5. /\ d \in CoresWith(pads) /\ d.system = c.system
        /\ Machine(d) = [m EXCEPT !.ram = o.ram, !.fault = o.fault]
    BY <2>2, <2>4, MachineInUse
  <2> QED  BY <2>1, <2>3, <2>5 DEF MachinesWith, m
<1> QED  BY <1>1, <1>2

(* A save state of the core's system brings its machine back, but for the   *)
(* game, which stays.                                                       *)
LEMMA StateLoads ==
  ASSUME NEW pads, NEW c \in CoresWith(pads), NEW s \in StatesWith(pads)
  PROVE  /\ LoadState(c, s) \in CoresWith(pads)
         /\ LoadState(c, s).system = c.system
         /\ Machine(LoadState(c, s)).game = Machine(c).game
         /\ Machine(LoadState(c, s)).ram = s.machine.ram
         /\ Machine(LoadState(c, s)).pad = s.machine.pad
<1> DEFINE m == [s.machine EXCEPT !.fault = @ /\ c.system = "gba", !.game = Machine(c).game]
<1>1. Machine(c).game \in Owners
  BY MachineTyped DEF MachinesWith
<1>2. m \in MachinesWith(pads)
  BY <1>1 DEF MachinesWith, StatesWith
<1>3. m.game = Machine(c).game /\ m.ram = s.machine.ram /\ m.pad = s.machine.pad
  BY DEF MachinesWith, StatesWith
<1> HIDE DEF m
<1>4. LoadState(c, s) = WithMachine(c, m)
  BY DEF LoadState, m
<1> QED  BY <1>2, <1>3, <1>4, MachineInUse

LEMMA StateTaken ==
  ASSUME NEW pads, NEW c \in CoresWith(pads)
  PROVE  SaveState(c) \in StatesWith(pads)
BY MachineTyped DEF SaveState, StatesWith, CoresWith

(* A game is loaded into a machine of its own system.                       *)
LEMMA RomLoads ==
  ASSUME NEW pads, {} \in pads, NEW c \in CoresWith(pads), NEW g \in Games
  PROVE  LET fresh == LoadRom(SetSystem(c, SystemOf[g]), g)
         IN  /\ fresh \in CoresWith(pads)
             /\ Machine(fresh) = Blank(g)
             /\ fresh.system = SystemOf[g]
<1>1. SetSystem(c, SystemOf[g]) \in CoresWith(pads) /\ SetSystem(c, SystemOf[g]).system = SystemOf[g]
  BY SystemAssumption DEF SetSystem, CoresWith, Systems
<1>2. Blank(g) \in MachinesWith(pads)
  BY DEF Blank, MachinesWith, Owners, Images, Image
<1> QED  BY <1>1, <1>2, MachineInUse DEF LoadRom

LEMMA NewCoreTypes ==
  ASSUME NEW pads, {} \in pads
  PROVE  NewCore \in CoresWith(pads)
BY DEF NewCore, CoresWith, Blank, MachinesWith, Owners, Images, Image, Systems

(***************************************************************************)
(* The Vulkan frontend: the buttons from the player's hands to the core.   *)
(***************************************************************************)
Pads == Keys \union PadButtons
PadSets == SUBSET Pads

VkTypeOK ==
  /\ vkCore \in CoresWith(PadSets)
  /\ vkSav \in Images \union {NoFile}
  /\ vkState \in StatesWith(PadSets) \union {NoFile}
  /\ ui \in [at : {"loop", "done"}, open : BOOLEAN, index : 0..(Items - 1),
             scroll : 0..(Items - Visible), key : SUBSET Keys, pad : SUBSET PadButtons]
  /\ shared \in [running : BOOLEAN, paused : BOOLEAN, joypad : PadSets]
  /\ emuThread \in [at : {"idle", "checked", "faulted", "ended"}, applied : PadSets, restored : PadSets]
  /\ down \in PadSets
  /\ vkEvents \in Nat

(* What the window thinks is down is down, the shared buttons are what the  *)
(* window thinks, an open menu knows of none, and the machine has the       *)
(* buttons that the thread gave it last, or those of the state loaded since.*)
Told ==
  /\ ui.key \subseteq down /\ ui.pad \subseteq down
  /\ shared.joypad = ui.key \union ui.pad
  /\ ui.open => ui.key = {} /\ ui.pad = {}
  /\ Machine(vkCore).pad \subseteq emuThread.applied \union emuThread.restored
VkInv == VkTypeOK /\ Told

(* What the actions of the window do to the buttons it keeps.               *)
LEMMA SelectionShown ==
  ASSUME NEW u, u \in [at : {"loop", "done"}, open : BOOLEAN, index : 0..(Items - 1),
                       scroll : 0..(Items - Visible), key : SUBSET Keys, pad : SUBSET PadButtons]
  PROVE  LET v == KeepSelectionVisible(u)
         IN  /\ v \in [at : {"loop", "done"}, open : BOOLEAN, index : 0..(Items - 1),
                        scroll : 0..(Items - Visible), key : SUBSET Keys, pad : SUBSET PadButtons]
             /\ v.scroll <= v.index /\ v.index < v.scroll + Visible
             /\ v = [u EXCEPT !.scroll = v.scroll]
<1> DEFINE shift == IF u.index < u.scroll THEN u.index
                     ELSE IF u.index >= u.scroll + Visible THEN u.index - Visible + 1 ELSE u.scroll
<1>1. /\ shift \in 0..(Items - Visible)
      /\ shift <= u.index /\ u.index < shift + Visible
  BY MenuAssumption
<1>2. ~(shift > Items - Visible)
  BY <1>1, MenuAssumption
<1> HIDE DEF shift
<1>3. KeepSelectionVisible(u) = [u EXCEPT !.scroll = shift]
  BY <1>2 DEF KeepSelectionVisible, shift
<1> QED  BY <1>1, <1>3

(* Opening and closing the menu, with what the threads are told of it.      *)
LEMMA MenuSwitched ==
  ASSUME VkInv, NEW opens \in BOOLEAN, ui' = SetMenuOpen(ui, opens), shared' = Share(ui', shared.joypad)
  PROVE  /\ ui' \in [at : {"loop", "done"}, open : BOOLEAN, index : 0..(Items - 1),
                      scroll : 0..(Items - Visible), key : SUBSET Keys, pad : SUBSET PadButtons]
         /\ shared' \in [running : BOOLEAN, paused : BOOLEAN, joypad : PadSets]
         /\ ui'.key \subseteq down /\ ui'.pad \subseteq down
         /\ shared'.joypad = ui'.key \union ui'.pad
         /\ ui'.open => ui'.key = {} /\ ui'.pad = {}
<1> USE DEF VkInv
<1>1. CASE opens = ui.open
  <2>1. ui' = ui
    BY <1>1 DEF SetMenuOpen
  <2>2. ui.open => shared.joypad = {}
    BY DEF Told
  <2>3. shared' = [shared EXCEPT !.paused = ui.open, !.joypad = IF ui.open THEN {} ELSE shared.joypad]
    BY <2>1 DEF Share
  <2> QED  BY <2>1, <2>2, <2>3 DEF Told, VkTypeOK, PadSets
<1>2. CASE opens # ui.open /\ opens = TRUE
  <2>1. ui' = [ui EXCEPT !.open = TRUE, !.key = {}, !.pad = {}, !.scroll = 0]
    BY <1>2 DEF SetMenuOpen
  <2>2. ui'.open = TRUE /\ ui'.key = {} /\ ui'.pad = {}
    BY <2>1 DEF VkTypeOK
  <2>3. shared' = [shared EXCEPT !.paused = TRUE, !.joypad = {}]
    BY <2>2 DEF Share
  <2>4. ui' \in [at : {"loop", "done"}, open : BOOLEAN, index : 0..(Items - 1),
                 scroll : 0..(Items - Visible), key : SUBSET Keys, pad : SUBSET PadButtons]
    <3>1. 0 \in 0..(Items - Visible)
      BY MenuAssumption
    <3>2. ui \in [at : {"loop", "done"}, open : BOOLEAN, index : 0..(Items - 1),
                 scroll : 0..(Items - Visible), key : SUBSET Keys, pad : SUBSET PadButtons]
      BY DEF VkTypeOK
    <3> QED  BY <2>1, <3>1, <3>2
  <2>5. shared' \in [running : BOOLEAN, paused : BOOLEAN, joypad : PadSets] /\ shared'.joypad = {}
    BY <2>3 DEF VkTypeOK, PadSets
  <2> QED  BY <2>2, <2>4, <2>5
<1>3. CASE opens # ui.open /\ opens = FALSE
  <2>1. ui' = [ui EXCEPT !.open = FALSE]
    BY <1>3 DEF SetMenuOpen
  <2>2. ui'.open = FALSE /\ ui'.key = ui.key /\ ui'.pad = ui.pad
    BY <2>1 DEF VkTypeOK
  <2>3. shared' = [shared EXCEPT !.paused = FALSE, !.joypad = shared.joypad]
    BY <2>2 DEF Share
  <2> QED  BY <2>1, <2>2, <2>3 DEF VkTypeOK, PadSets, Told
<1> QED  BY <1>1, <1>2, <1>3

LEMMA VkInitially == VkInit => VkInv
<1> SUFFICES ASSUME VkInit PROVE VkInv
  OBVIOUS
<1>1. PICK g \in Games : vkCore = LoadRom(SetSystem(NewCore, SystemOf[g]), g)
  BY DEF VkInit
<1>2. vkCore \in CoresWith(PadSets) /\ Machine(vkCore) = Blank(g)
  BY <1>1, NewCoreTypes, RomLoads DEF PadSets
<1>3. vkSav \in Images \union {NoFile}
  BY <1>2 DEF VkInit, Blank, Images, Image, Owners
<1>4. VkTypeOK
  <2>1. ui \in [at : {"loop", "done"}, open : BOOLEAN, index : 0..(Items - 1),
             scroll : 0..(Items - Visible), key : SUBSET Keys, pad : SUBSET PadButtons]
    BY MenuAssumption DEF VkInit
  <2> QED  BY <1>2, <1>3, <2>1 DEF VkInit, VkTypeOK, PadSets
<1>5. Told
  BY <1>2 DEF VkInit, Told, Blank
<1> QED  BY <1>4, <1>5 DEF VkInv

(* Steps that leave the core alone, by what they do to the menu, to the     *)
(* shared buttons and to the hands of the player.                           *)
LEMMA MenuSteps ==
  ASSUME VkInv, ToggleMenu \/ (\E d \in {1, -1} : MoveMenu(d)) \/ Draw \/ VkJoin \/ CloseWindow
  PROVE  VkInv'
<1> USE DEF VkInv
<1>1. CASE ToggleMenu
  <2>1. /\ ui' = SetMenuOpen(ui, ~ui.open) /\ shared' = Share(ui', shared.joypad)
        /\ vkEvents' = vkEvents + 1 /\ UNCHANGED <<vkCore, vkSav, vkState, emuThread, down>>
    BY <1>1 DEF ToggleMenu, VkEvent
  <2>2. PICK opens \in BOOLEAN : ui' = SetMenuOpen(ui, opens)
    BY <2>1, Zenon
  <2>3. vkEvents' \in Nat
    BY <2>1 DEF VkTypeOK
  <2>4. VkTypeOK'
    BY <2>1, <2>2, <2>3, MenuSwitched, Zenon DEF VkTypeOK
  <2>5. Told'
    BY <2>1, <2>2, MenuSwitched DEF Told
  <2> QED  BY <2>4, <2>5
<1>2. ASSUME NEW d \in {1, -1}, MoveMenu(d) PROVE VkInv'
  <2> DEFINE u == [ui EXCEPT !.index = (@ + d + Items) % Items]
  <2>1. (ui.index + d + Items) % Items \in 0..(Items - 1)
    BY MenuAssumption DEF VkTypeOK
  <2>2. u \in [at : {"loop", "done"}, open : BOOLEAN, index : 0..(Items - 1),
               scroll : 0..(Items - Visible), key : SUBSET Keys, pad : SUBSET PadButtons]
    BY <2>1 DEF VkTypeOK
  <2>3. ui' = KeepSelectionVisible(u) /\ vkEvents' = vkEvents + 1
        /\ UNCHANGED <<vkCore, vkSav, vkState, shared, emuThread, down>>
    BY <1>2 DEF MoveMenu, VkEvent
  <2>4. u.key = ui.key /\ u.pad = ui.pad /\ u.open = ui.open
    BY DEF VkTypeOK
  <2> HIDE DEF u
  <2> QED  BY <2>2, <2>3, <2>4, SelectionShown DEF VkTypeOK, Told
<1>3. CASE Draw
  <2>1. CASE ui.open
    <3>1. ui' = KeepSelectionVisible(ui)
      BY <1>3, <2>1 DEF Draw
    <3> QED  BY <1>3, <3>1, SelectionShown DEF Draw, VkTypeOK, Told
  <2>2. CASE ~ui.open
    BY <1>3, <2>2 DEF Draw, VkTypeOK, Told
  <2> QED  BY <2>1, <2>2
<1>4. CASE VkJoin
  BY <1>4 DEF VkJoin, VkTypeOK, Told
<1>5. CASE CloseWindow
  <2>1. /\ shared' = [shared EXCEPT !.running = FALSE] /\ vkEvents' = vkEvents + 1
        /\ UNCHANGED <<vkCore, vkSav, vkState, ui, emuThread, down>>
    BY <1>5 DEF CloseWindow, VkEvent, VkQuit
  <2>2. VkTypeOK' /\ shared'.joypad = shared.joypad
    <3>1. shared \in [running : BOOLEAN, paused : BOOLEAN, joypad : PadSets] /\ vkEvents \in Nat
      BY DEF VkTypeOK
    <3>2. shared' \in [running : BOOLEAN, paused : BOOLEAN, joypad : PadSets]
          /\ shared'.joypad = shared.joypad
      <4>1. shared' = [shared EXCEPT !.running = FALSE]
        BY <2>1
      <4> QED  BY <3>1, <4>1
    <3> QED  BY <2>1, <3>2 DEF VkTypeOK
  <2> QED  BY <2>1, <2>2 DEF Told
<1> QED  BY <1>1, <1>2, <1>3, <1>4, <1>5

LEMMA ButtonSteps ==
  ASSUME VkInv, (\E b \in Pads : PressOrRelease(b)) \/ Unplug
  PROVE  VkInv'
<1> USE DEF VkInv
<1>1. ASSUME NEW b \in Keys, PressOrRelease(b) PROVE VkInv'
  <2> DEFINE u == [ui EXCEPT !.key = Put(@, b, b \notin down)]
  <2>1. /\ vkEvents' = vkEvents + 1 /\ down' = Toggle(down, b)
        /\ ui' = (IF u # ui /\ ~ui.open THEN u ELSE ui)
        /\ shared' = IF u # ui /\ ~ui.open THEN [shared EXCEPT !.joypad = u.key \union u.pad] ELSE shared
        /\ UNCHANGED <<vkCore, vkSav, vkState, emuThread>>
    BY <1>1 DEF PressOrRelease, VkEvent
  <2>2. b \notin ui.pad
    BY ButtonsAssumption DEF VkTypeOK
  <2>3. u.pad = ui.pad /\ u.open = ui.open /\ u.key = Put(ui.key, b, b \notin down)
    BY DEF VkTypeOK
  <2>4. u = ui => u.key = ui.key
    OBVIOUS
  <2>5. VkTypeOK'
    BY <2>1 DEF VkTypeOK, PadSets, Pads, Put, Toggle
  <2>6. Told'
    <3>1. CASE u # ui /\ ~ui.open
      BY <2>1, <2>2, <2>3, <3>1 DEF VkTypeOK, Told, Put, Toggle
    <3>2. CASE ~(u # ui /\ ~ui.open)
      <4>1. ui' = ui /\ shared' = shared
        BY <2>1, <3>2
      <4>2. b \in down => b \notin ui.key
        BY <2>3, <2>4, <3>2 DEF Put, Told
      <4> QED  BY <2>1, <2>2, <4>1, <4>2 DEF Told, Toggle
    <3> QED  BY <3>1, <3>2
  <2> QED  BY <2>5, <2>6
<1>2. ASSUME NEW b \in PadButtons, PressOrRelease(b) PROVE VkInv'
  <2> DEFINE u == [ui EXCEPT !.pad = Put(@, b, b \notin down)]
  <2>0. b \notin Keys
    BY ButtonsAssumption
  <2>1. /\ vkEvents' = vkEvents + 1 /\ down' = Toggle(down, b)
        /\ ui' = (IF u # ui /\ ~ui.open THEN u ELSE ui)
        /\ shared' = IF u # ui /\ ~ui.open THEN [shared EXCEPT !.joypad = u.key \union u.pad] ELSE shared
        /\ UNCHANGED <<vkCore, vkSav, vkState, emuThread>>
    BY <1>2, <2>0 DEF PressOrRelease, VkEvent
  <2>2. b \notin ui.key
    BY <2>0 DEF VkTypeOK
  <2>3. u.key = ui.key /\ u.open = ui.open /\ u.pad = Put(ui.pad, b, b \notin down)
    BY DEF VkTypeOK
  <2>4. u = ui => u.pad = ui.pad
    OBVIOUS
  <2>5. VkTypeOK'
    BY <2>1 DEF VkTypeOK, PadSets, Pads, Put, Toggle
  <2>6. Told'
    <3>1. CASE u # ui /\ ~ui.open
      BY <2>1, <2>2, <2>3, <3>1 DEF VkTypeOK, Told, Put, Toggle
    <3>2. CASE ~(u # ui /\ ~ui.open)
      <4>1. ui' = ui /\ shared' = shared
        BY <2>1, <3>2
      <4>2. b \in down => b \notin ui.pad
        BY <2>3, <2>4, <3>2 DEF Put, Told
      <4> QED  BY <2>1, <2>2, <4>1, <4>2 DEF Told, Toggle
    <3> QED  BY <3>1, <3>2
  <2> QED  BY <2>5, <2>6
<1>3. CASE Unplug
  <2>1. ui.key \intersect PadButtons = {}
    BY ButtonsAssumption DEF VkTypeOK
  <2>2. VkTypeOK'
    BY <1>3 DEF Unplug, VkEvent, VkTypeOK, PadSets, Pads
  <2>3. Told'
    BY <1>3, <2>1 DEF Unplug, VkEvent, VkTypeOK, Told
  <2> QED  BY <2>2, <2>3
<1> QED  BY <1>1, <1>2, <1>3 DEF Pads

(* A loaded state brings back its buttons; a saved one changes none.        *)
LEMMA StateSteps ==
  ASSUME VkInv, VkEvent, VkSaveState \/ VkLoadState
  PROVE  VkInv'
<1> USE DEF VkInv
<1>1. CASE VkSaveState
  <2>1. SaveState(vkCore) \in StatesWith(PadSets)
    BY StateTaken DEF VkTypeOK
  <2> QED  BY <1>1, <2>1 DEF VkSaveState, VkEvent, VkTypeOK, Told
<1>2. CASE VkLoadState
  <2>1. CASE vkState # NoFile /\ CanLoadState(vkCore, vkState)
    <3>1. /\ vkCore' = LoadState(vkCore, vkState)
          /\ emuThread' = [emuThread EXCEPT !.restored = vkState.machine.pad]
      BY <1>2, <2>1 DEF VkLoadState
    <3>2. vkState \in StatesWith(PadSets) /\ vkCore \in CoresWith(PadSets)
      BY <2>1 DEF VkTypeOK
    <3>3. vkCore' \in CoresWith(PadSets) /\ Machine(vkCore').pad = vkState.machine.pad
      BY <3>1, <3>2, StateLoads
    <3>4. vkState.machine.pad \in PadSets
      BY <3>2 DEF StatesWith, MachinesWith
    <3>5. /\ emuThread' \in [at : {"idle", "checked", "faulted", "ended"}, applied : PadSets, restored : PadSets]
          /\ emuThread'.restored = vkState.machine.pad
      BY <3>1, <3>4 DEF VkTypeOK
    <3> QED  BY <1>2, <3>3, <3>5 DEF VkLoadState, VkEvent, VkTypeOK, Told
  <2>2. CASE ~(vkState # NoFile /\ CanLoadState(vkCore, vkState))
    BY <1>2, <2>2 DEF VkLoadState, VkEvent, VkTypeOK, Told
  <2> QED  BY <2>1, <2>2
<1> QED  BY <1>1, <1>2

(* The emulation thread gives the machine the shared buttons, unless they   *)
(* are the ones it gave it last; a frame leaves them alone.                 *)
LEMMA ThreadSteps ==
  ASSUME VkInv, VkCheck \/ VkFrame \/ VkFault \/ VkEnd
  PROVE  VkInv'
<1> USE DEF VkInv
<1>1. CASE VkCheck
  BY <1>1 DEF VkCheck, VkTypeOK, Told
<1>2. CASE VkFrame
  <2> DEFINE told == IF shared.joypad # emuThread.applied
                     THEN SetJoypadState(vkCore, shared.joypad) ELSE vkCore
  <2>1. PICK c \in StepFrame(told) :
          /\ vkCore' = c
          /\ emuThread' = [at |-> IF Machine(c).fault THEN "faulted" ELSE "idle", applied |-> shared.joypad,
                            restored |-> IF shared.joypad # emuThread.applied THEN {} ELSE emuThread.restored]
    BY <1>2 DEF VkFrame
  <2>2. UNCHANGED <<vkSav, vkState, ui, shared, down, vkEvents>>
    BY <1>2 DEF VkFrame
  <2>3. vkCore \in CoresWith(PadSets) /\ shared.joypad \in PadSets
    BY DEF VkTypeOK
  <2>4. told \in CoresWith(PadSets)
    BY <2>3, JoypadSet
  <2> DEFINE left == IF shared.joypad # emuThread.applied THEN {} ELSE emuThread.restored
  <2>5. Machine(told).pad \subseteq shared.joypad \union left
    <3>1. CASE shared.joypad # emuThread.applied
      <4>1. Machine(told) = [Machine(vkCore) EXCEPT !.pad = shared.joypad]
        BY <2>3, <3>1, JoypadSet
      <4> QED  BY <2>3, <4>1, MachineTyped DEF MachinesWith
    <3>2. CASE shared.joypad = emuThread.applied
      BY <3>2 DEF Told
    <3> QED  BY <3>1, <3>2
  <2>9. left \in PadSets
    BY DEF VkTypeOK, PadSets
  <2> HIDE DEF told, left
  <2>10. emuThread' \in [at : {"idle", "checked", "faulted", "ended"}, applied : PadSets, restored : PadSets]
         /\ emuThread'.applied = shared.joypad /\ emuThread'.restored = left
    BY <2>1, <2>3, <2>9 DEF left
  <2>6. c \in CoresWith(PadSets) /\ Machine(c).pad = Machine(told).pad
    BY <2>4, FrameKeeps
  <2>7. VkTypeOK'
    BY <2>1, <2>2, <2>3, <2>6, <2>10 DEF VkTypeOK
  <2>8. Told'
    BY <2>1, <2>2, <2>5, <2>6, <2>10 DEF Told
  <2> QED  BY <2>7, <2>8
<1>3. CASE VkFault
  <2>1. shared' = [shared EXCEPT !.running = FALSE]
    BY <1>3 DEF VkFault
  <2>2. shared' \in [running : BOOLEAN, paused : BOOLEAN, joypad : PadSets] /\ shared'.joypad = shared.joypad
    BY <2>1 DEF VkTypeOK
  <2>3. emuThread' \in [at : {"idle", "checked", "faulted", "ended"}, applied : PadSets, restored : PadSets]
        /\ emuThread'.applied = emuThread.applied /\ emuThread'.restored = emuThread.restored
    BY <1>3 DEF VkFault, VkTypeOK
  <2> QED  BY <1>3, <2>2, <2>3 DEF VkFault, VkTypeOK, Told
<1>4. CASE VkEnd
  BY <1>4 DEF VkEnd, VkTypeOK, Told
<1> QED  BY <1>1, <1>2, <1>3, <1>4

(* The entries of the menu.                                                 *)
LEMMA MenuActions ==
  ASSUME VkInv, ApplyMenuAction \/ QuickSave \/ QuickLoad
  PROVE  VkInv'
<1>1. CASE QuickSave \/ QuickLoad
  BY <1>1, StateSteps DEF QuickSave, QuickLoad
<1>2. CASE ApplyMenuAction
  <2>1. VkEvent
    BY <1>2 DEF ApplyMenuAction
  <2>2. CASE /\ ui' = SetMenuOpen(ui, FALSE) /\ shared' = Share(ui', shared.joypad)
             /\ UNCHANGED <<vkCore, vkSav, vkState, emuThread, down>>
    <3>1. vkEvents' \in Nat
      BY <2>1 DEF VkEvent, VkInv, VkTypeOK
    <3>2. VkTypeOK'
      BY <2>2, <3>1, MenuSwitched, Zenon DEF VkInv, VkTypeOK
    <3>3. Told'
      BY <2>2, MenuSwitched DEF VkInv, Told
    <3> QED  BY <3>2, <3>3 DEF VkInv
  <2>3. CASE VkSaveState \/ VkLoadState
    BY <2>1, <2>3, StateSteps
  <2>4. CASE UNCHANGED <<vkCore, vkSav, vkState, ui, shared, emuThread, down>>
    BY <2>1, <2>4 DEF VkEvent, VkInv, VkTypeOK, Told
  <2>5. CASE VkQuit
    BY <2>1, <2>5, MenuSteps DEF CloseWindow
  <2> QED  BY <1>2, <2>2, <2>3, <2>4, <2>5 DEF ApplyMenuAction
<1> QED  BY <1>1, <1>2

LEMMA VkStep == VkInv /\ [VkNext]_vkVars => VkInv'
<1> SUFFICES ASSUME VkInv, [VkNext]_vkVars PROVE VkInv'
  OBVIOUS
<1>1. CASE UNCHANGED vkVars
  BY <1>1 DEF vkVars, VkInv, VkTypeOK, Told
<1>2. CASE VkNext
  BY <1>2, ThreadSteps, MenuSteps, MenuActions, ButtonSteps DEF VkNext, Pads
<1> QED  BY <1>1, <1>2

(* The inductive invariant of a session of the Vulkan frontend.             *)
THEOREM VulkanInvariance == VkSpec => []VkInv
<1> QED  BY VkInitially, VkStep, PTL DEF VkSpec

(* No button sticks: whatever the menu or an unplugged pad hid, the core is *)
(* told only of buttons that the player still holds down, and has no other, *)
(* but for those of a loaded state, until the shared buttons change.        *)
THEOREM VulkanButtons == VkSpec => []NoStuckButton
<1>1. VkInv => NoStuckButton
  BY DEF VkInv, Told, NoStuckButton
<1> QED  BY <1>1, VulkanInvariance, PTL

(* A menu that was moved or drawn shows the entry it selects.               *)
THEOREM VulkanSelection == VkSpec => MenuShowsSelection
<1> DEFINE A == ui.open /\ ui'.open /\ <<ui'.index, ui'.scroll>> # <<ui.index, ui.scroll>> =>
                  ui'.scroll <= ui'.index /\ ui'.index < ui'.scroll + Visible
<1>1. VkInv /\ [VkNext]_vkVars => [A]_vkVars
  <2> SUFFICES ASSUME VkInv, [VkNext]_vkVars, ui' # ui, ui.open, ui'.open
               PROVE  \/ <<ui'.index, ui'.scroll>> = <<ui.index, ui.scroll>>
                      \/ ui'.scroll <= ui'.index /\ ui'.index < ui'.scroll + Visible
    BY Zenon DEF A, vkVars
  <2>1. ui \in [at : {"loop", "done"}, open : BOOLEAN, index : 0..(Items - 1),
               scroll : 0..(Items - Visible), key : SUBSET Keys, pad : SUBSET PadButtons]
    BY DEF VkInv, VkTypeOK
  <2>2. ASSUME NEW d \in {1, -1}, MoveMenu(d)
        PROVE  ui'.scroll <= ui'.index /\ ui'.index < ui'.scroll + Visible
    <3> DEFINE u == [ui EXCEPT !.index = (@ + d + Items) % Items]
    <3>1. (ui.index + d + Items) % Items \in 0..(Items - 1)
      BY <2>1, MenuAssumption
    <3>2. u \in [at : {"loop", "done"}, open : BOOLEAN, index : 0..(Items - 1),
                 scroll : 0..(Items - Visible), key : SUBSET Keys, pad : SUBSET PadButtons]
      BY <2>1, <3>1
    <3>3. ui' = KeepSelectionVisible(u)
      BY <2>2 DEF MoveMenu
    <3> HIDE DEF u
    <3> QED  BY <3>2, <3>3, SelectionShown
  <2>3. CASE Draw
    BY <2>1, <2>3, SelectionShown DEF Draw
  <2>4. ASSUME NEW b \in Pads, PressOrRelease(b) PROVE ui' = ui
    BY <2>4 DEF PressOrRelease
  <2>5. CASE ToggleMenu
    <3>1. ui' = SetMenuOpen(ui, FALSE)
      BY <2>1, <2>5 DEF ToggleMenu
    <3>2. ui' = [ui EXCEPT !.open = FALSE]
      BY <2>1, <3>1 DEF SetMenuOpen
    <3> QED  BY <2>1, <3>2
  <2>6. CASE ApplyMenuAction
    <3>1. CASE ui' = SetMenuOpen(ui, FALSE)
      <4>1. ui' = [ui EXCEPT !.open = FALSE]
        BY <3>1 DEF SetMenuOpen
      <4> QED  BY <2>1, <4>1
    <3> QED  BY <2>6, <3>1 DEF ApplyMenuAction, VkSaveState, VkLoadState, VkQuit
  <2>7. CASE Unplug \/ VkJoin
    BY <2>1, <2>7 DEF Unplug, VkJoin
  <2>8. CASE UNCHANGED ui
    BY <2>8
  <2> QED  BY <2>2, <2>3, <2>4, <2>5, <2>6, <2>7, <2>8
             DEF VkNext, vkVars, Pads, VkCheck, VkFrame, VkFault, VkEnd,
                 QuickSave, QuickLoad, CloseWindow, VkSaveState, VkLoadState, VkQuit
<1> QED  BY <1>1, VulkanInvariance, PTL DEF VkSpec, MenuShowsSelection

(***************************************************************************)
(* The SDL frontend: types, and the files of a session.                    *)
(***************************************************************************)
Bits == {0, 4}
BitSets == SUBSET Bits
SdlModes == {"Launcher", "Hidden", "Menu", "Settings", "InputMap"}
Apps == [at : {"events", "top", "leaving", "joining", "done"}, mode : SdlModes, lastMode : SdlModes,
         running : BOOLEAN, loaded : BOOLEAN, game : Owners, key : BitSets, pad : BitSets, joypad : BitSets]
Emus == [active : BOOLEAN, loaded : BOOLEAN, running : BOOLEAN, faulted : BOOLEAN, pending : BitSets]
Threads == [at : {"idle", "checked", "stepped", "faulted", "ended"}, applied : BitSets, fault : BOOLEAN]

SdlTypeOK ==
  /\ core \in CoresWith(BitSets)
  /\ sav \in [Games -> Images \union {NoFile}]
  /\ state \in [Games -> StatesWith(BitSets) \union {NoFile}]
  /\ app \in Apps /\ (app.loaded <=> app.game # NoGame)
  /\ emu \in Emus
  /\ thread \in Threads
  /\ held \in SUBSET Buttons
  /\ events \in Nat

LEMMA SdlInitially == SdlInit => SdlTypeOK
<1> SUFFICES ASSUME SdlInit PROVE SdlTypeOK
  OBVIOUS
<1>1. core \in CoresWith(BitSets)
  BY NewCoreTypes DEF SdlInit, BitSets
<1>2. app \in Apps /\ (app.loaded <=> app.game # NoGame)
  BY DEF SdlInit, NewApp, Apps, SdlModes, Owners, BitSets
<1>3. emu \in Emus /\ thread \in Threads
  BY DEF SdlInit, NewEmu, NewThread, Emus, Threads, BitSets
<1> QED  BY <1>1, <1>2, <1>3 DEF SdlInit, SdlTypeOK

(* A file is written for the open game only.                                *)
LEMMA RamSaved ==
  ASSUME SdlTypeOK, SaveRam
  PROVE  /\ sav' \in [Games -> Images \union {NoFile}]
         /\ \A g \in Games : sav'[g] # sav[g] => g = app.game /\ app.loaded /\ sav'[g] = Machine(core).ram
         /\ app.loaded /\ HasBattery(core) => app.game \in Games /\ sav'[app.game] = Machine(core).ram
<1>1. Machine(core).ram \in Images
  BY MachineTyped DEF SdlTypeOK, MachinesWith
<1>2. app.loaded => app.game \in Games
  BY DEF SdlTypeOK, Apps, Owners
<1> QED  BY <1>1, <1>2 DEF SaveRam, SdlTypeOK

(* The emulation thread keeps the types and touches no file.                *)
LEMMA EmuThreadTypes ==
  ASSUME SdlTypeOK, EmuThread
  PROVE  SdlTypeOK' /\ UNCHANGED <<sav, state, app>>
<1>1. CASE EmuCheck
  BY <1>1 DEF EmuCheck, SdlTypeOK, Threads
<1>2. CASE EmuFrame
  <2> DEFINE told == IF emu.pending # thread.applied THEN SetJoypadState(core, emu.pending) ELSE core
  <2>1. PICK c \in StepFrame(told) :
          core' = c /\ thread' = [at |-> "stepped", applied |-> emu.pending, fault |-> Machine(c).fault]
    BY <1>2 DEF EmuFrame
  <2>2. core \in CoresWith(BitSets) /\ emu.pending \in BitSets
    BY DEF SdlTypeOK, Emus
  <2>3. told \in CoresWith(BitSets)
    BY <2>2, JoypadSet
  <2> HIDE DEF told
  <2>4. c \in CoresWith(BitSets)
    BY <2>3, FrameKeeps
  <2>5. Machine(c).fault \in BOOLEAN
    BY <2>4, MachineTyped DEF MachinesWith
  <2>6. thread' \in Threads
    BY <2>1, <2>2, <2>5 DEF Threads
  <2> QED  BY <1>2, <2>1, <2>4, <2>6 DEF EmuFrame, SdlTypeOK
<1>3. CASE EmuPublish
  <2>1. thread \in Threads /\ emu \in Emus
    BY DEF SdlTypeOK
  <2>2. emu' \in Emus
    BY <1>3, <2>1 DEF EmuPublish, Emus, Threads
  <2>3. thread' \in Threads
    BY <1>3, <2>1 DEF EmuPublish, Threads
  <2> QED  BY <1>3, <2>2, <2>3 DEF EmuPublish, SdlTypeOK
<1>4. CASE EmuStop
  <2>1. emu' \in Emus /\ thread' \in Threads
    BY <1>4 DEF EmuStop, SdlTypeOK, Emus, Threads
  <2> QED  BY <1>4, <2>1 DEF EmuStop, SdlTypeOK
<1>5. CASE EmuEnd
  <2>1. thread' \in Threads
    BY <1>5 DEF EmuEnd, SdlTypeOK, Threads
  <2> QED  BY <1>5, <2>1 DEF EmuEnd, SdlTypeOK
<1> QED  BY <1>1, <1>2, <1>3, <1>4, <1>5 DEF EmuThread

(* The end of each turn of the main loop.                                   *)
LEMMA LoopTypes ==
  ASSUME SdlTypeOK, MainLoop
  PROVE  /\ SdlTypeOK' /\ UNCHANGED <<core, state>> /\ app'.game = app.game
         /\ SaveRam \/ UNCHANGED sav
         /\ app'.at = "done" /\ app.at # "done" => SaveRam
<1> USE DEF SdlTypeOK
<1>1. CASE AfterEvents
  <2> DEFINE entered == app.mode = "Hidden" /\ app.lastMode # "Hidden"
             plays == app.mode = "Hidden" /\ app.loaded
             cleared == IF entered THEN [app EXCEPT !.key = {}, !.pad = {}, !.joypad = {}] ELSE app
             polled == [cleared EXCEPT !.key = PolledBits(held \intersect {"key A"}),
                                       !.pad = PolledBits(held \intersect {"pad Right"})]
             known == IF entered THEN {} ELSE emu.pending
             shows == IF plays THEN Combine(polled) ELSE cleared
             at == IF app.running THEN "top" ELSE "leaving"
  <2>1. /\ app' = [shows EXCEPT !.lastMode = app.mode, !.at = at]
        /\ emu' = [emu EXCEPT !.active = plays, !.loaded = app.loaded,
                              !.pending = IF plays /\ Combine(polled).joypad # polled.joypad
                                          THEN Combine(polled).joypad ELSE known]
        /\ UNCHANGED <<core, sav, state, thread, held, events>>
    BY <1>1 DEF AfterEvents
  <2>2. cleared \in Apps /\ cleared.loaded = app.loaded /\ cleared.game = app.game
    BY DEF Apps, BitSets
  <2> HIDE DEF cleared
  <2>3. \A S : PolledBits(S) \in BitSets
    BY DEF PolledBits, PollBit, BitSets, Bits
  <2>4. polled \in Apps /\ polled.loaded = app.loaded /\ polled.game = app.game
    BY <2>2, <2>3 DEF Apps
  <2> HIDE DEF polled
  <2>5. /\ Combine(polled) \in Apps
        /\ Combine(polled).loaded = app.loaded /\ Combine(polled).game = app.game
    BY <2>4 DEF Combine, Apps, BitSets
  <2>6. shows \in Apps /\ shows.loaded = app.loaded /\ shows.game = app.game
    BY <2>2, <2>5
  <2>7. Combine(polled).joypad \in BitSets /\ known \in BitSets
    BY <2>5 DEF Apps, Emus, BitSets
  <2> HIDE DEF shows, known
  <2>8. app' \in Apps /\ app'.loaded = app.loaded /\ app'.game = app.game /\ app'.at # "done"
    BY <2>1, <2>6 DEF Apps
  <2>9. emu' \in Emus
    BY <2>1, <2>7 DEF Emus, Apps
  <2> QED  BY <2>1, <2>8, <2>9
<1>2. CASE Top
  BY <1>2 DEF Top, Apps
<1>3. CASE TopFault
  BY <1>3, RamSaved DEF TopFault, Apps, Emus
<1>4. CASE Leave
  BY <1>4 DEF Leave, Apps, Emus
<1>5. CASE Join
  BY <1>5, RamSaved DEF Join, Apps
<1> QED  BY <1>1, <1>2, <1>3, <1>4, <1>5 DEF MainLoop

(* The player's events: only a launch and a loaded state change the core,   *)
(* only a saved state a file.                                               *)
LEMMA LaunchTypes ==
  ASSUME SdlTypeOK, NEW g \in Games, Launch(g)
  PROVE  /\ SdlTypeOK' /\ UNCHANGED <<sav, state>> /\ app'.game = g /\ app'.loaded /\ app'.at = app.at
         /\ core'.system = SystemOf[g]
         /\ Machine(core').game = g
         /\ Machine(core').ram = IF g \in Batteries /\ sav[g] # NoFile THEN sav[g] ELSE Image(g, 0)
         /\ core'.machines = [core.machines EXCEPT ![Side(SystemOf[g])] = Machine(core')]
<1> DEFINE fresh == LoadRom(SetSystem(core, SystemOf[g]), g)
<1>1. /\ core' = IF HasBattery(fresh) /\ sav[g] # NoFile THEN LoadRamData(fresh, sav[g]) ELSE fresh
      /\ app' = [app EXCEPT !.loaded = TRUE, !.game = g, !.mode = "Hidden",
                            !.key = {}, !.pad = {}, !.joypad = {}]
      /\ emu' = [emu EXCEPT !.active = FALSE, !.loaded = TRUE, !.faulted = FALSE, !.pending = {}]
      /\ events' = events + 1
      /\ UNCHANGED <<sav, state, thread, held>>
  BY DEF Launch, Event
<1>2. core \in CoresWith(BitSets) /\ {} \in BitSets
  BY DEF SdlTypeOK, BitSets
<1>3. /\ fresh \in CoresWith(BitSets) /\ Machine(fresh) = Blank(g) /\ fresh.system = SystemOf[g]
  BY <1>2, RomLoads
<1>4. fresh.machines = [core.machines EXCEPT ![Side(SystemOf[g])] = Blank(g)]
  BY <1>2 DEF LoadRom, SetSystem, WithMachine, CoresWith
<1> HIDE DEF fresh
<1>5. HasBattery(fresh) <=> g \in Batteries
  BY <1>3 DEF HasBattery, Blank
<1>6. CASE g \in Batteries /\ sav[g] # NoFile
  <2> DEFINE m == [Blank(g) EXCEPT !.ram = sav[g]]
  <2>1. sav[g] \in Images
    BY <1>6 DEF SdlTypeOK
  <2>2. m \in MachinesWith(BitSets) /\ m.game = g /\ m.ram = sav[g]
    BY <1>2, <2>1 DEF Blank, MachinesWith, Owners
  <2> HIDE DEF m
  <2>3. core' = WithMachine(fresh, m)
    BY <1>1, <1>3, <1>5, <1>6 DEF LoadRamData, m
  <2>4. /\ core' \in CoresWith(BitSets) /\ Machine(core') = m /\ core'.system = SystemOf[g]
    BY <1>3, <2>2, <2>3, MachineInUse
  <2>5. core'.machines = [core.machines EXCEPT ![Side(SystemOf[g])] = m]
    BY <1>2, <1>3, <1>4, <2>3 DEF WithMachine, CoresWith
  <2> HIDE DEF m
  <2>6. app' \in Apps /\ emu' \in Emus
    BY <1>1, <1>2 DEF SdlTypeOK, Apps, Emus, Owners, SdlModes
  <2>7. app'.game = g /\ app'.loaded /\ app'.at = app.at /\ g # NoGame
    BY <1>1, GamesAssumption DEF SdlTypeOK, Apps
  <2>8. SdlTypeOK'
    BY <1>1, <2>4, <2>6, <2>7 DEF SdlTypeOK
  <2> QED  BY <1>1, <1>6, <2>2, <2>4, <2>5, <2>7, <2>8
<1>7. CASE ~(g \in Batteries /\ sav[g] # NoFile)
  <2>1. core' = fresh
    BY <1>1, <1>5, <1>7
  <2>2. Machine(core').game = g /\ Machine(core').ram = Image(g, 0)
    BY <1>3, <2>1 DEF Blank
  <2>6. app' \in Apps /\ emu' \in Emus
    BY <1>1, <1>2 DEF SdlTypeOK, Apps, Emus, Owners, SdlModes
  <2>7. app'.game = g /\ app'.loaded /\ app'.at = app.at /\ g # NoGame
    BY <1>1, GamesAssumption DEF SdlTypeOK, Apps
  <2>8. SdlTypeOK'
    BY <1>1, <1>3, <2>1, <2>6, <2>7 DEF SdlTypeOK
  <2> QED  BY <1>1, <1>3, <1>4, <1>7, <2>1, <2>2, <2>7, <2>8
<1> QED  BY <1>6, <1>7

LEMMA LaunchFailsTypes ==
  ASSUME SdlTypeOK, NEW g \in Games, LaunchFails(g)
  PROVE  SdlTypeOK' /\ UNCHANGED <<sav, state, app>>
<1>1. core' \in CoresWith(BitSets)
  BY SystemAssumption DEF LaunchFails, SdlTypeOK, SetSystem, CoresWith
<1>2. emu' \in Emus
  BY DEF LaunchFails, SdlTypeOK, Emus
<1> QED  BY <1>1, <1>2 DEF LaunchFails, Event, SdlTypeOK

LEMMA StateFileTypes ==
  ASSUME SdlTypeOK, SaveFullState \/ LoadFullState
  PROVE  SdlTypeOK' /\ UNCHANGED <<sav, app>>
<1>1. core \in CoresWith(BitSets) /\ events' = events + 1 /\ events' \in Nat
  BY DEF SaveFullState, LoadFullState, Event, SdlTypeOK
<1>2. app.loaded /\ app.game \in Games
  BY DEF SaveFullState, LoadFullState, SdlTypeOK, Apps, Owners
<1>3. CASE SaveFullState
  <2>1. SaveState(core) \in StatesWith(BitSets)
    BY <1>1, StateTaken
  <2>2. state' \in [Games -> StatesWith(BitSets) \union {NoFile}]
    BY <1>2, <1>3, <2>1 DEF SaveFullState, SdlTypeOK
  <2> QED  BY <1>1, <1>3, <2>2 DEF SaveFullState, SdlTypeOK
<1>4. CASE LoadFullState
  <2>1. state[app.game] \in StatesWith(BitSets)
    BY <1>2, <1>4 DEF LoadFullState, SdlTypeOK
  <2>2. core' \in CoresWith(BitSets)
    BY <1>1, <1>4, <2>1, StateLoads DEF LoadFullState
  <2> QED  BY <1>1, <1>4, <2>2 DEF LoadFullState, SdlTypeOK
<1> QED  BY <1>3, <1>4

(* The events that only move the player about.                              *)
LEMMA ScreenTypes ==
  ASSUME SdlTypeOK,
         (\E b \in Buttons : Button(b)) \/ Escape \/ F10 \/ F7 \/ MenuEntry \/ SettingsEntry \/ Quit
  PROVE  SdlTypeOK' /\ UNCHANGED <<core, sav, state>> /\ app'.game = app.game /\ app'.at = app.at
<1>1. ASSUME NEW b \in Buttons, Button(b)
      PROVE  SdlTypeOK' /\ UNCHANGED <<core, sav, state>> /\ app'.game = app.game /\ app'.at = app.at
  <2> DEFINE a == IF b = "key A" THEN [app EXCEPT !.key = Change(@, EventBit(b), b \notin held)]
                  ELSE [app EXCEPT !.pad = Change(@, EventBit(b), b \notin held)]
  <2>1. /\ held' = (IF b \notin held THEN held \union {b} ELSE held \ {b})
        /\ app' = (IF app.mode = "Hidden" THEN Combine(a) ELSE app)
        /\ emu' = (IF app.mode = "Hidden" THEN [emu EXCEPT !.pending = Pending(a)] ELSE emu)
        /\ events' = events + 1
        /\ UNCHANGED <<core, sav, state, thread>>
    BY <1>1 DEF Button, Event
  <2>2. app \in Apps /\ emu \in Emus
    BY DEF SdlTypeOK
  <2>3. \A S \in BitSets : Change(S, EventBit(b), b \notin held) \in BitSets
    BY DEF Change, EventBit, BitSets, Bits
  <2>4. a \in Apps /\ a.loaded = app.loaded /\ a.game = app.game /\ a.at = app.at
    BY <2>2, <2>3 DEF Apps
  <2> HIDE DEF a
  <2>5. /\ Combine(a) \in Apps /\ Combine(a).loaded = a.loaded /\ Combine(a).game = a.game
        /\ Combine(a).at = a.at
    BY <2>4 DEF Combine, Apps, BitSets
  <2>6. Pending(a) \in BitSets
    BY <2>2, <2>5 DEF Pending, Apps, Emus
  <2>7. emu' \in Emus
    BY <2>1, <2>2, <2>6 DEF Emus
  <2>8. held' \in SUBSET Buttons /\ events' \in Nat
    BY <2>1 DEF SdlTypeOK
  <2>9. app' \in Apps /\ app'.loaded = app.loaded /\ app'.game = app.game /\ app'.at = app.at
    BY <2>1, <2>2, <2>4, <2>5
  <2> QED  BY <2>1, <2>7, <2>8, <2>9 DEF SdlTypeOK
<1>2. CASE Escape \/ F10 \/ F7 \/ MenuEntry \/ SettingsEntry \/ Quit
  <2>1. (\E mode \in SdlModes : GoesTo(mode)) \/ Quits
    BY <1>2 DEF Escape, F10, F7, MenuEntry, SettingsEntry, Quit, SdlModes
  <2>2. events' \in Nat
    BY <1>2 DEF Escape, F10, F7, MenuEntry, SettingsEntry, Quit, Event, SdlTypeOK
  <2>3. app' \in Apps /\ app'.loaded = app.loaded /\ app'.game = app.game /\ app'.at = app.at
    BY <2>1 DEF GoesTo, Quits, SdlTypeOK, Apps
  <2> QED  BY <2>1, <2>2, <2>3 DEF GoesTo, Quits, SdlTypeOK
<1> QED  BY <1>1, <1>2

LEMMA RestartTypes ==
  ASSUME SdlTypeOK, Restart
  PROVE  SdlTypeOK' /\ UNCHANGED <<sav, state>> /\ app'.game = NoGame /\ app'.at = "events"
<1>1. core' \in CoresWith(BitSets)
  BY NewCoreTypes DEF Restart, BitSets
<1>2. app' \in Apps /\ ~app'.loaded /\ app'.game = NoGame /\ app'.at = "events"
  BY DEF Restart, NewApp, Apps, SdlModes, Owners, BitSets
<1>3. emu' \in Emus /\ thread' \in Threads
  BY DEF Restart, NewEmu, NewThread, Emus, Threads, BitSets
<1> QED  BY <1>1, <1>2, <1>3 DEF Restart, SdlTypeOK

(* A session keeps its types.                                               *)
THEOREM SdlTypes == SdlSpec => []SdlTypeOK
<1>1. SdlTypeOK /\ [MainLoop \/ EmuThread \/ Events \/ Restart]_sdlVars => SdlTypeOK'
  <2>1. SdlTypeOK /\ UNCHANGED sdlVars => SdlTypeOK'
    BY DEF sdlVars, SdlTypeOK
  <2> QED  BY <2>1, LoopTypes, EmuThreadTypes, LaunchTypes, LaunchFailsTypes, StateFileTypes,
              ScreenTypes, RestartTypes DEF Events
<1> QED  BY <1>1, SdlInitially, PTL DEF SdlSpec

(* A .sav file is written for the open game only, with its own RAM as long  *)
(* as no failed launch has led the core astray; every way out of a session  *)
(* writes it; and a game that is launched finds the RAM of its last session.*)
THEOREM SdlFiles == SdlSpec => FilesOwn
<1> DEFINE Writes == \A g \in Games : sav'[g] # sav[g] =>
                       g = app.game /\ (Sound => sav'[g] = Machine(core).ram)
           Ends == app'.at = "done" /\ app.at # "done" /\ Sound /\ app.game \in Batteries =>
                     sav'[app.game] = Machine(core).ram
           Finds == app'.game \notin {app.game, NoGame} /\ app'.game \in Batteries =>
                      Machine(core').ram = IF sav[app'.game] = NoFile THEN Image(app'.game, 0) ELSE sav[app'.game]
           A == /\ Writes
                /\ Ends
                /\ Finds
<1>1. SdlTypeOK /\ [MainLoop \/ EmuThread \/ Events \/ Restart]_sdlVars => [A]_sdlVars
  <2> SUFFICES ASSUME SdlTypeOK, MainLoop \/ EmuThread \/ Events \/ Restart
               PROVE  Writes /\ Ends /\ Finds
    OBVIOUS
  <2>1. CASE MainLoop
    <3>1. Writes
      BY <2>1, LoopTypes, RamSaved
    <3>2. Ends
      <4> SUFFICES ASSUME app'.at = "done", app.at # "done", Sound, app.game \in Batteries
                   PROVE  sav'[app.game] = Machine(core).ram
        OBVIOUS
      <4>1. app.loaded
        BY GamesAssumption DEF SdlTypeOK
      <4>2. HasBattery(core)
        BY <4>1 DEF Sound, HasBattery
      <4> QED  BY <2>1, <4>1, <4>2, LoopTypes, RamSaved
    <3>3. Finds
      BY <2>1, LoopTypes
    <3> QED  BY <3>1, <3>2, <3>3
  <2>2. CASE EmuThread
    BY <2>2, EmuThreadTypes
  <2>3. ASSUME NEW g \in Games, Launch(g) PROVE Writes /\ Ends /\ Finds
    BY <2>3, LaunchTypes
  <2>4. ASSUME NEW g \in Games, LaunchFails(g) PROVE Writes /\ Ends /\ Finds
    BY <2>4, LaunchFailsTypes
  <2>5. CASE SaveFullState \/ LoadFullState
    BY <2>5, StateFileTypes
  <2>6. CASE (\E b \in Buttons : Button(b)) \/ Escape \/ F10 \/ F7 \/ MenuEntry \/ SettingsEntry \/ Quit
    BY <2>6, ScreenTypes
  <2>7. CASE Restart
    BY <2>7, RestartTypes
  <2> QED  BY <2>1, <2>2, <2>3, <2>4, <2>5, <2>6, <2>7 DEF Events
<1> QED  BY <1>1, SdlTypes, PTL DEF SdlSpec, FilesOwn

(* What a session keeps unless a launch that fails has switched the core to *)
(* the other machine: the core uses the machine of the open game, and no    *)
(* file holds another game's RAM.                                           *)
Own(g) == core.machines[Side(SystemOf[g])]
FailsOnItsSide(g) == LaunchFails(g) => Side(SystemOf[g]) = Side(core.system)
SessionHolds ==
  /\ app.loaded => /\ Side(core.system) = Side(SystemOf[app.game])
                   /\ Own(app.game).game = app.game /\ Own(app.game).ram.of = app.game
  /\ \A g \in Games : sav[g] # NoFile => sav[g].of = g
  /\ \A g \in Games : state[g] # NoFile => state[g].machine.ram.of = g

LEMMA KeptSteps ==
  ASSUME SdlTypeOK, SessionHolds, [MainLoop \/ EmuThread \/ Events \/ Restart]_sdlVars,
         \A g \in Games : FailsOnItsSide(g)
  PROVE  SessionHolds'
<1>1. /\ Sound
      /\ app.loaded => Machine(core) = Own(app.game)
  BY DEF SessionHolds, Sound, Machine, Own
<1>2. CASE MainLoop
  <2>1. app'.game = app.game /\ (app'.loaded <=> app.loaded)
    BY <1>2, LoopTypes DEF SdlTypeOK
  <2>2. \A g \in Games : sav'[g] # NoFile => sav'[g].of = g
    BY <1>1, <1>2, LoopTypes, RamSaved DEF SessionHolds, Sound
  <2> QED  BY <1>2, <2>1, <2>2, LoopTypes DEF SessionHolds, Own
<1>3. CASE EmuThread
  <2>1. UNCHANGED <<app, sav, state>>
    BY <1>3, EmuThreadTypes
  <2>2. CASE EmuFrame
    <3> DEFINE told == IF emu.pending # thread.applied THEN SetJoypadState(core, emu.pending) ELSE core
    <3>1. core' \in StepFrame(told)
      BY <2>2 DEF EmuFrame
    <3>2. core \in CoresWith(BitSets) /\ emu.pending \in BitSets
      BY DEF SdlTypeOK, Emus
    <3>3. /\ told \in CoresWith(BitSets) /\ told.system = core.system
          /\ Machine(told).game = Machine(core).game /\ Machine(told).ram = Machine(core).ram
      <4>1. CASE emu.pending # thread.applied
        <5>1. /\ told \in CoresWith(BitSets) /\ told.system = core.system
              /\ Machine(told) = [Machine(core) EXCEPT !.pad = emu.pending]
          BY <3>2, <4>1, JoypadSet
        <5>2. Machine(core) \in MachinesWith(BitSets)
          BY <3>2, MachineTyped
        <5> QED  BY <5>1, <5>2 DEF MachinesWith
      <4>2. CASE emu.pending = thread.applied
        BY <3>2, <4>2
      <4> QED  BY <4>1, <4>2
    <3> HIDE DEF told
    <3>4. /\ core'.system = core.system /\ Machine(core').game = Machine(core).game
          /\ Machine(core').ram.of = Machine(core).ram.of
      BY <3>1, <3>3, FrameKeeps
    <3>5. app'.loaded => Machine(core') = Own(app.game)'
      BY <2>1, <3>4 DEF SessionHolds, Machine, Own
    <3> QED  BY <1>1, <2>1, <3>4, <3>5 DEF SessionHolds
  <2>3. CASE core' = core
    BY <2>1, <2>3 DEF SessionHolds, Own
  <2> QED  BY <1>3, <2>2, <2>3 DEF EmuThread, EmuCheck, EmuPublish, EmuStop, EmuEnd
<1>4. ASSUME NEW g \in Games, Launch(g) PROVE SessionHolds'
  <2>1. Machine(core') = Own(g)'
    BY <1>4, LaunchTypes DEF Machine, Own
  <2>2. Machine(core').ram.of = g
    <3>1. Image(g, 0).of = g
      BY DEF Image
    <3>2. sav[g] # NoFile => sav[g].of = g
      BY DEF SessionHolds
    <3>3. Machine(core').ram = IF g \in Batteries /\ sav[g] # NoFile THEN sav[g] ELSE Image(g, 0)
      BY <1>4, LaunchTypes
    <3> QED  BY <3>1, <3>2, <3>3
  <2>3. UNCHANGED <<sav, state>> /\ app'.game = g /\ core'.system = SystemOf[g] /\ Machine(core').game = g
    BY <1>4, LaunchTypes
  <2> QED  BY <2>1, <2>2, <2>3 DEF SessionHolds, Own
<1>10. ASSUME NEW g \in Games, LaunchFails(g) PROVE SessionHolds'
  <2>1. UNCHANGED <<sav, state, app>>
    BY <1>10, LaunchFailsTypes
  <2>2. core' = [core EXCEPT !.system = SystemOf[g]] /\ Side(SystemOf[g]) = Side(core.system)
    BY <1>10 DEF LaunchFails, SetSystem, FailsOnItsSide
  <2>3. core'.machines = core.machines /\ core'.system = SystemOf[g]
    BY <2>2 DEF SdlTypeOK, CoresWith
  <2> QED  BY <2>1, <2>2, <2>3 DEF SessionHolds, Own
<1>5. CASE SaveFullState
  <2>1. UNCHANGED <<core, app, sav>>
    BY <1>5 DEF SaveFullState
  <2>2. app.loaded /\ app.game \in Games
        /\ state' = [state EXCEPT ![app.game] = SaveState(core)]
    BY <1>5 DEF SaveFullState, SdlTypeOK, Apps, Owners
  <2>3. SaveState(core).machine.ram.of = app.game
    BY <1>1, <2>2 DEF SaveState, Sound
  <2> QED  BY <2>1, <2>2, <2>3 DEF SessionHolds, Own, SdlTypeOK
<1>6. CASE LoadFullState
  <2>1. UNCHANGED <<app, sav, state>> /\ app.loaded /\ app.game \in Games /\ state[app.game] # NoFile
    BY <1>6 DEF LoadFullState, SdlTypeOK, Apps, Owners
  <2>2. state[app.game] \in StatesWith(BitSets) /\ core \in CoresWith(BitSets)
    BY <2>1 DEF SdlTypeOK
  <2>3. CASE core' = LoadState(core, state[app.game])
    <3>1. /\ core'.system = core.system /\ Machine(core').game = Machine(core).game
          /\ Machine(core').ram = state[app.game].machine.ram
      BY <2>2, <2>3, StateLoads
    <3>2. Machine(core') = Own(app.game)'
      BY <2>1, <3>1 DEF SessionHolds, Machine, Own
    <3> QED  BY <1>1, <2>1, <3>1, <3>2 DEF SessionHolds, Sound
  <2>4. CASE core' = core
    BY <2>1, <2>4 DEF SessionHolds, Own
  <2> QED  BY <1>6, <2>3, <2>4 DEF LoadFullState
<1>7. CASE (\E b \in Buttons : Button(b)) \/ Escape \/ F10 \/ F7 \/ MenuEntry \/ SettingsEntry \/ Quit
  <2>1. UNCHANGED <<core, sav, state>> /\ app'.game = app.game /\ (app'.loaded <=> app.loaded)
    BY <1>7, ScreenTypes DEF SdlTypeOK
  <2> QED  BY <2>1 DEF SessionHolds, Own
<1>8. CASE Restart
  <2>1. UNCHANGED <<sav, state>> /\ ~app'.loaded
    BY <1>8, RestartTypes DEF SdlTypeOK
  <2> QED  BY <2>1 DEF SessionHolds
<1>9. CASE UNCHANGED sdlVars
  BY <1>9 DEF sdlVars, SessionHolds, Own
<1> QED  BY <1>2, <1>3, <1>4, <1>5, <1>6, <1>7, <1>8, <1>9, <1>10 DEF Events

(* As long as no failed launch switches between the two machines, the core  *)
(* runs the open game with its own RAM, and every .sav and .state file      *)
(* holds the RAM of the game it is named for, however often games are       *)
(* changed, saved, loaded and restarted.                                    *)
THEOREM SdlOwnFiles ==
  SdlSpec /\ [][\A g \in Games : FailsOnItsSide(g)]_sdlVars =>
    [](Sound /\ \A g \in Games : /\ sav[g] # NoFile => sav[g].of = g
                                /\ state[g] # NoFile => state[g].machine.ram.of = g)
<1> DEFINE NoneFails == \A g \in Games : FailsOnItsSide(g)
           Goal == Sound /\ \A g \in Games : /\ sav[g] # NoFile => sav[g].of = g
                                          /\ state[g] # NoFile => state[g].machine.ram.of = g
<1>1. SdlInit => SessionHolds
  BY DEF SdlInit, NewApp, SessionHolds
<1>2. SdlTypeOK /\ SessionHolds /\ [MainLoop \/ EmuThread \/ Events \/ Restart]_sdlVars /\ [NoneFails]_sdlVars => SessionHolds'
  <2>1. SessionHolds /\ UNCHANGED sdlVars => SessionHolds'
    BY DEF sdlVars, SessionHolds, Own
  <2> QED  BY <2>1, KeptSteps
<1>3. SessionHolds => Goal
  BY DEF SessionHolds, Sound, Machine, Own
<1> HIDE DEF NoneFails, Goal
<1>4. SdlSpec /\ [][NoneFails]_sdlVars => []Goal
  BY <1>1, <1>2, <1>3, SdlTypes, PTL DEF SdlSpec
<1> QED  BY <1>4 DEF NoneFails, Goal

(***************************************************************************)
(* The settings: what is in force, and the files it comes from.            *)
(***************************************************************************)
SetTypeOK ==
  /\ inForce \in Settings /\ global \in Settings
  /\ override \in [SettingGames -> Settings \union {None}]
  /\ maps \in [SettingGames \union {"global"} -> Levels \union {None}]
  /\ open \in [game : SettingGames \union {None}, active : BOOLEAN, map : SettingGames \union {"global"}]
  /\ open.active => open.game # None
  /\ ~open.active => inForce.hud = global.hud
  /\ romPath \in SettingGames \union {None}
  /\ changes \in Nat

(* Opening a game, over any base: its own settings, or the base's.          *)
FilesTyped ==
  /\ override \in [SettingGames -> Settings \union {None}]
  /\ maps \in [SettingGames \union {"global"} -> Levels \union {None}]

LEMMA MapsTyped ==
  ASSUME FilesTyped, NEW m \in SettingGames \union {"global"}
  PROVE  MapsDeadzone(m) \in Levels
BY SettingsAssumption DEF FilesTyped, MapsDeadzone

LEMMA OpenedIs ==
  ASSUME FilesTyped, NEW g \in SettingGames, NEW base \in Settings
  PROVE  /\ Opened(g) \in [game : SettingGames \union {None}, active : BOOLEAN,
                             map : SettingGames \union {"global"}]
         /\ Opened(g).game = g /\ Opened(g).game # None
         /\ Opened(g).active <=> override[g] # None
         /\ InForceFor(g, base) \in Settings
         /\ InForceFor(g, base).hud = IF override[g] # None THEN override[g].hud ELSE base.hud
<1> DEFINE s == IF override[g] # None THEN override[g] ELSE base
<1>1. /\ Opened(g) \in [game : SettingGames \union {None}, active : BOOLEAN,
                          map : SettingGames \union {"global"}]
      /\ Opened(g).game = g /\ g # None
      /\ Opened(g).active <=> override[g] # None
  BY SettingsAssumption DEF Opened
<1>2. s \in Settings
  BY DEF FilesTyped
<1>3. MapsDeadzone(Opened(g).map) \in Levels
  BY <1>1, MapsTyped
<1>4. InForceFor(g, base) = [s EXCEPT !.deadzone = MapsDeadzone(Opened(g).map)]
  BY DEF InForceFor
<1> HIDE DEF s
<1>5. InForceFor(g, base) \in Settings /\ InForceFor(g, base).hud = s.hud
  BY <1>2, <1>3, <1>4 DEF Settings
<1> QED  BY <1>1, <1>5 DEF s

LEMMA DefaultsTyped == Defaults \in Settings
BY SettingsAssumption DEF Defaults, Settings

LEMMA SetInitially == SetInit => SetTypeOK
<1> SUFFICES ASSUME SetInit PROVE SetTypeOK
  OBVIOUS
<1>1. FilesTyped
  BY DEF SetInit, FilesTyped
<1>2. CASE open = Unopened /\ romPath = None /\ inForce \in Settings
  BY <1>1, <1>2 DEF SetInit, SetTypeOK, FilesTyped, Unopened
<1>3. ASSUME NEW g \in SettingGames, open = Opened(g), romPath = g, inForce = InForceFor(g, Defaults)
      PROVE  SetTypeOK
  <2>1. /\ open \in [game : SettingGames \union {None}, active : BOOLEAN, map : SettingGames \union {"global"}]
        /\ open.game # None /\ inForce \in Settings
    BY <1>1, <1>3, OpenedIs, DefaultsTyped
  <2> QED  BY <1>1, <1>3, <2>1 DEF SetInit, SetTypeOK, FilesTyped
<1> QED  BY <1>2, <1>3 DEF SetInit

(* What a step may not do to the settings of a game.                        *)
Untouched ==
  /\ open.active /\ ~Exit => global' = global
  /\ \A g \in SettingGames : override'[g] # override[g] => g = open.game \/ open' = open
  /\ ~open'.active => inForce'.hud = global'.hud
  /\ open'.active /\ (open.active /\ open'.game = open.game => romPath = open.game /\ FileInForce) =>
       FileInForce'

LEMMA OpenSteps ==
  ASSUME SetTypeOK, NEW g \in SettingGames, OpenGame(g) \/ OpenFails(g)
  PROVE  SetTypeOK' /\ Untouched
<1> USE DEF SetTypeOK
<1>1. CASE OpenGame(g)
  <2>1. /\ open' = Opened(g) /\ romPath' = g /\ inForce' = InForceFor(g, global)
        /\ changes' = changes + 1 /\ UNCHANGED <<global, override, maps>>
    BY <1>1 DEF OpenGame, Step
  <2>2. FilesTyped
    BY DEF FilesTyped
  <2>3. /\ open' \in [game : SettingGames \union {None}, active : BOOLEAN, map : SettingGames \union {"global"}]
        /\ open'.game = g /\ open'.game # None /\ (open'.active <=> override[g] # None)
        /\ inForce' \in Settings
        /\ inForce'.hud = IF override[g] # None THEN override[g].hud ELSE global.hud
    BY <2>1, <2>2, OpenedIs
  <2>4. SetTypeOK'
    BY <2>1, <2>3
  <2>5. Untouched
    BY <2>1, <2>3 DEF Untouched, FileInForce
  <2> QED  BY <2>4, <2>5
<1>2. CASE OpenFails(g)
  BY <1>2 DEF OpenFails, Step, Untouched, FileInForce
<1> QED  BY <1>1, <1>2

(* All settings are stored in one place.                                    *)
LEMMA StoreKeeps ==
  ASSUME SetTypeOK, NEW s \in Settings, Store(s), UNCHANGED open
  PROVE  /\ inForce' \in Settings /\ global' \in Settings
         /\ override' \in [SettingGames -> Settings \union {None}]
         /\ ~open.active => inForce'.hud = global'.hud
         /\ Untouched
<1> USE DEF SetTypeOK
<1>1. CASE open.active
  <2>1. inForce' = s /\ override' = [override EXCEPT ![open.game] = s] /\ UNCHANGED global
    BY <1>1 DEF Store
  <2>2. open.game \in SettingGames
    BY <1>1
  <2>3. override'[open.game] = s /\ s # None
    BY <2>1, <2>2, SettingsAssumption
  <2> QED  BY <1>1, <2>1, <2>2, <2>3 DEF Untouched, FileInForce
<1>2. CASE ~open.active
  BY <1>2 DEF Store, Untouched, FileInForce
<1> QED  BY <1>1, <1>2

LEMMA ChangeSteps ==
  ASSUME SetTypeOK, NEW x \in Levels, ChangeHud(x) \/ ChangeDeadzone(x)
  PROVE  SetTypeOK' /\ Untouched
<1>1. [inForce EXCEPT !.hud = x] \in Settings /\ [inForce EXCEPT !.deadzone = x] \in Settings
  BY DEF SetTypeOK, Settings
<1>2. UNCHANGED <<open, romPath>> /\ changes' \in Nat
  BY DEF ChangeHud, ChangeDeadzone, Step, SetTypeOK
<1>3. maps' \in [SettingGames \union {"global"} -> Levels \union {None}]
  BY DEF ChangeHud, ChangeDeadzone, SetTypeOK
<1>4. PICK s \in Settings : Store(s)
  BY <1>1 DEF ChangeHud, ChangeDeadzone
<1> QED  BY <1>2, <1>3, <1>4, StoreKeeps DEF SetTypeOK

LEMMA ColorSteps ==
  ASSUME SetTypeOK, NEW x \in Levels, ChangeColor(x) \/ F2(x) \/ SaveMap
  PROVE  SetTypeOK' /\ Untouched
<1> USE DEF SetTypeOK
<1> DEFINE s == [inForce EXCEPT !.cgb = x]
<1>1. s \in Settings /\ s.hud = inForce.hud
  BY DEF Settings
<1>2. CASE ChangeColor(x)
  <2>1. inForce' = s /\ UNCHANGED <<maps, open, romPath>> /\ changes' \in Nat
    BY <1>2 DEF ChangeColor, Step
  <2> HIDE DEF s
  <2>2. CASE open.active
    <3>1. override' = [override EXCEPT ![open.game] = s] /\ UNCHANGED global
      BY <1>2, <2>2 DEF ChangeColor, s
    <3>2. open.game \in SettingGames
      BY <2>2
    <3>3. override'[open.game] = s /\ s # None
      BY <1>1, <3>1, <3>2, SettingsAssumption
    <3> QED  BY <1>1, <2>1, <2>2, <3>1, <3>2, <3>3 DEF Untouched, FileInForce
  <2>3. CASE ~open.active
    <3>1. global' = [global EXCEPT !.cgb = x] /\ UNCHANGED override
      BY <1>2, <2>3 DEF ChangeColor
    <3>2. global' \in Settings /\ global'.hud = global.hud
      BY <3>1 DEF Settings
    <3> QED  BY <1>1, <2>1, <2>3, <3>1, <3>2 DEF Untouched, FileInForce
  <2> QED  BY <2>2, <2>3
<1>3. CASE F2(x)
  <2>1. inForce' = s /\ UNCHANGED <<global, override, maps, open, romPath>> /\ changes' \in Nat
    BY <1>3 DEF F2, Step
  <2> HIDE DEF s
  <2> QED  BY <1>1, <2>1 DEF Untouched, FileInForce
<1>4. CASE SaveMap
  BY <1>4 DEF SaveMap, Step, Settings, Untouched, FileInForce
<1> QED  BY <1>2, <1>3, <1>4

(* PER-ROM for the open game.                                               *)
LEMMA ToggleKeeps ==
  ASSUME SetTypeOK, Step, OverrideOff \/ OverrideOn
  PROVE  SetTypeOK' /\ Untouched
<1> USE DEF SetTypeOK
<1>1. changes' \in Nat
  BY DEF Step
<1>2. CASE OverrideOff
  <2>1. /\ override' = [override EXCEPT ![open.game] = None]
        /\ open' = [open EXCEPT !.active = FALSE, !.map = "global"]
        /\ inForce' = global /\ UNCHANGED <<global, maps, romPath>>
    BY <1>2 DEF OverrideOff
  <2>2. ~open'.active /\ open'.game = open.game
        /\ open' \in [game : SettingGames \union {None}, active : BOOLEAN, map : SettingGames \union {"global"}]
    BY <2>1
  <2> QED  BY <1>1, <2>1, <2>2 DEF Untouched
<1>3. CASE OverrideOn
  <2> DEFINE g == open.game
             s == [inForce EXCEPT !.deadzone = IF maps[g] = None THEN @ ELSE maps[g]]
  <2>1. /\ g # None /\ ~open.active
        /\ open' = [open EXCEPT !.active = TRUE, !.map = g]
        /\ maps' = [maps EXCEPT ![g] = IF @ = None THEN inForce.deadzone ELSE @]
        /\ inForce' = s
        /\ override' = [override EXCEPT ![g] = s]
        /\ UNCHANGED <<global, romPath>>
    BY <1>3 DEF OverrideOn
  <2>2. g \in SettingGames
    BY <2>1
  <2>3. s \in Settings
    BY <2>2 DEF Settings
  <2>4. maps' \in [SettingGames \union {"global"} -> Levels \union {None}]
    BY <2>1, <2>2 DEF Settings
  <2> HIDE DEF s
  <2>5. open'.active /\ open'.game = g
        /\ open' \in [game : SettingGames \union {None}, active : BOOLEAN, map : SettingGames \union {"global"}]
    BY <2>1, <2>2
  <2>6. override'[g] = s /\ s # None
    BY <2>1, <2>2, <2>3, SettingsAssumption
  <2> QED  BY <1>1, <2>1, <2>2, <2>3, <2>4, <2>5, <2>6 DEF Untouched, FileInForce
<1> QED  BY <1>2, <1>3

LEMMA ToggleSteps ==
  ASSUME SetTypeOK, ToggleOpen \/ (\E g \in SettingGames : ToggleFor(g))
  PROVE  SetTypeOK' /\ Untouched
<1>1. CASE ToggleOpen
  BY <1>1, ToggleKeeps DEF ToggleOpen
<1>2. ASSUME NEW g \in SettingGames, ToggleFor(g) PROVE SetTypeOK' /\ Untouched
  <2>1. CASE open.game # None /\ g = romPath
    BY <1>2, <2>1, ToggleKeeps DEF ToggleFor
  <2>2. CASE ~(open.game # None /\ g = romPath)
    <3>1. /\ override' = [override EXCEPT ![g] = IF @ = None THEN global ELSE None]
          /\ maps' = [maps EXCEPT ![g] = IF override[g] = None /\ @ = None
                                         THEN MapsDeadzone("global") ELSE @]
          /\ UNCHANGED <<inForce, global, open, romPath>>
          /\ changes' = changes + 1
      BY <1>2, <2>2 DEF ToggleFor, Step
    <3>2. maps' \in [SettingGames \union {"global"} -> Levels \union {None}]
      BY <3>1, MapsTyped DEF SetTypeOK, FilesTyped
    <3>3. SetTypeOK'
      BY <3>1, <3>2 DEF SetTypeOK
    <3>4. romPath = open.game /\ open.active => override'[open.game] = override[open.game]
      BY <2>2, <3>1 DEF SetTypeOK
    <3>5. Untouched
      BY <3>1, <3>4 DEF Untouched, FileInForce, SetTypeOK
    <3> QED  BY <3>3, <3>5
  <2> QED  BY <2>1, <2>2
<1> QED  BY <1>1, <1>2

(* Leaving, and the next start.                                             *)
LEMMA ExitSteps ==
  ASSUME SetTypeOK, Exit
  PROVE  SetTypeOK' /\ Untouched /\ NextSession
<1> USE DEF SetTypeOK
<1>1. global' = inForce' /\ changes' = changes + 1 /\ UNCHANGED <<override, maps>>
  BY DEF Exit, Step
<1>2. ASSUME NEW color \in Levels, inForce' = [inForce EXCEPT !.cgb = color], open' = Unopened, romPath' = None
      PROVE  SetTypeOK' /\ Untouched /\ NextSession
  <2>1. inForce' \in Settings /\ inForce'.hud = inForce.hud
    BY <1>2 DEF Settings
  <2>2. open'.game = None /\ ~open'.active
        /\ open' \in [game : SettingGames \union {None}, active : BOOLEAN, map : SettingGames \union {"global"}]
    BY <1>2 DEF Unopened
  <2> QED  BY <1>1, <1>2, <2>1, <2>2 DEF Untouched, NextSession
<1>3. ASSUME NEW g \in SettingGames, open' = Opened(g), romPath' = g, inForce' = InForceFor(g, Defaults)
      PROVE  SetTypeOK' /\ Untouched /\ NextSession
  <2>1. FilesTyped
    BY DEF FilesTyped
  <2>2. /\ open' \in [game : SettingGames \union {None}, active : BOOLEAN, map : SettingGames \union {"global"}]
        /\ open'.game = g /\ open'.game # None /\ (open'.active <=> override[g] # None)
        /\ inForce' \in Settings
        /\ inForce'.hud = IF override[g] # None THEN override[g].hud ELSE Defaults.hud
    BY <1>3, <2>1, OpenedIs, DefaultsTyped
  <2>3. Defaults.hud = DefaultLevel
    BY DEF Defaults
  <2> QED  BY <1>1, <1>3, <2>2, <2>3 DEF Untouched, FileInForce, NextSession
<1> QED  BY <1>2, <1>3 DEF Exit

LEMMA SettingsStep ==
  ASSUME SetTypeOK, SetNext
  PROVE  SetTypeOK' /\ Untouched
<1>1. ASSUME NEW g \in SettingGames, OpenGame(g) \/ OpenFails(g) PROVE SetTypeOK' /\ Untouched
  BY <1>1, OpenSteps
<1>2. ASSUME NEW x \in Levels, ChangeHud(x) \/ ChangeDeadzone(x) PROVE SetTypeOK' /\ Untouched
  BY <1>2, ChangeSteps
<1>3. ASSUME NEW x \in Levels, ChangeColor(x) \/ F2(x) \/ SaveMap PROVE SetTypeOK' /\ Untouched
  BY <1>3, ColorSteps
<1>4. CASE ToggleOpen \/ (\E g \in SettingGames : ToggleFor(g))
  BY <1>4, ToggleSteps
<1>5. CASE Exit
  BY <1>5, ExitSteps
<1>6. CASE SaveMap
  BY <1>3, <1>6, SettingsAssumption
<1> QED  BY <1>1, <1>2, <1>3, <1>4, <1>5, <1>6 DEF SetNext

LEMMA SettingsStutter == SetTypeOK /\ UNCHANGED setVars => SetTypeOK'
BY DEF setVars, SetTypeOK

(* The settings have their types, and without an override of its own the    *)
(* open game has the global hud.                                            *)
THEOREM SettingsTypes == SetSpec => []SetTypeOK
<1>1. SetTypeOK /\ [SetNext]_setVars => SetTypeOK'
  BY SettingsStep, SettingsStutter
<1> QED  BY <1>1, SetInitially, PTL DEF SetSpec

(* Within a session no step changes the global settings under a game that   *)
(* has its own, or the file of a game that is neither open nor chosen, and  *)
(* what is in force stays what the open game's file, or else the global     *)
(* settings, say; what a session leaves for the next one, and what a start  *)
(* makes global.                                                            *)
THEOREM SettingsOwn == SetSpec => OverridesOwn
<1> DEFINE A == /\ open.active /\ ~Exit => global' = global
                /\ Exit => NextSession
                /\ \A g \in SettingGames : override'[g] # override[g] => g = open.game \/ open' = open
                /\ ~open'.active => inForce'.hud = global'.hud
                /\ open'.active /\ (open.active /\ open'.game = open.game => romPath = open.game /\ FileInForce) =>
                     FileInForce'
<1>1. SetTypeOK /\ [SetNext]_setVars => [A]_setVars
  BY SettingsStep, ExitSteps DEF Untouched
<1>2. SetSpec => [][A]_setVars
  <2> HIDE DEF A
  <2> QED  BY <1>1, SettingsTypes, PTL DEF SetSpec
<1> QED  BY <1>2 DEF OverridesOwn

(* A launch fails, if a game is open, only for that game.                  *)
OnlyReopens(g) == OpenFails(g) => open.game \in {None, g}
Agree ==
  /\ open.game # None => romPath = open.game
  /\ open.active => FileInForce

LEMMA AgreeKept ==
  ASSUME SetTypeOK, Agree, SetNext, \A g \in SettingGames : OnlyReopens(g)
  PROVE  Agree'
<1>1. SetTypeOK' /\ Untouched
  BY SettingsStep
<1>2. open'.game # None => romPath' = open'.game
  <2>1. ASSUME NEW g \in SettingGames, OpenGame(g) PROVE romPath' = open'.game
    BY <2>1 DEF OpenGame, Opened
  <2>2. ASSUME NEW g \in SettingGames, OpenFails(g) PROVE open'.game # None => romPath' = open'.game
    BY <2>2 DEF OpenFails, OnlyReopens
  <2>3. CASE OverrideOff \/ OverrideOn
    <3>1. romPath' = romPath /\ open'.game = open.game
      BY <2>3 DEF OverrideOff, OverrideOn, SetTypeOK
    <3> QED  BY <3>1 DEF Agree
  <2>4. ASSUME NEW g \in SettingGames, ToggleFor(g) PROVE open'.game # None => romPath' = open'.game
    BY <2>3, <2>4 DEF ToggleFor, Agree
  <2>5. ASSUME NEW x \in Levels, ChangeHud(x) \/ ChangeDeadzone(x) \/ ChangeColor(x) \/ F2(x)
        PROVE open'.game # None => romPath' = open'.game
    BY <2>5 DEF ChangeHud, ChangeDeadzone, ChangeColor, F2, Agree
  <2>6. CASE SaveMap
    BY <2>6 DEF SaveMap, Agree
  <2>7. CASE Exit
    BY <2>7 DEF Exit, Opened, Unopened
  <2>8. CASE ToggleOpen
    BY <2>3, <2>8 DEF ToggleOpen
  <2> QED  BY <2>1, <2>2, <2>4, <2>5, <2>6, <2>7, <2>8 DEF SetNext
<1> QED  BY <1>1, <1>2 DEF Agree, Untouched, SetTypeOK

(* Unless a launch of another game fails, a game with settings of its own   *)
(* has their file, and the file's hud is the one in force.                  *)
THEOREM SettingsInForce ==
  SetSpec /\ [][\A g \in SettingGames : OnlyReopens(g)]_setVars => [](open.active => FileInForce)
<1> DEFINE F == \A g \in SettingGames : OnlyReopens(g)
           G == open.active => FileInForce
<1>1. SetInit => Agree
  <2> SUFFICES ASSUME SetInit PROVE Agree
    OBVIOUS
  <2>1. CASE open = Unopened /\ romPath = None
    BY <2>1 DEF Unopened, Agree
  <2>2. ASSUME NEW g \in SettingGames, open = Opened(g), romPath = g PROVE Agree
    <3>1. override[g] = None
      BY DEF SetInit
    <3>2. open.game = g /\ ~open.active
      BY <2>2, <3>1 DEF Opened
    <3> QED  BY <2>2, <3>2 DEF Agree
  <2> QED  BY <2>1, <2>2 DEF SetInit
<1>2. Agree /\ UNCHANGED setVars => Agree'
  BY DEF setVars, Agree, FileInForce
<1>3. SetTypeOK /\ Agree /\ [SetNext]_setVars /\ [F]_setVars => Agree'
  BY <1>2, AgreeKept
<1>4. Agree => G
  BY DEF Agree
<1> HIDE DEF F, G
<1>5. SetSpec /\ [][F]_setVars => []G
  BY <1>1, <1>3, <1>4, SettingsTypes, PTL DEF SetSpec
<1> QED  BY <1>5 DEF F, G

(***************************************************************************)
(* The bindings: the configuration, the file, and the player's choices.    *)
(***************************************************************************)
BindingSources == Kinds \X Int
PadMaps == UNION {[S -> Actions] : S \in SUBSET BindingSources}
Configurations == [keys : [Actions -> Int], pad : PadMaps, deadzone : Int]

(* Maps of bindings: what the operations on them return.                    *)
LEMMA PadMapIs ==
  ASSUME NEW p \in PadMaps
  PROVE  /\ DOMAIN p \subseteq BindingSources /\ p \in [DOMAIN p -> Actions]
         /\ NoSource \notin DOMAIN p
<1>1. PICK S \in SUBSET BindingSources : p \in [S -> Actions]
  BY DEF PadMaps
<1>2. NoSource \notin BindingSources
  BY DEF NoSource, BindingSources, Kinds
<1> QED  BY <1>1, <1>2

LEMMA MapOfSources ==
  ASSUME NEW p, NEW S, S \subseteq BindingSources, p \in [S -> Actions]
  PROVE  p \in PadMaps
BY DEF PadMaps

LEMMA WithoutIs ==
  ASSUME NEW p \in PadMaps, NEW S
  PROVE  /\ Without(p, S) \in PadMaps
         /\ \A s : s \in DOMAIN Without(p, S) <=> s \in DOMAIN p /\ s \notin S
         /\ \A s \in DOMAIN Without(p, S) : Without(p, S)[s] = p[s]
<1>1. DOMAIN p \subseteq BindingSources /\ p \in [DOMAIN p -> Actions]
  BY PadMapIs
<1>2. Without(p, S) \in [DOMAIN p \ S -> Actions] /\ (DOMAIN p \ S) \subseteq BindingSources
  BY <1>1 DEF Without
<1> QED  BY <1>2, MapOfSources DEF Without

LEMMA WithIs ==
  ASSUME NEW p \in PadMaps, NEW s \in BindingSources, NEW a \in Actions
  PROVE  LET q == With(p, s, a)
         IN  /\ q \in PadMaps
             /\ \A u : u \in DOMAIN q <=> u = s \/ u \in DOMAIN p
             /\ q[s] = a /\ \A u \in DOMAIN p : u # s => q[u] = p[u]
<1> DEFINE q == With(p, s, a)
<1>1. DOMAIN p \subseteq BindingSources /\ p \in [DOMAIN p -> Actions]
  BY PadMapIs
<1>2. q = [u \in DOMAIN p \union {s} |-> IF u = s THEN a ELSE p[u]]
  BY DEF With
<1> HIDE DEF q
<1>3. q \in [DOMAIN p \union {s} -> Actions] /\ (DOMAIN p \union {s}) \subseteq BindingSources
  BY <1>1, <1>2
<1> QED  BY <1>2, <1>3, MapOfSources DEF q

(* What is written of an action is a source it has, if it has one and the   *)
(* file knows its buttons.                                                  *)
Bound(p, a) == Sources(p, a) # {} /\ \A s \in Sources(p, a) : ~Nameless(s)
LEMMA WrittenIs ==
  ASSUME NEW p \in PadMaps, NEW a \in Actions
  PROVE  /\ Written(p, a) \subseteq Sources(p, a) \union {NoSource}
         /\ Bound(p, a) => Written(p, a) \subseteq Sources(p, a)
<1> DEFINE kinds == <<"button", "axis+", "axis-">>
           P(n) == /\ n < 4 => OfKind(p, a, kinds[n]) # {}
                   /\ \A m \in 1..(n - 1) : OfKind(p, a, kinds[m]) = {}
           first == CHOOSE n \in 1..4 : P(n)
<1>1. kinds[1] = "button" /\ kinds[2] = "axis+" /\ kinds[3] = "axis-"
  OBVIOUS
<1> HIDE DEF kinds
<1>2. \E n \in 1..4 : P(n)
  <2>1. CASE OfKind(p, a, kinds[1]) # {}
    <3>1. P(1)
      BY <2>1
    <3> QED  BY <3>1
  <2>2. CASE OfKind(p, a, kinds[1]) = {} /\ OfKind(p, a, kinds[2]) # {}
    <3>1. P(2)
      BY <2>2
    <3> QED  BY <3>1
  <2>3. CASE OfKind(p, a, kinds[1]) = {} /\ OfKind(p, a, kinds[2]) = {} /\ OfKind(p, a, kinds[3]) # {}
    <3>1. P(3)
      BY <2>3
    <3> QED  BY <3>1
  <2>4. CASE OfKind(p, a, kinds[1]) = {} /\ OfKind(p, a, kinds[2]) = {} /\ OfKind(p, a, kinds[3]) = {}
    <3>1. P(4)
      BY <2>4
    <3> QED  BY <3>1
  <2> QED  BY <2>1, <2>2, <2>3, <2>4
<1>3. first \in 1..4 /\ P(first)
  BY <1>2
<1> HIDE DEF first
<1>4. Written(p, a) = IF first = 4 THEN {NoSource}
                      ELSE {IF Nameless(s) THEN NoSource ELSE s : s \in OfKind(p, a, kinds[first])}
  BY DEF Written, first, kinds
<1>5. \A n \in 1..3 : OfKind(p, a, kinds[n]) \subseteq Sources(p, a)
  BY DEF OfKind
<1>6. ASSUME NEW s \in Sources(p, a) PROVE first # 4
  <2>1. s \in BindingSources
    BY PadMapIs DEF Sources
  <2>2. s[1] \in Kinds
    BY <2>1 DEF BindingSources
  <2>3. s \in OfKind(p, a, s[1]) /\ \E n \in 1..3 : s[1] = kinds[n]
    BY <1>1, <2>2 DEF OfKind, Kinds
  <2> QED  BY <1>3, <2>3
<1>7. Written(p, a) \subseteq Sources(p, a) \union {NoSource}
  BY <1>3, <1>4, <1>5
<1>8. ASSUME Bound(p, a) PROVE Written(p, a) \subseteq Sources(p, a)
  <2>1. first \in 1..3
    BY <1>3, <1>6, <1>8 DEF Bound
  <2>2. \A s \in OfKind(p, a, kinds[first]) : s \in Sources(p, a) /\ ~Nameless(s)
    BY <1>5, <1>8, <2>1 DEF Bound
  <2> QED  BY <1>4, <2>1, <2>2
<1> QED  BY <1>7, <1>8

(* Binding and clearing give a map again.                                   *)
LEMMA BindingsTyped ==
  ASSUME NEW p \in PadMaps, NEW a \in Actions
  PROVE  /\ ClearPad(p, a) \in PadMaps
         /\ \A b \in MapButtons : BindButton(p, a, b) \in PadMaps
         /\ \A x \in Axes, sign \in {"axis+", "axis-"} : BindAxis(p, a, x, sign) \in PadMaps
<1>1. ClearPad(p, a) \in PadMaps
  BY WithoutIs DEF ClearPad
<1>2. ASSUME NEW b \in MapButtons PROVE BindButton(p, a, b) \in PadMaps
  <2>1. <<"button", b>> \in BindingSources
    BY DefaultAssumption DEF BindingSources, Kinds
  <2> QED  BY <2>1, WithoutIs, WithIs DEF BindButton
<1>3. ASSUME NEW x \in Axes, NEW sign \in {"axis+", "axis-"} PROVE BindAxis(p, a, x, sign) \in PadMaps
  <2>1. <<sign, x>> \in BindingSources
    BY DefaultAssumption DEF BindingSources, Kinds
  <2>2. Without(p, Sources(p, a) \union {<<"axis+", x>>, <<"axis-", x>>}) \in PadMaps
    BY WithoutIs
  <2> QED  BY <2>1, <2>2, WithIs DEF BindAxis
<1> QED  BY <1>1, <1>2, <1>3

(* The source a file names for an action is one of those it had, or none;   *)
(* and one of those it had if it had any and all have names.                *)
Faithful(lines, c) ==
  \A a \in Actions :
    /\ lines[a].key = c.keys[a]
    /\ lines[a].source \in Sources(c.pad, a) \union {NoSource}
    /\ Bound(c.pad, a) => lines[a].source \in Sources(c.pad, a)

(* While the lines are read, each action read so far has its key, its own   *)
(* bindings or fewer, and the one its line names.                           *)
Loading ==
  /\ config.deadzone = before.deadzone
  /\ \A a \in read : config.keys[a] = before.keys[a]
  /\ \A s \in DOMAIN config.pad :
       config.pad[s] \in read => s \in DOMAIN before.pad /\ before.pad[s] = config.pad[s]
  /\ \A a \in read : Bound(before.pad, a) =>
       IF file.none THEN Sources(config.pad, a) # {} ELSE file.lines[a].source \in Sources(config.pad, a)

BindInv ==
  /\ config \in Configurations /\ before \in Configurations /\ read \subseteq Actions
  /\ file.none \in BOOLEAN
  /\ ~file.none => file.deadzone = before.deadzone /\ Faithful(file.lines, before)
  /\ file.none => read = Actions
  /\ Loading

LEMMA BindFirst == InputInit => BindInv
<1> SUFFICES ASSUME InputInit PROVE BindInv
  OBVIOUS
<1>1. PadDefault \in PadMaps
  BY DefaultAssumption, MapOfSources DEF BindingSources
<1>2. Default \in Configurations
  BY <1>1, DefaultAssumption DEF Default, Configurations
<1>3. config = Default /\ before = Default /\ read = Actions /\ file.none = TRUE
  BY DEF InputInit
<1>4. Loading
  BY <1>3 DEF Loading, Bound
<1> QED  BY <1>2, <1>3, <1>4 DEF BindInv

LEMMA SaveKeeps ==
  ASSUME BindInv, NEW c \in Configurations, Save(c)
  PROVE  BindInv'
<1>1. read = Actions /\ read' = Actions /\ config' = c /\ before' = c
  BY DEF Save
<1>2. PICK source \in [Actions -> DOMAIN c.pad \union {NoSource}] :
        /\ \A a \in Actions : source[a] \in Written(c.pad, a)
        /\ file' = [none |-> FALSE, deadzone |-> c.deadzone,
                    lines |-> [a \in Actions |-> [key |-> c.keys[a], source |-> source[a]]]]
  BY DEF Save
<1>3. c.pad \in PadMaps
  BY DEF Configurations
<1>4. file'.none = FALSE /\ file'.deadzone = c.deadzone
      /\ \A a \in Actions : file'.lines[a].key = c.keys[a] /\ file'.lines[a].source = source[a]
  BY <1>2
<1>6. Faithful(file'.lines, c)
  BY <1>2, <1>3, <1>4, WrittenIs DEF Faithful
<1>7. Loading'
  BY <1>1, <1>4, <1>6 DEF Loading, Faithful
<1> QED  BY <1>1, <1>4, <1>6, <1>7 DEF BindInv

LEMMA ReloadKeeps ==
  ASSUME BindInv, Reload
  PROVE  BindInv'
<1>1. /\ config' = [Default EXCEPT !.deadzone = file.deadzone] /\ read' = {}
      /\ UNCHANGED <<file, before>> /\ file.none = FALSE
  BY DEF Reload, BindInv
<1>2. file.deadzone = before.deadzone /\ before.deadzone \in Int
  BY <1>1 DEF BindInv, Configurations
<1>3. PadDefault \in PadMaps
  BY DefaultAssumption, MapOfSources DEF BindingSources
<1>4. config' \in Configurations /\ config'.deadzone = before.deadzone
  BY <1>1, <1>2, <1>3, DefaultAssumption DEF Default, Configurations
<1> QED  BY <1>1, <1>4 DEF BindInv, Loading

LEMMA LoadLineKeeps ==
  ASSUME BindInv, NEW a \in Actions, LoadLine(a)
  PROVE  BindInv'
<1> DEFINE line == file.lines[a]
           cleared == ClearPad(config.pad, a)
<1>1. /\ a \notin read /\ config' = ReadLine(config, a, line) /\ read' = read \union {a}
      /\ UNCHANGED <<file, before>> /\ file.none = FALSE
  BY DEF LoadLine, BindInv
<1>2. config.pad \in PadMaps /\ before.pad \in PadMaps /\ config \in Configurations /\ before \in Configurations
  BY DEF BindInv, Configurations
<1>3. /\ line.key = before.keys[a]
      /\ line.source \in Sources(before.pad, a) \union {NoSource}
      /\ Bound(before.pad, a) => line.source \in Sources(before.pad, a)
  BY <1>1 DEF BindInv, Faithful
<1>4. /\ cleared \in PadMaps
      /\ \A s : s \in DOMAIN cleared <=> s \in DOMAIN config.pad /\ config.pad[s] # a
      /\ \A s \in DOMAIN cleared : cleared[s] = config.pad[s]
  BY <1>2, WithoutIs DEF ClearPad, Sources
<1> HIDE DEF line, cleared
<1>5. /\ config' = [config EXCEPT !.keys[a] = line.key,
                                  !.pad = IF line.source = NoSource THEN cleared
                                          ELSE With(cleared, line.source, a)]
  BY <1>1 DEF ReadLine, cleared
<1>6. line.key \in Int
  BY <1>2, <1>3 DEF Configurations
<1>7. ASSUME NEW q \in PadMaps, config'.pad = q,
             config' = [config EXCEPT !.keys[a] = line.key, !.pad = q]
      PROVE  /\ config' \in Configurations /\ config'.deadzone = config.deadzone
             /\ config'.keys[a] = line.key /\ \A b \in Actions : b # a => config'.keys[b] = config.keys[b]
  <2> DEFINE k == [config.keys EXCEPT ![a] = line.key]
  <2>1. config.keys \in [Actions -> Int] /\ config.deadzone \in Int
    BY <1>2 DEF Configurations
  <2>2. config' = [keys |-> k, pad |-> q, deadzone |-> config.deadzone]
    BY <1>2, <1>7 DEF Configurations
  <2>3. k \in [Actions -> Int] /\ k[a] = line.key /\ \A b \in Actions : b # a => k[b] = config.keys[b]
    BY <1>6, <2>1
  <2> HIDE DEF k
  <2> QED  BY <2>1, <2>2, <2>3 DEF Configurations
<1>8. CASE line.source = NoSource
  <2>1. ~Bound(before.pad, a)
    BY <1>2, <1>3, <1>8, PadMapIs DEF Sources
  <2>2. config'.pad = cleared /\ config' = [config EXCEPT !.keys[a] = line.key, !.pad = cleared]
    BY <1>2, <1>5, <1>8 DEF Configurations
  <2>3. /\ config' \in Configurations /\ config'.deadzone = config.deadzone
        /\ config'.keys[a] = line.key /\ \A b \in Actions : b # a => config'.keys[b] = config.keys[b]
    BY <1>4, <1>7, <2>2
  <2>4. \A s \in DOMAIN cleared :
          cleared[s] \in read' => s \in DOMAIN before.pad /\ before.pad[s] = cleared[s]
    BY <1>1, <1>4 DEF BindInv, Loading
  <2>5. ASSUME NEW b \in read', Bound(before.pad, b)
        PROVE  file.lines[b].source \in Sources(cleared, b)
    <3>1. b \in read /\ b # a
      BY <1>1, <2>1, <2>5
    <3>2. file.lines[b].source \in Sources(config.pad, b)
      BY <1>1, <2>5, <3>1 DEF BindInv, Loading
    <3> QED  BY <1>4, <3>1, <3>2 DEF Sources
  <2>6. Loading'
    BY <1>1, <1>3, <2>2, <2>3, <2>4, <2>5 DEF BindInv, Loading
  <2> QED  BY <1>1, <2>3, <2>6 DEF BindInv
<1>9. CASE line.source # NoSource
  <2> DEFINE src == line.source
             q == With(cleared, src, a)
  <2>1. src \in DOMAIN before.pad /\ before.pad[src] = a
    BY <1>3, <1>9 DEF Sources
  <2>2. src \in BindingSources
    BY <1>2, <2>1, PadMapIs
  <2>3. /\ q \in PadMaps /\ q[src] = a
        /\ \A u : u \in DOMAIN q <=> u = src \/ u \in DOMAIN cleared
        /\ \A u \in DOMAIN cleared : u # src => q[u] = cleared[u]
    BY <1>4, <2>2, WithIs
  <2>4. config'.pad = q /\ config' = [config EXCEPT !.keys[a] = line.key, !.pad = q]
    BY <1>2, <1>5, <1>9 DEF Configurations
  <2> HIDE DEF q
  <2>5. /\ config' \in Configurations /\ config'.deadzone = config.deadzone
        /\ config'.keys[a] = line.key /\ \A b \in Actions : b # a => config'.keys[b] = config.keys[b]
    BY <1>7, <2>3, <2>4
  <2>6. ASSUME NEW s \in DOMAIN q, q[s] \in read'
        PROVE  s \in DOMAIN before.pad /\ before.pad[s] = q[s]
    <3>1. CASE s = src
      BY <2>1, <2>3, <3>1
    <3>2. CASE s # src
      <4>1. s \in DOMAIN cleared /\ q[s] = cleared[s]
        BY <2>3, <2>6, <3>2
      <4>2. s \in DOMAIN config.pad /\ config.pad[s] = q[s] /\ q[s] # a
        BY <1>4, <4>1
      <4>3. q[s] \in read
        BY <1>1, <2>6, <4>2
      <4> QED  BY <4>2, <4>3 DEF BindInv, Loading
    <3> QED  BY <3>1, <3>2
  <2>7. ASSUME NEW b \in read', Bound(before.pad, b)
        PROVE  file.lines[b].source \in Sources(q, b)
    <3>1. CASE b = a
      <4>1. file.lines[b].source = src
        BY <3>1 DEF line
      <4> QED  BY <2>3, <3>1, <4>1 DEF Sources
    <3>2. CASE b # a
      <4>1. b \in read /\ b \in Actions
        BY <1>1, <3>2 DEF BindInv
      <4>2. file.lines[b].source \in Sources(config.pad, b) /\ file.lines[b].source \in Sources(before.pad, b)
        BY <1>1, <2>7, <4>1 DEF BindInv, Loading, Faithful
      <4>3. file.lines[b].source # src
        BY <2>1, <3>2, <4>2 DEF Sources
      <4>4. file.lines[b].source \in DOMAIN cleared /\ cleared[file.lines[b].source] = b
        BY <1>4, <3>2, <4>2 DEF Sources
      <4> QED  BY <2>3, <4>3, <4>4 DEF Sources
    <3> QED  BY <3>1, <3>2
  <2>8. Loading'
    BY <1>1, <1>3, <2>4, <2>5, <2>6, <2>7 DEF BindInv, Loading
  <2> QED  BY <1>1, <2>5, <2>8 DEF BindInv
<1> QED  BY <1>8, <1>9

LEMMA BindStep == BindInv /\ [InputNext]_inputVars => BindInv'
<1> SUFFICES ASSUME BindInv, [InputNext]_inputVars PROVE BindInv'
  OBVIOUS
<1>1. config \in Configurations
  BY DEF BindInv
<1>2. ASSUME NEW a \in Actions, NEW k \in KeyCodes, SetKey(a, k) PROVE BindInv'
  <2>1. [config EXCEPT !.keys[a] = k] \in Configurations
    BY <1>1, DefaultAssumption DEF Configurations
  <2> QED  BY <1>2, <2>1, SaveKeeps DEF SetKey
<1>3. ASSUME NEW p \in PadMaps, Save([config EXCEPT !.pad = p]) PROVE BindInv'
  <2>1. [config EXCEPT !.pad = p] \in Configurations
    BY <1>1 DEF Configurations
  <2> QED  BY <1>3, <2>1, SaveKeeps
<1>4. config.pad \in PadMaps
  BY <1>1 DEF Configurations
<1>5. ASSUME NEW a \in Actions, NEW b \in MapButtons, SetButton(a, b) PROVE BindInv'
  BY <1>3, <1>4, <1>5, BindingsTyped DEF SetButton
<1>6. ASSUME NEW a \in Actions, NEW x \in Axes, NEW sign \in {"axis+", "axis-"}, SetAxis(a, x, sign) PROVE BindInv'
  BY <1>3, <1>4, <1>6, BindingsTyped DEF SetAxis
<1>7. ASSUME NEW a \in Actions, Clear(a) PROVE BindInv'
  BY <1>3, <1>4, <1>7, BindingsTyped DEF Clear
<1>8. ASSUME NEW d \in {8, 16}, SetDeadzone(d) PROVE BindInv'
  <2>1. [config EXCEPT !.deadzone = d] \in Configurations
    BY <1>1 DEF Configurations
  <2> QED  BY <1>8, <2>1, SaveKeeps DEF SetDeadzone
<1>9. CASE UNCHANGED inputVars
  BY <1>9 DEF inputVars, BindInv, Loading
<1> QED  BY <1>2, <1>5, <1>6, <1>7, <1>8, <1>9, LoadLineKeeps, ReloadKeeps DEF InputNext

(* The inductive invariant of the bindings: the file says of every action   *)
(* what it had, as far as it can name it, and a load in progress has done so for the lines it read.   *)
THEOREM BindingsInvariance == InputSpec => []BindInv
BY BindFirst, BindStep, PTL DEF InputSpec

(* In whatever order the lines come, a reloaded file gives back every key,  *)
(* the deadzone, no new binding, and a binding to every action that had one *)
(* and whose buttons have names in the file.                                *)
THEOREM BindingsKept == InputSpec => []BindingsSurvive
<1>1. BindInv => BindingsSurvive
  <2> SUFFICES ASSUME BindInv, read = Actions PROVE
        /\ config.keys = before.keys /\ config.deadzone = before.deadzone
        /\ \A s \in DOMAIN config.pad : s \in DOMAIN before.pad /\ config.pad[s] = before.pad[s]
        /\ \A a \in Actions : Bound(before.pad, a) => Sources(config.pad, a) # {}
    BY DEF BindingsSurvive, Bound
  <2>1. config.keys \in [Actions -> Int] /\ before.keys \in [Actions -> Int] /\ config.pad \in PadMaps
    BY DEF BindInv, Configurations
  <2>2. config.keys = before.keys /\ config.deadzone = before.deadzone
    BY <2>1 DEF BindInv, Loading
  <2>3. \A s \in DOMAIN config.pad : config.pad[s] \in Actions
    BY <2>1, PadMapIs
  <2>4. \A s \in DOMAIN config.pad : s \in DOMAIN before.pad /\ config.pad[s] = before.pad[s]
    BY <2>3 DEF BindInv, Loading
  <2>5. \A a \in Actions : Bound(before.pad, a) => Sources(config.pad, a) # {}
    BY DEF BindInv, Loading, Bound
  <2> QED  BY <2>2, <2>4, <2>5
<1> QED  BY <1>1, BindingsInvariance, PTL

(***************************************************************************)
(* Induction over numbers.                                                 *)
(***************************************************************************)
LEMMA LeastNatural ==
    ASSUME NEW S \in SUBSET Nat, S # {}
    PROVE  \E m \in S : \A k \in S : m <= k
<1> DEFINE R == OpToRel(<, Nat)
<1>1. IsWellFoundedOn(R, Nat)
  BY NatLessThanWellFounded
<1>2. R = {p \in Nat \X Nat : p[1] < p[2]}
  BY DEF OpToRel
<1> HIDE DEF R
<1>3. PICK m \in S : \A k \in S : ~ (<<k, m>> \in R)
  BY <1>1, WFMin
<1>4. ASSUME NEW k \in S PROVE m <= k
  <2>1. k \in Nat /\ m \in Nat /\ <<k, m>> \in Nat \X Nat
    OBVIOUS
  <2>2. ~ (k < m)
    BY <1>2, <1>3, <2>1
  <2> QED  BY <2>1, <2>2
<1> QED  BY <1>4

(* A set that holds 0 and with every number the next holds them all.       *)
LEMMA SetInduction ==
    ASSUME NEW S, 0 \in S, \A n \in Nat : n \in S => n + 1 \in S
    PROVE  Nat \subseteq S
<1> DEFINE T == Nat \ S
<1>1. SUFFICES ASSUME T # {} PROVE FALSE
  OBVIOUS
<1>2. PICK m \in T : \A k \in T : m <= k
  BY <1>1, LeastNatural
<1>3. m - 1 \in Nat /\ m - 1 \in S
  BY <1>2
<1> QED  BY <1>2, <1>3

(***************************************************************************)
(* The launcher.  Where a sequence has a value, and its elements in a set. *)
(***************************************************************************)
LEMMA PlaceIs ==
  ASSUME NEW s, Len(s) \in Nat, NEW x
  PROVE  IF \E n \in 1..Len(s) : s[n] = x THEN Place(s, x) \in 1..Len(s) /\ s[Place(s, x)] = x
         ELSE Place(s, x) = 0
<1>1. CASE ~ \E n \in 1..Len(s) : s[n] = x
  BY <1>1 DEF Place
<1>2. CASE \E n \in 1..Len(s) : s[n] = x
  <2> DEFINE S == {n \in 1..Len(s) : s[n] = x}
  <2>1. S \in SUBSET Nat /\ S # {}
    BY <1>2
  <2>2. PICK m \in S : \A k \in S : m <= k
    BY <2>1, LeastNatural
  <2>3. \A k \in 1..(m - 1) : k \in 1..Len(s) /\ ~(m <= k)
    BY <2>2
  <2>4. m \in 1..Len(s) /\ s[m] = x /\ \A k \in 1..(m - 1) : s[k] # x
    BY <2>2, <2>3
  <2>5. Place(s, x) = CHOOSE n \in 1..Len(s) : s[n] = x /\ \A k \in 1..(n - 1) : s[k] # x
    BY <1>2 DEF Place
  <2>6. Place(s, x) \in 1..Len(s) /\ s[Place(s, x)] = x
    BY <2>4, <2>5
  <2> QED  BY <1>2, <2>6
<1> QED  BY <1>1, <1>2

Takes(g, s, S, j) ==
  \A n \in 0..j : g[n] = IF n = 0 THEN <<>> ELSE IF s[n] \in S THEN Append(g[n - 1], s[n]) ELSE g[n - 1]

LEMMA AmongRule ==
  ASSUME NEW s, Len(s) \in Nat, NEW S
  PROVE  \E g : Takes(g, s, S, Len(s)) /\ Among(s, S) = g[Len(s)]
<1> DEFINE len == Len(s)
           Rec(g) == g = [n \in 0..len |-> IF n = 0 THEN <<>> ELSE IF s[n] \in S THEN Append(g[n - 1], s[n]) ELSE g[n - 1]]
           Is(g, j) == g = [n \in 0..j |-> IF n = 0 THEN <<>> ELSE IF s[n] \in S THEN Append(g[n - 1], s[n]) ELSE g[n - 1]]
           U == {j \in Nat : j <= len => \E g : Is(g, j)}
<1>1. Among(s, S) = (CHOOSE g : Rec(g))[len]
  BY DEF Among
<1>2. 0 \in U
  <2>1. Is([n \in 0..0 |-> <<>>], 0)
    OBVIOUS
  <2> QED  BY <2>1
<1>3. ASSUME NEW j \in Nat, j \in U PROVE j + 1 \in U
  <2>1. SUFFICES ASSUME j + 1 <= len PROVE \E g : Is(g, j + 1)
    OBVIOUS
  <2>2. PICK h : Is(h, j)
    BY <1>3, <2>1
  <2> DEFINE next == IF s[j + 1] \in S THEN Append(h[j], s[j + 1]) ELSE h[j]
             g == [n \in 0..(j + 1) |-> IF n <= j THEN h[n] ELSE next]
  <2> HIDE DEF next
  <2>3. /\ \A n \in 0..j : g[n] = h[n]
        /\ g[j + 1] = next
        /\ g = [n \in 0..(j + 1) |-> g[n]]
    OBVIOUS
  <2> HIDE DEF g
  <2>4. ASSUME NEW n \in 0..(j + 1)
        PROVE  g[n] = IF n = 0 THEN <<>> ELSE IF s[n] \in S THEN Append(g[n - 1], s[n]) ELSE g[n - 1]
    <3>1. CASE n = 0
      <4>1. 0 \in 0..j
        OBVIOUS
      <4>2. h[0] = <<>> /\ g[0] = h[0]
        BY <2>2, <2>3, <4>1
      <4> QED  BY <3>1, <4>2
    <3>2. CASE n \in 1..j
      <4>1. n \in 0..j /\ n - 1 \in 0..j /\ n # 0
        BY <3>2
      <4>2. /\ g[n] = h[n] /\ g[n - 1] = h[n - 1]
            /\ h[n] = IF s[n] \in S THEN Append(h[n - 1], s[n]) ELSE h[n - 1]
        BY <2>2, <2>3, <4>1
      <4> QED  BY <4>1, <4>2
    <3>3. CASE n = j + 1
      <4>1. n # 0 /\ n - 1 = j /\ j \in 0..j
        BY <3>3
      <4>2. g[j] = h[j]
        BY <2>3, <4>1
      <4> QED  BY <2>3, <3>3, <4>1, <4>2 DEF next
    <3> QED  BY <3>1, <3>2, <3>3
  <2>5. Is(g, j + 1)
    BY <2>3, <2>4
  <2> QED  BY <2>5
<1>4. len \in U
  <2> HIDE DEF U
  <2>1. Nat \subseteq U
    BY <1>2, <1>3, SetInduction
  <2> QED  BY <2>1
<1>5. PICK run : Rec(run)
  BY <1>4
<1> DEFINE g == CHOOSE g : Rec(g)
<1>6. Rec(g)
  BY <1>5
<1>7. Takes(g, s, S, len)
  BY <1>6 DEF Takes
<1> QED  BY <1>1, <1>7

LEMMA AmongIs ==
  ASSUME NEW T, NEW s \in Seq(T), NEW S
  PROVE  /\ Among(s, S) \in Seq(T \cap S)
         /\ \A n \in 1..Len(s) : s[n] \in S => \E k \in 1..Len(Among(s, S)) : Among(s, S)[k] = s[n]
<1> DEFINE len == Len(s)
           Has(w, j) == /\ w \in Seq(T \cap S)
                        /\ \A n \in 1..j : s[n] \in S => \E k \in 1..Len(w) : w[k] = s[n]
<1>0. len \in Nat
  OBVIOUS
<1>1. PICK g : Takes(g, s, S, len) /\ Among(s, S) = g[len]
  BY AmongRule
<1> DEFINE U == {j \in Nat : j <= len => Has(g[j], j)}
<1>2. 0 \in U
  <2>1. g[0] = <<>>
    BY <1>0, <1>1 DEF Takes
  <2>2. <<>> \in Seq(T \cap S) /\ 1..0 = {}
    OBVIOUS
  <2>3. Has(g[0], 0)
    BY <2>1, <2>2
  <2> QED  BY <2>3
<1>3. ASSUME NEW j \in Nat, j \in U PROVE j + 1 \in U
  <2>1. SUFFICES ASSUME j + 1 <= len PROVE Has(g[j + 1], j + 1)
    OBVIOUS
  <2> DEFINE w == g[j]
             x == s[j + 1]
  <2>2. Has(w, j)
    BY <1>3, <2>1
  <2>3. j + 1 \in 0..len /\ j + 1 # 0 /\ (j + 1) - 1 = j /\ j + 1 \in 1..len
    BY <1>0, <2>1
  <2>4. g[j + 1] = IF x \in S THEN Append(w, x) ELSE w
    BY <1>1, <2>3 DEF Takes
  <2>5. x \in T
    BY <2>3
  <2> HIDE DEF w, x
  <2>6. CASE x \notin S
    <3>1. ASSUME NEW n \in 1..(j + 1), s[n] \in S PROVE n \in 1..j
      BY <2>6, <3>1 DEF x
    <3>2. g[j + 1] = w
      BY <2>4, <2>6
    <3> QED  BY <2>2, <3>1, <3>2
  <2>7. CASE x \in S
    <3> DEFINE v == Append(w, x)
    <3>1. w \in Seq(T \cap S) /\ x \in T \cap S
      BY <2>2, <2>5, <2>7
    <3>2. /\ v \in Seq(T \cap S) /\ Len(v) = Len(w) + 1 /\ Len(w) \in Nat
          /\ v[Len(w) + 1] = x /\ \A k \in 1..Len(w) : v[k] = w[k]
      BY <3>1
    <3> HIDE DEF v
    <3>3. ASSUME NEW n \in 1..(j + 1), s[n] \in S PROVE \E k \in 1..Len(v) : v[k] = s[n]
      <4>1. CASE n = j + 1
        BY <3>2, <4>1 DEF x
      <4>2. CASE n # j + 1
        <5>1. n \in 1..j
          BY <4>2
        <5>2. PICK k \in 1..Len(w) : w[k] = s[n]
          BY <2>2, <3>3, <5>1
        <5>3. k \in 1..Len(v) /\ v[k] = s[n]
          BY <3>2, <5>2
        <5> QED  BY <5>3
      <4> QED  BY <4>1, <4>2
    <3>4. g[j + 1] = v
      BY <2>4, <2>7 DEF v
    <3> QED  BY <3>2, <3>3, <3>4
  <2> QED  BY <2>6, <2>7
<1>4. len \in U
  <2> HIDE DEF U
  <2>1. Nat \subseteq U
    BY <1>2, <1>3, SetInduction
  <2> QED  BY <1>0, <2>1
<1> QED  BY <1>1, <1>4

(***************************************************************************)
(* build_launcher_list.  The games that a filter, a system, a search and   *)
(* the player's marks select from a library.                               *)
(***************************************************************************)
Selected(rs, fl, sy, q, fav, rec) ==
  {p \in Range(rs) : /\ p \in Matches[q] /\ sy \in {"all", KindOf[p]}
                     /\ fl = "favorites" => p \in fav
                     /\ fl = "recents" => p \in Range(rec)}
ListedGames(rs, l) == {rs[l[n]] : n \in 1..Len(l)}
Included(rs, sy, q) == {i \in 1..Len(rs) : rs[i] \in Matches[q] /\ (sy = "all" \/ KindOf[rs[i]] = sy)}

(* A list of the entries in a set has every one of them.                    *)
LEMMA EntriesAre ==
  ASSUME NEW m \in Nat, NEW S \in SUBSET (1..m)
  PROVE  \A l : l = Among([i \in 1..m |-> i], S) =>
           /\ l \in Seq(1..m) /\ \A n \in 1..Len(l) : l[n] \in S
           /\ \A i \in S : \E n \in 1..Len(l) : l[n] = i
<1> DEFINE s == [i \in 1..m |-> i]
<1> SUFFICES ASSUME NEW l, l = Among(s, S)
             PROVE  /\ l \in Seq(1..m) /\ \A n \in 1..Len(l) : l[n] \in S
                    /\ \A i \in S : \E n \in 1..Len(l) : l[n] = i
  OBVIOUS
<1>1. s \in Seq(1..m) /\ Len(s) = m /\ \A i \in 1..m : s[i] = i
  OBVIOUS
<1> HIDE DEF s
<1>2. /\ l \in Seq((1..m) \cap S)
      /\ \A n \in 1..Len(s) : s[n] \in S => \E k \in 1..Len(l) : l[k] = s[n]
  <2> DEFINE T == 1..m
             w == Among(s, S)
  <2>1. s \in Seq(T)
    BY <1>1
  <2> HIDE DEF T
  <2>2. w \in Seq(T \cap S) /\ \A n \in 1..Len(s) : s[n] \in S => \E k \in 1..Len(w) : w[k] = s[n]
    BY ONLY <2>1, AmongIs
  <2>3. l = w
    OBVIOUS
  <2> HIDE DEF w
  <2> QED  BY ONLY <2>2, <2>3 DEF T
<1>3. l \in Seq(1..m) /\ \A n \in 1..Len(l) : l[n] \in S
  BY <1>2
<1>4. ASSUME NEW i \in S PROVE \E n \in 1..Len(l) : l[n] = i
  <2>1. i \in 1..Len(s) /\ s[i] = i
    BY <1>1
  <2> QED  BY <1>2, <2>1
<1> QED  BY <1>3, <1>4

LEMMA BuiltIs ==
  ASSUME NEW P, NEW rs \in Seq(P), NEW rec \in Seq(P), NEW fl, NEW sy, NEW q, NEW fav
  PROVE  LET l == Built(rs, fl, sy, q, fav, rec)
         IN  /\ l \in Seq(1..Len(rs))
             /\ ListedGames(rs, l) = Selected(rs, fl, sy, q, fav, rec)
             /\ fl # "recents" => \A i \in 1..Len(rs) : rs[i] \in ListedGames(rs, l) => \E n \in 1..Len(l) : l[n] = i
             /\ fl = "recents" => \A n \in 1..Len(l) : l[n] = Place(rs, rs[l[n]])
<1> DEFINE l == Built(rs, fl, sy, q, fav, rec)
           m == Len(rs)
           all == [i \in 1..m |-> i]
           inc == Included(rs, sy, q)
           seen == Among(rec, {rs[i] : i \in inc})
<1>1. l = CASE fl = "recents"   -> [n \in 1..Len(seen) |-> Place(rs, seen[n])]
            [] fl = "favorites" -> Among(all, {i \in inc : rs[i] \in fav})
            [] OTHER            -> Among(all, inc)
  BY DEF Built, Included
<1>2. m \in Nat /\ inc \subseteq 1..m /\ Range(rs) = {rs[i] : i \in 1..m}
  BY DEF Included, Range
<1>3. \A p : p \in {rs[i] : i \in inc} <=> p \in Range(rs) /\ p \in Matches[q] /\ sy \in {"all", KindOf[p]}
  BY <1>2 DEF Included
<1> HIDE DEF l
<1>4. CASE fl = "recents"
  <2> DEFINE W == {rs[i] : i \in inc}
  <2>1. /\ seen \in Seq(P \cap W)
        /\ \A n \in 1..Len(rec) : rec[n] \in W => \E k \in 1..Len(seen) : seen[k] = rec[n]
    <3> HIDE DEF W
    <3>1. seen = Among(rec, W)
      BY DEF W
    <3> HIDE DEF seen
    <3> QED  BY <3>1, AmongIs
  <2>2. l = [n \in 1..Len(seen) |-> Place(rs, seen[n])]
    BY <1>1, <1>4
  <2> HIDE DEF seen
  <2>3. ASSUME NEW n \in 1..Len(seen) PROVE Place(rs, seen[n]) \in 1..m /\ rs[Place(rs, seen[n])] = seen[n]
    <3>1. seen[n] \in W
      BY <2>1
    <3>2. \E i \in 1..m : rs[i] = seen[n]
      BY <1>2, <3>1
    <3> QED  BY <1>2, <3>2, PlaceIs
  <2>4. Len(l) = Len(seen) /\ l \in Seq(1..m) /\ Len(seen) \in Nat
    <3>1. Len(seen) \in Nat
      BY <2>1
    <3> DEFINE k == Len(seen)
    <3>2. l \in [1..k -> 1..m]
      BY <2>2, <2>3
    <3> HIDE DEF k
    <3>3. k \in Nat
      BY <3>1 DEF k
    <3>4. l \in Seq(1..m) /\ Len(l) = k
      BY <3>2, <3>3
    <3> QED  BY <3>1, <3>4 DEF k
  <2>5. \A n \in 1..Len(l) : l[n] = Place(rs, seen[n]) /\ rs[l[n]] = seen[n]
    BY <2>2, <2>3, <2>4
  <2>6. ListedGames(rs, l) = {seen[n] : n \in 1..Len(seen)}
    BY <2>4, <2>5 DEF ListedGames
  <2>7. {seen[n] : n \in 1..Len(seen)} \subseteq Range(rec)
    <3>1. rec \in Seq(Range(rec))
      <4>1. DOMAIN rec = 1..Len(rec) /\ \A n \in 1..Len(rec) : rec[n] \in Range(rec)
        BY DEF Range
      <4> QED  BY <4>1
    <3>2. seen \in Seq(Range(rec) \cap W)
      BY <3>1, AmongIs DEF seen
    <3> QED  BY <3>2
  <2>8. \A p : p \in {seen[n] : n \in 1..Len(seen)} <=> p \in W /\ p \in Range(rec)
    <3>1. ASSUME NEW p \in W, p \in Range(rec) PROVE p \in {seen[n] : n \in 1..Len(seen)}
      <4>1. PICK n \in 1..Len(rec) : rec[n] = p
        BY <3>1 DEF Range
      <4> QED  BY <2>1, <4>1
    <3>2. {seen[n] : n \in 1..Len(seen)} \subseteq W
      BY <2>1
    <3> QED  BY <2>7, <3>1, <3>2
  <2>9. ListedGames(rs, l) = Selected(rs, fl, sy, q, fav, rec)
    BY <1>3, <1>4, <2>6, <2>8 DEF Selected
  <2> QED  BY <1>4, <2>4, <2>5, <2>9 DEF l
<1>5. ASSUME NEW S \in SUBSET inc, l = Among(all, S), fl # "recents",
             \A p : p \in {rs[i] : i \in S} <=> p \in Selected(rs, fl, sy, q, fav, rec),
             \A i \in 1..m : rs[i] \in {rs[k] : k \in S} => i \in S
      PROVE  /\ l \in Seq(1..m)
             /\ ListedGames(rs, l) = Selected(rs, fl, sy, q, fav, rec)
             /\ \A i \in 1..m : rs[i] \in ListedGames(rs, l) => \E n \in 1..Len(l) : l[n] = i
  <2>1. /\ l \in Seq(1..m) /\ \A n \in 1..Len(l) : l[n] \in S
        /\ \A i \in S : \E n \in 1..Len(l) : l[n] = i
    <3>1. m \in Nat /\ S \in SUBSET (1..m) /\ l = Among([i \in 1..m |-> i], S)
      BY <1>2, <1>5
    <3> DEFINE R(x) == x \in Seq(1..m) /\ (\A n \in 1..Len(x) : x[n] \in S)
                       /\ \A i \in S : \E n \in 1..Len(x) : x[n] = i
    <3> HIDE DEF m, all
    <3>2. \A x : x = Among([i \in 1..m |-> i], S) => R(x)
      BY <3>1, EntriesAre
    <3> HIDE DEF R
    <3>3. R(l)
      BY <3>1, <3>2
    <3> QED  BY <3>3 DEF R
  <2>2. ListedGames(rs, l) = {rs[i] : i \in S}
    BY <2>1 DEF ListedGames
  <2> QED  BY <1>5, <2>1, <2>2
<1>6. CASE fl = "favorites"
  <2> DEFINE S == {i \in inc : rs[i] \in fav}
  <2>1. l = Among(all, S)
    BY <1>1, <1>6
  <2>2. \A p : p \in {rs[i] : i \in S} <=> p \in Selected(rs, fl, sy, q, fav, rec)
    BY <1>3, <1>6 DEF Selected
  <2>3. \A i \in 1..m : rs[i] \in {rs[k] : k \in S} => i \in S
    BY DEF Included
  <2> HIDE DEF inc
  <2> QED  BY <1>5, <1>6, <2>1, <2>2, <2>3 DEF l
<1>7. CASE fl \notin {"recents", "favorites"}
  <2>1. l = Among(all, inc)
    BY <1>1, <1>7
  <2>2. \A p : p \in {rs[i] : i \in inc} <=> p \in Selected(rs, fl, sy, q, fav, rec)
    BY <1>3, <1>7 DEF Selected
  <2>3. \A i \in 1..m : rs[i] \in {rs[k] : k \in inc} => i \in inc
    BY DEF Included
  <2> HIDE DEF inc
  <2> QED  BY <1>5, <1>7, <2>1, <2>2, <2>3 DEF l
<1> QED  BY <1>4, <1>6, <1>7

LEMMA BuiltHas ==
  ASSUME NEW P, NEW rs \in Seq(P), NEW rec \in Seq(P), NEW fl, NEW sy, NEW q, NEW fav,
         NEW r \in 1..Len(rs), rs[r] \in ListedGames(rs, Built(rs, fl, sy, q, fav, rec)),
         fl = "recents" => Place(rs, rs[r]) = r
  PROVE  \E n \in 1..Len(Built(rs, fl, sy, q, fav, rec)) : Built(rs, fl, sy, q, fav, rec)[n] = r
<1> DEFINE l == Built(rs, fl, sy, q, fav, rec)
<1>1. /\ fl # "recents" => \A i \in 1..Len(rs) : rs[i] \in ListedGames(rs, l) => \E n \in 1..Len(l) : l[n] = i
      /\ fl = "recents" => \A n \in 1..Len(l) : l[n] = Place(rs, rs[l[n]])
  BY BuiltIs
<1> HIDE DEF l
<1>2. CASE fl # "recents"
  BY <1>1, <1>2 DEF l
<1>3. CASE fl = "recents"
  <2>1. PICK n \in 1..Len(l) : rs[l[n]] = rs[r]
    BY DEF ListedGames, l
  <2>2. l[n] = r
    BY <1>1, <1>3, <2>1
  <2> QED  BY <2>2 DEF l
<1> QED  BY <1>2, <1>3

(* scan_roms: every entry is a file of the catalog.                         *)
Copies(p) == [n \in 1..Len(Among(Roots, {r \in Range(Roots) : p \in r})) |-> p]
Part(files, i) == IF Catalog[i] \in files THEN Copies(Catalog[i]) ELSE <<>>
Lists(g, files, j) == \A i \in 0..j : g[i] = IF i = 0 THEN <<>> ELSE g[i - 1] \o Part(files, i)

LEMMA ScanRule ==
  ASSUME NEW files
  PROVE  \E g : /\ Lists(g, files, Len(Catalog))
                /\ Scan(files) = IF Named \in files /\ Named \notin Range(g[Len(Catalog)])
                                 THEN <<Named>> \o g[Len(Catalog)] ELSE g[Len(Catalog)]
<1> DEFINE len == Len(Catalog)
           Rec(g) == g = [i \in 0..len |-> IF i = 0 THEN <<>> ELSE g[i - 1] \o Part(files, i)]
           Is(g, j) == g = [i \in 0..j |-> IF i = 0 THEN <<>> ELSE g[i - 1] \o Part(files, i)]
           U == {j \in Nat : j <= len => \E g : Is(g, j)}
<1>0. len \in Nat
  BY LauncherAssumption
<1>1. Scan(files) = LET found == (CHOOSE g : Rec(g))[len]
                    IN  IF Named \in files /\ Named \notin Range(found) THEN <<Named>> \o found ELSE found
  BY DEF Scan, Part, Copies
<1>2. 0 \in U
  <2>1. Is([i \in 0..0 |-> <<>>], 0)
    OBVIOUS
  <2> QED  BY <2>1
<1>3. ASSUME NEW j \in Nat, j \in U PROVE j + 1 \in U
  <2>1. SUFFICES ASSUME j + 1 <= len PROVE \E g : Is(g, j + 1)
    <3> HIDE DEF Is, len
    <3> QED  OBVIOUS
  <2>2. PICK h : Is(h, j)
    BY <1>0, <1>3, <2>1
  <2> DEFINE next == h[j] \o Part(files, j + 1)
             g == [i \in 0..(j + 1) |-> IF i <= j THEN h[i] ELSE next]
  <2> HIDE DEF next
  <2>3. /\ \A i \in 0..j : g[i] = h[i]
        /\ g[j + 1] = next
        /\ g = [i \in 0..(j + 1) |-> g[i]]
    OBVIOUS
  <2> HIDE DEF g
  <2>4. ASSUME NEW i \in 0..(j + 1)
        PROVE  g[i] = IF i = 0 THEN <<>> ELSE g[i - 1] \o Part(files, i)
    <3>1. CASE i = 0
      <4>1. 0 \in 0..j
        OBVIOUS
      <4>2. h[0] = <<>> /\ g[0] = h[0]
        BY <2>2, <2>3, <4>1
      <4> QED  BY <3>1, <4>2
    <3>2. CASE i \in 1..j
      <4>1. i \in 0..j /\ i - 1 \in 0..j /\ i # 0
        BY <3>2
      <4>2. g[i] = h[i] /\ g[i - 1] = h[i - 1] /\ h[i] = h[i - 1] \o Part(files, i)
        BY <2>2, <2>3, <4>1
      <4> QED  BY <4>1, <4>2
    <3>3. CASE i = j + 1
      <4>1. i # 0 /\ i - 1 = j /\ j \in 0..j
        BY <3>3
      <4>2. g[j] = h[j]
        BY <2>3, <4>1
      <4> QED  BY <2>3, <3>3, <4>1, <4>2 DEF next
    <3> QED  BY <3>1, <3>2, <3>3
  <2>5. Is(g, j + 1)
    BY <2>3, <2>4
  <2> QED  BY <2>5
<1>4. len \in U
  <2> HIDE DEF U
  <2>1. Nat \subseteq U
    BY <1>2, <1>3, SetInduction
  <2> QED  BY <1>0, <2>1
<1>5. PICK run : Rec(run)
  BY <1>0, <1>4
<1> DEFINE g == CHOOSE g : Rec(g)
<1>6. Rec(g)
  BY <1>5
<1>7. Lists(g, files, len)
  BY <1>6 DEF Lists
<1> QED  BY <1>1, <1>7

LEMMA ScanIs ==
  ASSUME NEW files \in SUBSET Range(Catalog)
  PROVE  Scan(files) \in Seq(Range(Catalog))
<1> DEFINE P == Range(Catalog)
           len == Len(Catalog)
<1>0. len \in Nat /\ Catalog \in Seq(P)
  BY LauncherAssumption
<1>1. PICK g : /\ Lists(g, files, len)
               /\ Scan(files) = IF Named \in files /\ Named \notin Range(g[len]) THEN <<Named>> \o g[len] ELSE g[len]
  BY ScanRule
<1>2. ASSUME NEW i \in 1..len PROVE Part(files, i) \in Seq(P)
  <2> DEFINE p == Catalog[i]
             under == Among(Roots, {r \in Range(Roots) : p \in r})
  <2>1. under \in Seq(Range(Roots) \cap {r \in Range(Roots) : p \in r})
    BY LauncherAssumption, AmongIs
  <2>2. Len(under) \in Nat
    BY <2>1
  <2>3. p \in P
    BY <1>0
  <2> HIDE DEF under
  <2>4. [n \in 1..Len(under) |-> p] \in Seq(P)
    BY <2>2, <2>3
  <2> QED  BY <2>4 DEF Part, Copies, under
<1> HIDE DEF P
<1> DEFINE U == {j \in Nat : j <= len => g[j] \in Seq(P)}
<1>3. 0 \in U
  <2>1. g[0] = <<>>
    BY <1>0, <1>1 DEF Lists
  <2>2. <<>> \in Seq(P)
    OBVIOUS
  <2> QED  BY <2>1, <2>2
<1>4. ASSUME NEW j \in Nat, j \in U PROVE j + 1 \in U
  <2>1. SUFFICES ASSUME j + 1 <= len PROVE g[j + 1] \in Seq(P)
    OBVIOUS
  <2>2. j + 1 \in 0..len /\ j + 1 # 0 /\ (j + 1) - 1 = j /\ j + 1 \in 1..len
    BY <1>0, <2>1
  <2>3. g[j + 1] = g[j] \o Part(files, j + 1)
    BY <1>1, <2>2 DEF Lists
  <2>4. g[j] \in Seq(P) /\ Part(files, j + 1) \in Seq(P)
    BY <1>2, <1>4, <2>1, <2>2
  <2> QED  BY <2>3, <2>4
<1>5. len \in U
  <2> HIDE DEF U
  <2>1. Nat \subseteq U
    BY <1>3, <1>4, SetInduction
  <2> QED  BY <1>0, <2>1
<1>6. g[len] \in Seq(P)
  BY <1>0, <1>5
<1>7. Named \in files => <<Named>> \o g[len] \in Seq(P)
  <2> SUFFICES ASSUME Named \in files PROVE <<Named>> \o g[len] \in Seq(P)
    OBVIOUS
  <2>1. Named \in P
    BY DEF P
  <2>2. <<Named>> \in Seq(P)
    BY <2>1
  <2> QED  BY <1>6, <2>2
<1> QED  BY <1>1, <1>6, <1>7 DEF P

(***************************************************************************)
(* The selection.                                                          *)
(***************************************************************************)
LEMMA KeptIs ==
  ASSUME NEW m \in Nat, NEW l \in Seq(1..m), l # <<>>, NEW rom, NEW n \in Nat
  PROVE  /\ Kept(l, rom, n) \in 1..Len(l)
         /\ (\E k \in 1..Len(l) : l[k] = rom) => l[Kept(l, rom, n)] = rom
<1>1. Len(l) \in Nat \ {0}
  OBVIOUS
<1>2. IF \E k \in 1..Len(l) : l[k] = rom THEN Place(l, rom) \in 1..Len(l) /\ l[Place(l, rom)] = rom
      ELSE Place(l, rom) = 0
  BY <1>1, PlaceIs
<1> QED  BY <1>1, <1>2 DEF Kept

LauncherInv ==
  /\ disk \in SUBSET Range(Catalog) /\ roms \in Seq(Range(Catalog)) /\ recents \in Seq(Range(Catalog))
  /\ list \in Seq(1..Len(roms)) /\ index \in Nat /\ (list # <<>> => index \in 1..Len(list))
  /\ scroll \in Int /\ scroll =< index
  /\ shown => Found = Chosen

LEMMA FoundIs == Found = ListedGames(roms, list) /\ Chosen = Selected(roms, filter, system, search, favorites, recents)
BY DEF Found, ListedGames, Chosen, Selected

LEMMA ChoiceIs ==
  ASSUME LauncherInv, list # <<>>
  PROVE  /\ index \in 1..Len(list) /\ list[index] \in 1..Len(roms)
         /\ Choice = roms[list[index]] /\ Choice \in Range(Catalog) /\ Choice # NoPath
<1>1. index \in 1..Len(list) /\ list[index] \in 1..Len(roms)
  BY DEF LauncherInv
<1>2. roms[list[index]] \in Range(Catalog)
  BY <1>1 DEF LauncherInv
<1> QED  BY <1>1, <1>2, LauncherAssumption DEF Choice

LEMMA InvExact ==
  ASSUME LauncherInv, shown
  PROVE  ListExact
BY ChoiceIs DEF LauncherInv, ListExact

(* What the list and the selection are once a list is set.                  *)
LEMMA SelectOK ==
  ASSUME NEW m \in Nat, NEW l \in Seq(1..m), NEW rom, NEW n \in Nat, NEW sc \in Int, Select(l, rom, n, sc)
  PROVE  /\ list' = l /\ index' \in Nat /\ (l # <<>> => index' \in 1..Len(l))
         /\ scroll' \in Int /\ scroll' =< index'
         /\ (\E k \in 1..Len(l) : l[k] = rom) => l # <<>> /\ l[index'] = rom
<1>1. CASE l = <<>>
  <2>1. Len(l) = 0 /\ ~ \E k \in 1..Len(l) : l[k] = rom
    BY <1>1
  <2> QED  BY <1>1, <2>1 DEF Select
<1>2. CASE l # <<>>
  <2> DEFINE to == Kept(l, rom, n)
  <2>1. to \in 1..Len(l) /\ ((\E k \in 1..Len(l) : l[k] = rom) => l[to] = rom)
    BY <1>2, KeptIs
  <2>2. list' = l /\ index' = to /\ scroll' = IF sc > to THEN to ELSE sc
    BY <1>2 DEF Select
  <2> HIDE DEF to
  <2>3. to \in Nat /\ scroll' \in Int /\ scroll' =< to
    BY <2>1, <2>2
  <2> QED  BY <1>2, <2>1, <2>2, <2>3
<1> QED  BY <1>1, <1>2

(* A list built from the library it shows is exact, and keeps the entry it   *)
(* is given as long as it has its game.                                    *)
LEMMA BuildOK ==
  ASSUME LauncherInv, roms' \in Seq(Range(Catalog)), disk' = disk, recents' = recents,
         NEW rom, NEW n \in Nat, NEW sc \in Int,
         Select(Built(roms', filter', system', search', favorites', recents'), rom, n, sc)
  PROVE  /\ LauncherInv'
         /\ rom \in 1..Len(roms') /\ roms'[rom] \in Found' /\ (filter' = "recents" => Place(roms', roms'[rom]) = rom)
              => Choice' = roms'[rom]
<1> DEFINE P == Range(Catalog)
           l == Built(roms', filter', system', search', favorites', recents')
           m == Len(roms')
<1>0. recents' \in Seq(P) /\ roms' \in Seq(P) /\ m \in Nat
  BY DEF LauncherInv
<1>1. l \in Seq(1..m) /\ ListedGames(roms', l) = Selected(roms', filter', system', search', favorites', recents')
  BY <1>0, BuiltIs
<1> HIDE DEF l
<1>2. /\ list' = l /\ index' \in Nat /\ (l # <<>> => index' \in 1..Len(l))
      /\ scroll' \in Int /\ scroll' =< index'
      /\ (\E k \in 1..Len(l) : l[k] = rom) => l # <<>> /\ l[index'] = rom
  BY <1>0, <1>1, SelectOK DEF l
<1>3. Found' = ListedGames(roms', list') /\ Chosen' = Selected(roms', filter', system', search', favorites', recents')
  BY DEF Found, ListedGames, Chosen, Selected
<1>4. LauncherInv'
  BY <1>0, <1>1, <1>2, <1>3 DEF LauncherInv
<1>5. ASSUME rom \in 1..m, roms'[rom] \in Found', filter' = "recents" => Place(roms', roms'[rom]) = rom
      PROVE  Choice' = roms'[rom]
  <2>1. roms'[rom] \in ListedGames(roms', l)
    BY <1>2, <1>3, <1>5
  <2>2. \E k \in 1..Len(l) : l[k] = rom
    BY <1>0, <1>5, <2>1, BuiltHas DEF l
  <2>3. index' \in 1..Len(list') /\ list'[index'] = rom
    BY <1>2, <2>2
  <2> QED  BY <2>3 DEF Choice
<1> QED  BY <1>4, <1>5

LEMMA RebuildOK ==
  ASSUME LauncherInv, UNCHANGED <<disk, roms, recents>>, Rebuild
  PROVE  LauncherInv' /\ ChoiceKept
<1> DEFINE rom == SelectedRom(list, index)
<1>1. Select(Built(roms', filter', system', search', favorites', recents'), rom, index, scroll)
  BY DEF Rebuild
<1>2. index \in Nat /\ scroll \in Int /\ roms' \in Seq(Range(Catalog)) /\ disk' = disk /\ recents' = recents /\ roms' = roms
  BY DEF LauncherInv
<1> HIDE DEF rom
<1>3. /\ LauncherInv'
      /\ rom \in 1..Len(roms') /\ roms'[rom] \in Found' /\ (filter' = "recents" => Place(roms', roms'[rom]) = rom)
           => Choice' = roms'[rom]
  BY <1>1, <1>2, BuildOK
<1>4. ChoiceKept
  <2> SUFFICES ASSUME Choice # NoPath, filter' = "recents" => Place(roms, Choice) = list[index], Choice \in Found'
               PROVE  Choice' = Choice
    BY DEF ChoiceKept
  <2>1. index \in 1..Len(list) /\ list[index] \in 1..Len(roms) /\ Choice = roms[list[index]]
    BY DEF Choice, LauncherInv
  <2>2. rom = list[index]
    BY <2>1 DEF SelectedRom, rom
  <2> QED  BY <1>2, <1>3, <2>1, <2>2
<1> QED  BY <1>3, <1>4

LEMMA RefreshOK ==
  ASSUME LauncherInv, Refresh, disk' = disk
  PROVE  LauncherInv' /\ ChoiceKept
<1> DEFINE rs == Scan(disk)
           old == SelectedRom(list, index)
           path == IF old = 0 THEN Named ELSE roms[old]
           rom == Place(rs, path)
<1>1. /\ roms' = rs /\ filter' = filter /\ system' = system /\ search' = search
      /\ favorites' = favorites /\ recents' = recents
      /\ Select(Built(rs, filter, system, search, favorites, recents), rom, 1, 1)
  BY DEF Refresh, marks
<1>2. rs \in Seq(Range(Catalog)) /\ Len(rs) \in Nat
  <2>1. rs \in Seq(Range(Catalog))
    BY ScanIs DEF LauncherInv
  <2> QED  BY <2>1
<1> HIDE DEF rs, rom, path
<1>3. /\ Select(Built(roms', filter', system', search', favorites', recents'), rom, 1, 1)
      /\ roms' \in Seq(Range(Catalog)) /\ recents' = recents /\ 1 \in Nat /\ 1 \in Int
  BY <1>1, <1>2
<1>4. /\ LauncherInv'
      /\ rom \in 1..Len(roms') /\ roms'[rom] \in Found' /\ (filter' = "recents" => Place(roms', roms'[rom]) = rom)
           => Choice' = roms'[rom]
  BY <1>3, BuildOK
<1>5. ChoiceKept
  <2> SUFFICES ASSUME Choice # NoPath, Choice \in Found' PROVE Choice' = Choice
    BY DEF ChoiceKept
  <2>1. index \in 1..Len(list) /\ list[index] \in 1..Len(roms) /\ Choice = roms[list[index]]
    BY DEF Choice, LauncherInv
  <2>2. path = Choice
    BY <2>1 DEF path, SelectedRom
  <2>3. \E i \in 1..Len(rs) : rs[i] = Choice
    <3>1. Found' \subseteq Range(roms')
      <4>1. roms' \in Seq(Range(Catalog)) /\ list' \in Seq(1..Len(roms'))
        BY <1>4 DEF LauncherInv
      <4>2. \A n \in 1..Len(list') : list'[n] \in 1..Len(roms') /\ roms'[list'[n]] \in Range(roms')
        BY <4>1 DEF Range
      <4> QED  BY <4>2 DEF Found
    <3>2. Choice \in Range(rs)
      BY <1>1, <3>1
    <3> QED  BY <1>2, <3>2 DEF Range
  <2>4. rom \in 1..Len(rs) /\ rs[rom] = Choice /\ Place(rs, Choice) = rom
    BY <1>2, <2>2, <2>3, PlaceIs DEF rom
  <2> QED  BY <1>1, <1>4, <2>4
<1> QED  BY <1>4, <1>5

(* A step that leaves the library, the tabs, the search and the marks.      *)
LEMMA SameList ==
  ASSUME LauncherInv, disk' \in SUBSET Range(Catalog), UNCHANGED <<roms, list, filter, system, search, favorites, recents>>,
         shown' => shown, index' \in Nat, list # <<>> => index' \in 1..Len(list), scroll' \in Int, scroll' =< index'
  PROVE  LauncherInv' /\ ChoiceKept
<1>1. Found' = Found /\ Chosen' = Chosen
  BY DEF Found, Chosen
<1>2. LauncherInv'
  BY <1>1 DEF LauncherInv
<1> QED  BY <1>2 DEF ChoiceKept

LEMMA SameLibrary ==
  ASSUME LauncherInv, disk' \in SUBSET Range(Catalog), UNCHANGED <<library, filter, system, search, marks>>, shown' => shown
  PROVE  LauncherInv' /\ ChoiceKept
<1>1. /\ UNCHANGED <<roms, list, filter, system, search, favorites, recents>>
      /\ index' = index /\ scroll' = scroll
  BY DEF library, marks
<1>2. index \in Nat /\ (list # <<>> => index \in 1..Len(list)) /\ scroll \in Int /\ scroll =< index
  BY DEF LauncherInv
<1> QED  BY <1>1, <1>2, SameList

LEMMA CycleTabOK ==
  ASSUME LauncherInv, UNCHANGED <<disk, shown>>, NEW t, ApplyTab(t)
  PROVE  LauncherInv' /\ ChoiceKept
<1>1. UNCHANGED <<disk, roms, recents>> /\ Rebuild
  BY DEF ApplyTab, marks
<1> QED  BY <1>1, RebuildOK

LEMMA FavoriteOK ==
  ASSUME LauncherInv, UNCHANGED <<disk, shown>>, ToggleFavorite
  PROVE  LauncherInv' /\ ChoiceKept
<1>1. UNCHANGED <<roms, filter, system, tab, search, recents>>
  BY DEF ToggleFavorite, tabs
<1>2. CASE SelectedRom(list, index) = 0
  <2>1. UNCHANGED <<list, index, scroll, favorites>>
    BY <1>2 DEF ToggleFavorite
  <2>2. UNCHANGED <<library, filter, system, search, marks>> /\ disk' \in SUBSET Range(Catalog)
    BY <1>1, <2>1 DEF library, marks, LauncherInv
  <2> QED  BY <2>2, SameLibrary
<1>3. CASE SelectedRom(list, index) # 0
  <2>1. Rebuild
    BY <1>3 DEF ToggleFavorite
  <2> QED  BY <1>1, <2>1, RebuildOK
<1> QED  BY <1>2, <1>3

LEMMA LaunchOK ==
  ASSUME LauncherInv, shown, disk' = disk, LaunchSelected
  PROVE  LauncherInv' /\ ChoiceKept
<1> DEFINE P == Range(Catalog)
           p == roms[SelectedRom(list, index)]
           rest == Among(recents, Range(recents) \ {p})
           recent == <<p>> \o rest
           k == IF Len(recent) > MaxRecents THEN MaxRecents ELSE Len(recent)
<1>1. UNCHANGED <<library, tabs, search, favorites>> /\ disk \in SUBSET P
  BY DEF LaunchSelected, LauncherInv
<1>2. CASE ~(list # <<>> /\ p \in disk)
  <2>1. UNCHANGED <<recents, shown>>
    BY <1>2 DEF LaunchSelected
  <2>2. UNCHANGED <<library, filter, system, search, marks>> /\ disk' \in SUBSET Range(Catalog)
    BY <1>1, <2>1 DEF tabs, marks
  <2> QED  BY <2>1, <2>2, SameLibrary
<1>3. CASE list # <<>> /\ p \in disk
  <2>1. recents' = SubSeq(recent, 1, k) /\ shown' = FALSE
    BY <1>3 DEF LaunchSelected
  <2>2. p \in P
    BY <1>1, <1>3
  <2>3. rest \in Seq(P)
    <3>1. recents \in Seq(P)
      BY DEF LauncherInv
    <3>2. rest \in Seq(P \cap (Range(recents) \ {p}))
      BY <3>1, AmongIs
    <3> QED  BY <3>2
  <2> HIDE DEF rest, p
  <2>4. recent \in Seq(P) /\ Len(recent) \in Nat
    <3>1. <<p>> \in Seq(P)
      BY <2>2
    <3>2. recent \in Seq(P)
      BY <2>3, <3>1
    <3> QED  BY <3>2
  <2> HIDE DEF recent
  <2>5. k \in Nat /\ k =< Len(recent)
    BY <2>4, LauncherAssumption
  <2> HIDE DEF k
  <2>6. \A i \in 1..k : recent[i] \in P
    BY <2>4, <2>5
  <2>7. 1 \in Int /\ k \in Int
    BY <2>5
  <2>8. SubSeq(recent, 1, k) \in Seq(P)
    BY <2>6, <2>7, SubSeqProperties
  <2>9. UNCHANGED <<disk, roms, list, index, scroll>>
    BY <1>1 DEF library
  <2>10. LauncherInv'
    BY <2>1, <2>8, <2>9 DEF LauncherInv
  <2>11. ChoiceKept
    BY <2>9 DEF ChoiceKept
  <2> QED  BY <2>10, <2>11
<1> QED  BY <1>2, <1>3

LEMMA MoveOK ==
  ASSUME LauncherInv, UNCHANGED <<disk, shown>>, NEW delta \in {1, -1}, MoveSelection(delta)
  PROVE  LauncherInv' /\ ChoiceKept
<1> DEFINE n == index + delta
           to == IF n < 1 THEN 1 ELSE IF n > Len(list) THEN Len(list) ELSE n
<1>1. UNCHANGED <<roms, list, filter, system, search, favorites, recents>>
  BY DEF MoveSelection, tabs, marks
<1>2. CASE list = <<>>
  <2>1. index' = index /\ scroll' = scroll
    BY <1>2 DEF MoveSelection
  <2> QED  BY <1>1, <2>1, SameList DEF LauncherInv
<1>3. CASE list # <<>>
  <2>1. index' = to /\ scroll' = IF to < scroll THEN to ELSE IF to >= scroll + Cards THEN to - Cards + 1 ELSE scroll
    BY <1>3 DEF MoveSelection
  <2>2. Len(list) \in Nat /\ Len(list) # 0 /\ index \in Nat /\ scroll \in Int
    BY <1>3 DEF LauncherInv
  <2>3. to \in 1..Len(list)
    BY <2>2
  <2> HIDE DEF to
  <2>4. Cards \in Nat /\ Cards # 0
    BY LauncherAssumption
  <2>5. scroll' \in Int /\ scroll' =< to /\ to \in Nat
    BY <2>1, <2>2, <2>3, <2>4
  <2>6. disk' \in SUBSET Range(Catalog)
    BY DEF LauncherInv
  <2> QED  BY <1>1, <2>1, <2>3, <2>5, <2>6, SameList
<1> QED  BY <1>2, <1>3

LEMMA LauncherInitInv ==
  ASSUME LauncherInit
  PROVE  LauncherInv
<1>1. /\ disk \in SUBSET Range(Catalog) /\ favorites = {} /\ recents = <<>>
      /\ filter = "all" /\ system = "all" /\ search = "" /\ roms = Scan(disk)
      /\ list = Built(roms, "all", "all", "", {}, <<>>) /\ scroll = 1
      /\ index = (IF list = <<>> THEN 1 ELSE Kept(list, Place(roms, Named), 1))
  BY DEF LauncherInit
<1>2. roms \in Seq(Range(Catalog)) /\ recents \in Seq(Range(Catalog)) /\ Len(roms) \in Nat
  <2>1. roms \in Seq(Range(Catalog))
    BY <1>1, ScanIs
  <2>2. <<>> \in Seq(Range(Catalog))
    OBVIOUS
  <2>3. Len(roms) \in Nat
    BY <2>1
  <2> QED  BY <1>1, <2>1, <2>2, <2>3
<1>3. list = Built(roms, filter, system, search, favorites, recents)
  BY <1>1
<1>4. list \in Seq(1..Len(roms)) /\ ListedGames(roms, list) = Selected(roms, filter, system, search, favorites, recents)
  BY <1>2, <1>3, BuiltIs
<1>5. Found = Chosen
  BY <1>4, FoundIs
<1>6. index \in Nat /\ 1 =< index /\ (list # <<>> => index \in 1..Len(list))
  <2>1. CASE list = <<>>
    <3>1. index = 1
      BY <1>1, <2>1
    <3> QED  BY <2>1, <3>1
  <2>2. CASE list # <<>>
    <3> DEFINE rom == Place(roms, Named)
    <3>1. index = Kept(list, rom, 1)
      BY <1>1, <2>2
    <3> HIDE DEF rom
    <3>2. Kept(list, rom, 1) \in 1..Len(list)
      BY <1>2, <1>4, <2>2, KeptIs
    <3>3. Len(list) \in Nat
      BY <1>2, <1>4
    <3> QED  BY <2>2, <3>1, <3>2, <3>3
  <2> QED  BY <2>1, <2>2
<1>7. scroll \in Int /\ scroll =< index
  <2>1. scroll = 1
    BY <1>1
  <2> QED  BY <1>6, <2>1
<1> QED  BY <1>1, <1>2, <1>4, <1>5, <1>6, <1>7 DEF LauncherInv

LEMMA LauncherStep ==
  ASSUME LauncherInv, [LauncherNext]_launcherVars
  PROVE  LauncherInv' /\ ChoiceKept
<1> DEFINE Goal == LauncherInv' /\ ChoiceKept
<1>0. disk \in SUBSET Range(Catalog)
  BY DEF LauncherInv
<1>a. ASSUME Here PROVE disk' = disk /\ disk' \in SUBSET Range(Catalog) /\ shown
  BY <1>0, <1>a DEF Here
<1>1. ASSUME Vertical PROVE Goal
  <2>1. UNCHANGED <<library, filter, system, search, marks, shown>> /\ Here
    BY <1>1 DEF Vertical, tabs
  <2> QED  BY <1>a, <2>1, SameLibrary
<1>2. ASSUME Activate PROVE Goal
  <2>1. Here
    BY <1>2 DEF Activate
  <2>2. CASE focus = "filter" /\ CycleTab(1) /\ UNCHANGED shown
    BY <1>a, <2>1, <2>2, CycleTabOK DEF CycleTab
  <2>3. CASE focus = "tabs" /\ ApplyTab(tab) /\ UNCHANGED shown
    BY <1>a, <2>1, <2>3, CycleTabOK
  <2>4. CASE LaunchSelected
    BY <1>a, <2>1, <2>4, LaunchOK
  <2>5. CASE ToggleFavorite /\ UNCHANGED shown
    BY <1>a, <2>1, <2>5, FavoriteOK
  <2>6. CASE shown' = FALSE /\ UNCHANGED <<library, tabs, search, marks>>
    <3>1. UNCHANGED <<library, filter, system, search, marks>>
      BY <2>6 DEF tabs
    <3> QED  BY <1>a, <2>1, <2>6, <3>1, SameLibrary
  <2> QED  BY <1>2, <2>2, <2>3, <2>4, <2>5, <2>6 DEF Activate
<1>3. ASSUME FavoriteKey PROVE Goal
  BY <1>a, <1>3, FavoriteOK DEF FavoriteKey
<1>4. ASSUME RefreshKey PROVE Goal
  BY <1>a, <1>4, RefreshOK DEF RefreshKey
<1>5. ASSUME Searching PROVE Goal
  <2>1. UNCHANGED <<library, filter, system, search, marks, shown>> /\ Here
    BY <1>5 DEF Searching, tabs
  <2> QED  BY <1>a, <2>1, SameLibrary
<1>6. ASSUME LeaveLauncher PROVE Goal
  <2>1. UNCHANGED <<library, filter, system, search, marks>> /\ Here
    BY <1>6 DEF LeaveLauncher, tabs
  <2> QED  BY <1>a, <2>1, SameLibrary
<1>7. ASSUME ShowLauncher PROVE Goal
  BY <1>7, RefreshOK DEF ShowLauncher
<1>8. ASSUME ChangeDisk PROVE Goal
  <2>1. UNCHANGED <<library, filter, system, search, marks, shown>> /\ disk' \in SUBSET Range(Catalog)
    BY <1>8 DEF ChangeDisk, tabs
  <2> QED  BY <2>1, SameLibrary
<1>9. ASSUME NEW d \in {1, -1}, Horizontal(d) PROVE Goal
  <2>1. Here /\ shown' = shown
    BY <1>9 DEF Horizontal
  <2>2. CASE CycleTab(d)
    BY <1>a, <2>1, <2>2, CycleTabOK DEF CycleTab
  <2>3. CASE MoveSelection(d)
    BY <1>a, <2>1, <2>3, MoveOK
  <2>4. CASE UNCHANGED <<library, tabs, search, marks>>
    <3>1. UNCHANGED <<library, filter, system, search, marks>>
      BY <2>4 DEF tabs
    <3> QED  BY <1>a, <2>1, <3>1, SameLibrary
  <2> QED  BY <1>9, <2>2, <2>3, <2>4 DEF Horizontal
<1>10. ASSUME NEW d \in {1, -1}, NextTab(d) PROVE Goal
  BY <1>a, <1>10, CycleTabOK DEF NextTab, CycleTab
<1>11. ASSUME NEW q \in Queries, TypeSearch(q) PROVE Goal
  <2>1. UNCHANGED <<disk, roms, recents>> /\ Rebuild
    BY <1>a, <1>11 DEF TypeSearch, marks
  <2> QED  BY <2>1, RebuildOK
<1>12. ASSUME NEW t, Hover(t) PROVE Goal
  <2>1. UNCHANGED <<library, filter, system, search, marks, shown>> /\ Here
    BY <1>12 DEF Hover
  <2> QED  BY <1>a, <2>1, SameLibrary
<1>13. ASSUME NEW n \in 1..Len(list), PointAt(n) PROVE Goal
  <2>1. /\ UNCHANGED <<roms, list, filter, system, search, favorites, recents, shown>>
        /\ index' = n /\ scroll' = scroll /\ n >= scroll /\ Here
    BY <1>13 DEF PointAt, tabs, marks
  <2>2. n \in Nat /\ scroll \in Int
    BY DEF LauncherInv
  <2> QED  BY <1>a, <2>1, <2>2, SameList
<1>14. ASSUME UNCHANGED launcherVars PROVE Goal
  <2>1. UNCHANGED <<library, filter, system, search, marks, shown, disk>>
    BY <1>14 DEF launcherVars, tabs
  <2> QED  BY <1>0, <2>1, SameLibrary
<1> QED
  BY <1>1, <1>2, <1>3, <1>4, <1>5, <1>6, <1>7, <1>8, <1>9, <1>10, <1>11, <1>12, <1>13, <1>14 DEF LauncherNext

LauncherSpec == LauncherInit /\ [][LauncherNext]_launcherVars

(* For every catalog, directories, searches and number of recents, after any *)
(* number of moves: the launcher shows exactly the games that tab, system and *)
(* search select, selects one of them, and keeps the selected game.          *)
THEOREM LauncherKeepsSelection == LauncherSpec => LauncherKeeps
<1>1. LauncherSpec => []LauncherInv
  <2>1. LauncherInit => LauncherInv
    BY LauncherInitInv
  <2>2. LauncherInv /\ [LauncherNext]_launcherVars => LauncherInv'
    BY LauncherStep
  <2> QED  BY <2>1, <2>2, PTL DEF LauncherSpec
<1>2. LauncherInv => (shown => ListExact)
  BY InvExact
<1>3. LauncherInv /\ [LauncherNext]_launcherVars => ChoiceKept
  BY LauncherStep
<1>4. LauncherSpec => [](shown => ListExact)
  BY <1>1, <1>2, PTL
<1>5. LauncherSpec => [][ChoiceKept]_launcherVars
  BY <1>1, <1>3, PTL DEF LauncherSpec
<1> QED  BY <1>4, <1>5, PTL DEF LauncherKeeps
=============================================================================

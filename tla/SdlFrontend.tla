---------------------------- MODULE SdlFrontend -----------------------------
(***************************************************************************)
(* A session of the SDL frontend (frontend/main.cpp): the main thread,     *)
(* which handles events and owns the screens, and the emulation thread,    *)
(* which steps the core.  They share the core under core_mutex and a few   *)
(* atomics.  The .sav and .state files outlive the session.                *)
(*                                                                         *)
(* Two buttons stand for eight: A on the keyboard and Right on the pad.  A *)
(* set of bits is what the program keeps as a mask with those bits clear.  *)
(* Drawing, audio and the frame copy behind its own mutex are left out, as *)
(* is the joypad interrupt, a bit of the machine's memory.                 *)
(***************************************************************************)
EXTENDS EmulatorCore

CONSTANT MaxEvents  \* bound: events the player causes

VARIABLES core,
          sav, state, \* game to the content of its file
          app,        \* the main thread: at, mode, lastMode, running, loaded, game, key, pad, joypad
          emu,        \* the atomics: active, loaded, running, faulted, pending
          thread,     \* the emulation thread: at, applied, fault
          held,       \* the buttons the player holds down
          events      \* how many events there were

sdlVars == <<core, sav, state, app, emu, thread, held, events>>

Buttons == {"key A", "pad Right"}
\* bit 0 is A for update_joypad_key, but Right for action_to_bit, which the pad's
\* events and both polls use
EventBit(b) == 0
PollBit(b) == IF b = "key A" THEN 4 ELSE 0
PolledBits(S) == {PollBit(b) : b \in S}

NewApp == [at |-> "events", mode |-> "Launcher", lastMode |-> "Launcher", running |-> TRUE,
           loaded |-> FALSE, game |-> NoGame, key |-> {}, pad |-> {}, joypad |-> {}]
NewEmu == [active |-> FALSE, loaded |-> FALSE, running |-> TRUE, faulted |-> FALSE, pending |-> {}]
NewThread == [at |-> "idle", applied |-> {}, fault |-> FALSE]
SdlInit ==
  /\ core = NewCore /\ app = NewApp /\ emu = NewEmu /\ thread = NewThread /\ held = {} /\ events = 0
  /\ sav = [g \in Games |-> NoFile] /\ state = [g \in Games |-> NoFile]

(* An event is handled in the main thread's event loop.                     *)
Event == app.at = "events" /\ events < MaxEvents /\ events' = events + 1

(***************************************************************************)
(* The emulation thread.                                                   *)
(***************************************************************************)
EmuCheck ==
  /\ thread.at = "idle" /\ emu.running /\ emu.active /\ emu.loaded
  /\ thread' = [thread EXCEPT !.at = "checked"]
  /\ UNCHANGED <<core, sav, state, app, emu, held, events>>

(* Under core_mutex: the buttons, when they are not the ones it passed on   *)
(* last, and one frame.                                                     *)
EmuFrame ==
  /\ thread.at = "checked"
  /\ \E c \in StepFrame(IF emu.pending # thread.applied THEN SetJoypadState(core, emu.pending) ELSE core) :
       /\ core' = c
       /\ thread' = [at |-> "stepped", applied |-> emu.pending, fault |-> Machine(c).fault]
  /\ UNCHANGED <<sav, state, app, emu, held, events>>
EmuPublish_OnlyStops ==
  /\ thread.at = "stepped"
  /\ thread' = [thread EXCEPT !.at = IF thread.fault THEN "faulted" ELSE "idle"]
  /\ UNCHANGED <<core, sav, state, app, emu, held, events>>
EmuPublish ==
  /\ thread.at = "stepped"
  /\ emu' = [emu EXCEPT !.faulted = thread.fault]
  /\ thread' = [thread EXCEPT !.at = IF thread.fault THEN "faulted" ELSE "idle"]
  /\ UNCHANGED <<core, sav, state, app, held, events>>
EmuStop ==
  /\ thread.at = "faulted"
  /\ emu' = [emu EXCEPT !.active = FALSE]
  /\ thread' = [thread EXCEPT !.at = "idle"]
  /\ UNCHANGED <<core, sav, state, app, held, events>>
EmuEnd ==
  /\ thread.at = "idle" /\ ~emu.running
  /\ thread' = [thread EXCEPT !.at = "ended"]
  /\ UNCHANGED <<core, sav, state, app, emu, held, events>>

(***************************************************************************)
(* Files.  save_state writes the battery, save_full_state the state file.  *)
(***************************************************************************)
SaveRam ==
  sav' = IF app.loaded /\ HasBattery(core) THEN [sav EXCEPT ![app.game] = Machine(core).ram] ELSE sav
SaveFullState ==
  /\ Event /\ app.loaded
  /\ state' = [state EXCEPT ![app.game] = SaveState(core)]
  /\ UNCHANGED <<core, sav, app, emu, thread, held>>
LoadFullState ==
  /\ Event /\ app.loaded /\ state[app.game] # NoFile
  /\ core' = IF CanLoadState(core, state[app.game]) THEN LoadState(core, state[app.game]) ELSE core
  /\ UNCHANGED <<sav, state, app, emu, thread, held>>

(***************************************************************************)
(* launch_selected and load_game.  The core's system is switched before    *)
(* the boot ROM is looked for; the paths change only after both loaded.    *)
(***************************************************************************)
Launch(g) ==
  /\ Event /\ app.mode = "Launcher"
  /\ LET fresh == LoadRom(SetSystem(core, SystemOf[g]), g)
     IN  core' = IF HasBattery(fresh) /\ sav[g] # NoFile THEN LoadRamData(fresh, sav[g]) ELSE fresh
  /\ app' = [app EXCEPT !.loaded = TRUE, !.game = g, !.mode = "Hidden",
                        !.key = {}, !.pad = {}, !.joypad = {}]
  /\ emu' = [emu EXCEPT !.active = FALSE, !.loaded = TRUE, !.faulted = FALSE, !.pending = {}]
  /\ UNCHANGED <<sav, state, thread, held>>
LaunchFails_TakesName(g) ==
  /\ Event /\ app.mode = "Launcher"
  /\ core' = SetSystem(core, SystemOf[g])
  /\ emu' = [emu EXCEPT !.active = FALSE]
  /\ app' = [app EXCEPT !.game = g]
  /\ UNCHANGED <<sav, state, thread, held>>
LaunchFails(g) ==
  /\ Event /\ app.mode = "Launcher"
  /\ core' = SetSystem(core, SystemOf[g])
  /\ emu' = [emu EXCEPT !.active = FALSE]
  /\ UNCHANGED <<sav, state, app, thread, held>>

(***************************************************************************)
(* Events.                                                                 *)
(***************************************************************************)
Combine(a) == [a EXCEPT !.joypad = a.key \union a.pad]
Pending(a) == IF Combine(a).joypad # a.joypad THEN Combine(a).joypad ELSE emu.pending

(* A key or a pad button goes down or up; only a game gets to see it.       *)
Change(S, bit, down) == IF down THEN S \union {bit} ELSE S \ {bit}
Button(b) ==
  LET down == b \notin held
      a == IF b = "key A" THEN [app EXCEPT !.key = Change(@, EventBit(b), down)]
           ELSE [app EXCEPT !.pad = Change(@, EventBit(b), down)]
  IN  /\ Event
      /\ held' = IF down THEN held \union {b} ELSE held \ {b}
      /\ app' = IF app.mode = "Hidden" THEN Combine(a) ELSE app
      /\ emu' = IF app.mode = "Hidden" THEN [emu EXCEPT !.pending = Pending(a)] ELSE emu
      /\ UNCHANGED <<core, sav, state, thread>>

GoesTo(mode) ==
  /\ app' = [app EXCEPT !.mode = mode]
  /\ UNCHANGED <<core, sav, state, emu, thread, held>>
Quits ==
  /\ app' = [app EXCEPT !.running = FALSE]
  /\ UNCHANGED <<core, sav, state, emu, thread, held>>
Escape ==
  /\ Event
  /\ \/ app.mode = "Menu" /\ GoesTo("Hidden")
     \/ app.mode = "Settings" /\ GoesTo("Menu")
     \/ app.mode = "InputMap" /\ GoesTo("Settings")
     \/ app.mode = "Launcher" /\ app.loaded /\ GoesTo("Hidden")
     \/ app.mode = "Launcher" /\ ~app.loaded /\ Quits
     \/ app.mode = "Hidden" /\ Quits
F10 ==
  /\ Event
  /\ \/ app.mode = "Menu" /\ GoesTo("Hidden")
     \/ app.mode = "Settings" /\ GoesTo("Menu")
     \/ app.mode = "InputMap" /\ GoesTo("Settings")
     \/ app.mode = "Hidden" /\ app.loaded /\ GoesTo("Menu")
F7 == Event /\ GoesTo("Launcher")
MenuEntry ==
  /\ Event /\ app.mode = "Menu"
  /\ GoesTo("Hidden") \/ GoesTo("Settings") \/ GoesTo("Launcher") \/ Quits
SettingsEntry ==
  /\ Event
  /\ \/ app.mode = "Launcher" /\ GoesTo("Settings")
     \/ app.mode = "Settings" /\ (GoesTo("InputMap") \/ GoesTo("Menu"))
Quit == Event /\ Quits

(***************************************************************************)
(* The rest of the main loop: after the events the screen that was left    *)
(* forgets its buttons, the game runs if it is what shows, and the buttons *)
(* that are really down replace what the events said.                      *)
(***************************************************************************)
AfterEvents_NotPolled ==
  /\ app.at = "events"
  /\ app' = [app EXCEPT !.lastMode = app.mode, !.at = IF app.running THEN "top" ELSE "leaving"]
  /\ emu' = [emu EXCEPT !.active = app.mode = "Hidden" /\ app.loaded, !.loaded = app.loaded]
  /\ UNCHANGED <<core, sav, state, thread, held, events>>
AfterEvents ==
  LET entered == app.mode = "Hidden" /\ app.lastMode # "Hidden"
      plays == app.mode = "Hidden" /\ app.loaded
      cleared == IF entered THEN [app EXCEPT !.key = {}, !.pad = {}, !.joypad = {}] ELSE app
      polled == [cleared EXCEPT !.key = PolledBits(held \intersect {"key A"}),
                                !.pad = PolledBits(held \intersect {"pad Right"})]
      known == IF entered THEN {} ELSE emu.pending
  IN  /\ app.at = "events"
      /\ app' = [IF plays THEN Combine(polled) ELSE cleared
                 EXCEPT !.lastMode = app.mode, !.at = IF app.running THEN "top" ELSE "leaving"]
      /\ emu' = [emu EXCEPT !.active = plays, !.loaded = app.loaded,
                            !.pending = IF plays /\ Combine(polled).joypad # polled.joypad
                                        THEN Combine(polled).joypad ELSE known]
      /\ UNCHANGED <<core, sav, state, thread, held, events>>
Top ==
  /\ app.at = "top" /\ ~emu.faulted
  /\ app' = [app EXCEPT !.at = "events"]
  /\ UNCHANGED <<core, sav, state, emu, thread, held, events>>
TopFault ==
  /\ app.at = "top" /\ emu.faulted
  /\ emu' = [emu EXCEPT !.active = FALSE]
  /\ SaveRam
  /\ app' = [app EXCEPT !.at = "leaving"]
  /\ UNCHANGED <<core, state, thread, held, events>>
Leave ==
  /\ app.at = "leaving"
  /\ emu' = [emu EXCEPT !.active = FALSE, !.running = FALSE]
  /\ app' = [app EXCEPT !.at = "joining"]
  /\ UNCHANGED <<core, sav, state, thread, held, events>>
Join ==
  /\ app.at = "joining" /\ thread.at = "ended"
  /\ SaveRam
  /\ app' = [app EXCEPT !.at = "done"]
  /\ UNCHANGED <<core, state, emu, thread, held, events>>
Restart ==
  /\ app.at = "done"
  /\ core' = NewCore /\ app' = NewApp /\ emu' = NewEmu /\ thread' = NewThread
  /\ UNCHANGED <<sav, state, held, events>>

MainLoop == AfterEvents \/ Top \/ TopFault \/ Leave \/ Join
Events ==
  \/ \E b \in Buttons : Button(b)
  \/ \E g \in Games : Launch(g) \/ LaunchFails(g)
  \/ SaveFullState \/ LoadFullState
  \/ Escape \/ F10 \/ F7 \/ MenuEntry \/ SettingsEntry \/ Quit
EmuThread == EmuCheck \/ EmuFrame \/ EmuPublish \/ EmuStop \/ EmuEnd
SdlSpec == SdlInit /\ [][MainLoop \/ EmuThread \/ Events \/ Restart]_sdlVars

(***************************************************************************)
(* Properties.                                                             *)
(***************************************************************************)
(* The core runs the machine of the open game.  Only a launch that fails    *)
(* breaks it, at once or through the files it leads astray (SdlOwnFiles).   *)
Sound == app.loaded => Machine(core).game = app.game /\ Machine(core).ram.of = app.game

(* A .sav file is written only for the open game and, unless a failed       *)
(* launch has switched the core's system, with the RAM of that very game;   *)
(* every way out of a session, a fault too, leaves the last RAM in it, and  *)
(* a game that is launched finds the RAM its last session left.             *)
FilesOwn ==
  [][/\ \A g \in Games : sav'[g] # sav[g] =>
          g = app.game /\ (Sound => sav'[g] = Machine(core).ram)
     /\ app'.at = "done" /\ app.at # "done" /\ Sound /\ app.game \in Batteries =>
          sav'[app.game] = Machine(core).ram
     /\ app'.game \notin {app.game, NoGame} /\ app'.game \in Batteries =>
          Machine(core').ram = IF sav[app'.game] = NoFile THEN Image(app'.game, 0) ELSE sav[app'.game]]_sdlVars

(* While a game plays and the player keeps the same buttons down, the core  *)
(* ends up with exactly those buttons, unless a launch or a save state told *)
(* the core of others behind the emulation thread's back.                   *)
Shows == app.at \in {"top", "events"} /\ app.mode = "Hidden" /\ app.loaded
InStep == Machine(core).pad = thread.applied
PadFollows ==
  \A S \in SUBSET Buttons :
    <>[](Shows /\ ~Machine(core).fault /\ ~emu.faulted /\ held = S /\ InStep)
      => <>[](Machine(core).pad = PolledBits(S))

(* When the CPU of the game that shows has faulted the session ends, unless *)
(* the player leaves the game first or a save state takes the fault away.   *)
FaultEnds ==
  Shows /\ Machine(core).fault ~> app.at = "done" \/ ~Machine(core).fault \/ app.mode # "Hidden"
=============================================================================

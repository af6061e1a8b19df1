# TLA+ models of the GB / GBC / GBA emulator

This directory holds TLA+ models of the emulator's core (`src/core`) and of its
frontends (`src/frontend`, `src/common`), the TLC configurations that check them
on small instances, and proofs, checked by TLAPS, of the theorems that hold for
every instance. The models are translated
from the C++ source. `PROJECT.json` maps every definition to the lines it models.

## 1. The system

The program is an emulator of three machines under two frontends.

A frontend has two threads. The main thread handles events and owns windows, menus,
settings and files; the emulation thread calls `EmulatorCore::step_frame`, which
executes instructions until a frame's worth of cycles has passed. They share the
core under `core_mutex`, and a few atomics: whether a game is active, the buttons,
a fault. What is read before the lock and used after it is where they race.

Inside the core there are no threads. What is concurrent there is the *emulated*
hardware. Timers, LCD, DMA and CPU advance in turn, one instruction's cycles at a
time, and they talk through shared registers, so the order inside a round, and
which component sees a register before or after another has written it, is where
the errors hide.

| part | source | state | operations | hard behaviour |
|---|---|---|---|---|
| GB CPU, interrupts | `cpu.cpp` | `ime_`, `ime_pending_`, `halted_`, `stopped_`, `halt_bug_`, IE, IF | `step`, `service_interrupts`, EI, DI, HALT, STOP, RETI | EI's delay, HALT racing a request, HALT bug |
| GB timer | `mmu.cpp` | `div_counter_`, `tima_`, `tma_`, `tac_`, reload window | `Mmu::step`, writes to FF04–FF07 | writes inside the reload window, edges made by writes, drift |
| GB LCD | `ppu.cpp`, `mmu.cpp` | `dot_counter_`, `line_`, `mode_`, STAT, LY, LYC, `stat_irq_line_` | `Ppu::step`, writes to LCDC, STAT, LY, LYC | steps that straddle boundaries, STAT blocking, LCD off |
| GBC HDMA | `mmu.cpp` | source, destination, length, active | `hdma_start`, `on_hblank` | pacing, restart, cancel, address overrun |
| GB cartridge | `mmu.cpp` | bank registers, RAM, RTC offset, base and latch | writes to 0000–7FFF and A000–BFFF, `rtc_data` | bank 0 rules, latched clock, time across a restart |
| GB APU | `apu.cpp` | frame sequencer, four channels | `step`, triggers, NR52 | length and sweep edges |
| emulator core | `core.cpp`, `state_io.h` | the components | `load_rom`, `step_frame`, `save_state`, `load_state` | a load that fails half-way |
| GBA core | `gba_core.cpp` | `halted_`, HLE wait, video line, timers, DMA channels | `step_frame`, `sync_timers_from_io`, `step_timers`, `step_ppu`, `step_dma`, `service_interrupts`, `handle_swi_hle` | the order inside a round; registers used as edge memory |
| GBA bus | `gba_bus.cpp` | memories, IO cells, flash and EEPROM machines, prefetch | reads, writes, `take_halt_request`, `set_if_bits` | command protocols, IF acknowledge |
| GBA CPU | `gba_cpu.cpp` | registers, banks, CPSR, SPSRs | `step`, `set_mode`, exceptions | two encodings of one arithmetic; registers kept twice |
| HLE BIOS | `gba_core.cpp` | none of its own | `handle_swi_hle` | truncated streams, overlap, sign |
| SDL frontend | `frontend/main.cpp` | screen, buttons, open game, settings, library | event loop, emulation thread, launches, `.sav` and `.state` files | two threads; two sources of buttons; settings in five places |
| Vulkan frontend | `frontend/vk_frontend.cpp` | pause menu, buttons, the game | event loop, emulation thread | buttons hidden by a menu, unplugged pads |
| input bindings | `common/input.cpp`, `config.cpp` | maps of keys, buttons and axes | change, write, reload | a file with one source per action, in any order |
| renderers | `ppu.cpp`, `ppu_backend.cpp`, `gba_core.cpp`, `vulkan_renderer.cpp` | frame buffer | `render_*` | drawing only |

Interaction. On the Game Boy, `step_frame` runs `Cpu::step`, then `Mmu::step`
(timer, OAM DMA), `Apu::step`, `Ppu::step`. Bus writes of the instruction take
effect before any of these. Devices call `Mmu::request_interrupt`; the PPU calls
back `Mmu::on_hblank`, which moves an HDMA block. On the Game Boy Advance a
round is `sync_timers_from_io`, one instruction (or an idle slice when halted),
`step_timers`, `step_dma`, `step_ppu`, `service_interrupts`, then the pending
HALTCNT request.

What makes each part correct, in short. Timer: no tick lost, exact period,
interrupt and reload together. Interrupts: EI's shadow, no lost wake-up, every
sleep ends. LCD: no mode skipped, one HBlank hook a line, one VBlank a frame,
STAT raised on edges of the combined line only. GBA timers: a batch of cycles
gives what counting one by one gives; a write and a mirror are told apart.
Cartridge, memory maps and save media: the byte read back is the byte stored, at
the address the documentation names, and nothing else changes. Processors: each
instruction computes its definition, and the banks of registers do not show. DMA and
sound: exactly as often and as long as the registers said. Frontends: no button
sticks, a file belongs to its game, a setting to the game it was made for, and a
fault ends the session.

## 2. The modules

| module | models | extended by |
|---|---|---|
| `GbTimer` | DIV, TIMA, TMA, TAC, cycle by cycle | `MCGbTimer`, `GbTimerProofs` |
| `GbInterrupts` | `Cpu::step` as far as interrupts go, IE, IF | `MCGbInterrupts`, `GbInterruptsProofs` |
| `GbLcd` | `Ppu::step`, the LCD registers, HDMA pacing | `MCGbLcd`, `GbLcdProofs` |
| `GbaTimers` | the timers of `GbaCore` and their shared cells | `MCGbaTimers`, `GbaTimersProofs` |
| `GbaInterrupts` | rounds of `GbaCore::step_frame`, HALT and IntrWait | `MCGbaInterrupts`, `GbaInterruptsProofs` |
| `GbaFlash` | the flash command machine of `GbaBus` | `GbaSave` |
| `FlashChip` | what a flash chip promises, abstractly | instantiated by `GbaFlash` |
| `GbaEeprom` | the serial EEPROM of `GbaBus` | `GbaSave` |
| `GbaSave` | the two together, chosen by `save_type_` | `MCGbaSave`, `GbaSaveProofs` |
| `GbCpu` | every opcode of the GB CPU, as a function on a machine | instantiated by `Instructions` |
| `GbaIsa` | the GBA's adder, shifter, flags, loads and stores | `GbaThumb`, `GbaArm`, `Instructions` |
| `GbaThumb`, `GbaArm` | the two instruction sets | instantiated by `Instructions` |
| `Instructions` | single instructions and short programs of both CPUs, against definitions in the integers | `MCHardware` |
| `GbaCpu` | modes, banked registers, exceptions and returns | `MCHardware`, `HardwareProofs` |
| `RegisterFile` | what a program sees of the banks, abstractly | instantiated by `GbaCpu` |
| `GbCart` | MBC1, 2, 3 and 5, RAM, clock, battery | `MCHardware`, `HardwareProofs` |
| `GbMemory` | the GB and GBC memory map and its registers, OAM DMA and HDMA | `MCHardware`, `HardwareProofs` |
| `GbApu` | sequencer, length, sweep, envelope, triggers, noise register | `MCHardware`, `HardwareProofs` |
| `GbaVideo` | lines, DISPSTAT, and the DMA channels they pace | `MCHardware`, `HardwareProofs` |
| `GbaMemory` | the GBA memory map, its mirrors, widths and registers | `MCHardware`, `HardwareProofs` |
| `GbaPrefetch` | WAITCNT, streams of fetches, the prefetch buffer | `MCHardware`, `HardwareProofs` |
| `GbaBios` | division, root, copies, LZ77 and run-length of the HLE BIOS | `MCHardware`, `GbaInterruptsProofs` |
| `EmulatorCore` | the core as the frontends see it | `SdlFrontend`, `VulkanFrontend` |
| `SdlFrontend` | a session: two threads, screens, files, buttons | `MCFrontends`, `FrontendProofs` |
| `SdlSettings` | global and per-game settings and input maps | `MCFrontends`, `FrontendProofs` |
| `Launcher` | library, list, tabs, search, favorites, recents | `MCFrontends`, `FrontendProofs` |
| `VulkanFrontend` | a session with its pause menu | `MCFrontends`, `FrontendProofs` |
| `InputConfig` | bindings and the file they are kept in | `MCFrontends`, `FrontendProofs` |

**GbTimer.** `div`, `tima`, `tma`, `tac` are the registers. `reload` joins
`tima_reload_pending_` and `tima_reload_delay_`: 0 when nothing is pending.
`owed` is what is left of the loop of `Mmu::step`; the CPU acts when it is 0.
`wrote` restricts an instruction to the one byte, or the two adjacent bytes, it
can write. `age` is a history variable, cycles since the last undisturbed
overflow. The actions are the four register writes, `Acknowledge`
(`set_interrupt_flags`), `Cycle` (one iteration) and `Retire` (end of an
instruction).

**GbInterrupts.** One action `Execute(op)` for the instructions that touch the
interrupt state, `Dispatch` (`service_interrupts` with IME on), `Idle` (HALT),
and `Request` (any device). `last` is `last_opcode_`, on which the delay of EI
hangs. STOP ends all steps, as `Cpu::step` returns 0 and `step_frame` breaks.

**GbLcd.** `dot`, `line`, `mode`, `coincident`, `enables` (STAT bits 3–6),
`statLine` (`stat_irq_line_`). `Step` is `Ppu::step`, with the branch for LCDC
bit 7 off. `WriteLyc` and `WriteLy` carry the second, independent coincidence
check of `Mmu::write_u8`. `hdma` counts blocks left. `hooks` and `vblanks` are
histories of HBlank hooks in this line and VBlanks in this frame.

**GbaTimers.** `ioData` and `ioControl` are the bus cells; `shadow` is
`io_data_shadow`. `Sync` and `StepTimers(n)` alternate, and the program or DMA
writes between them. `StepTimers` is the batch arithmetic of `step_counter`,
with the cascade as a recursive function over timers; `CycleByCycle` is the reference,
one cycle a `Beat`. `LoadState` is a save state made
and loaded between two frames: `GbaCore::deserialize` restores timers and cells and
reads the shadows (`shadow`, `controlShadow`) from the cells. A write of the frame's
last instruction, which no `Sync` has seen, then never takes effect.

**GbaInterrupts.** One action is one whole round: the instruction, the requests
`R` the devices make in it, the service, and the HALT decision. `Execute`,
`StoreHaltcnt`, `SwiHalt`, `IntrWait` are the instructions, `Idle` a halted
round. `entered` and `raised` record what the round did.

**GbaFlash** takes any byte at any offset at any time, which is what a program
can do. `stage`, `expect`, `armed`, `idMode` and `bank` are the fields of
`GbaBus`; `expect` joins `flash_expect_program_` and `flash_expect_bank_`, which
are never both set. Only the contents of the cells in `Cells` are kept.
`unlocked`, `sequel` and `sentErase` are histories of what was sent, computed
from the bytes alone, against which the machine is judged. `FlashChip` knows no
commands: it programs a cell of the visible bank, erases a sector of it or the
chip, or selects a bank; `ImplementsChip` is the refinement.

**GbaEeprom** collects bits in `cmd` (`eeprom_cmd_bits_`) and answers from
`answer` (`eeprom_read_bits_` from `eeprom_read_index_` on). Its environment sends
whole commands, bit by bit, and may stop fetching an answer anywhere. Addresses
and blocks are sequences of bits, so the mask of `eeprom_block_from_command` is
a `SubSeq`. `AddrBits` is a constant because `load` and `deserialize` always
leave an EEPROM save type with its width; the detection branches of
`write_eeprom16` cannot be reached.

**GbaSave** composes them: a cartridge has one or the other.

**GbCpu** is the opcode table: `Exec` takes a machine, a record of registers, flags
and written bytes, to the next. `Instructions` runs it on every pair of operands
of a bench (`GbAluExact`), through additions and subtractions of decimal numbers
followed by DAA (`DecimalExact`), and through called routines that push and pop
every pair, with the stack at the ends of memory (`GbFramesBalance`).

**GbaIsa**, **GbaThumb** and **GbaArm** take decoded instructions. Their words have
`Width` bits. `ArmExact` compares arithmetic and flags with sums in the integers and
the shifter with bits moved one at a time. `ThumbIsArm` says that every THUMB
instruction leaves the machine, and has accessed the bus, as the ARM instruction
it abbreviates, which the two halves of `GbaCpu::step` compute by separate code;
the exceptions the code makes are written out. `GbaFramesBalance` does for block
transfers and returns what its counterpart does for the GB.

**GbaCpu** keeps what the code keeps: the visible registers and, per mode, copies that
`set_mode` swaps in and out. `RegisterFile` keeps one file of physical registers
and never copies. `ImplementsRegisterFile` is the refinement: a bank is read from
the visible registers if its mode is the current one and from its copy if not.
`MSR`, `SWI`, interrupts, loads and stores of user registers, and both kinds of
return are its steps.

**GbCart**: `cart` is the bank registers as the code keeps them, `eram` a byte per RAM
bank, `rtc` offset, base and latch, `disk` the two files. `now` is the host's clock.
`PowerOff` writes what `ram_data` and `rtc_data` give, `PowerOn` reads it. `WriteClock`
stores any byte into a register of the clock: `LowBits` is how much of it counts, and what
the register has no room for (60 to 63 seconds or minutes, 24 to 31 hours) carries into the
next. `ClockSet` says where the clock then stands. The code drops the carry of the days
there and starts a halted clock, unless the halt bit is what is stored or the clock is
latched with it: the property says so.

**GbMemory**: `Locate` turns an address into a cell, `Read` is `read_u8`; `WriteIo`, a store
to a register, does all that the code does with it. **GbApu**: a step spans any
number of cycles, as `Apu::step` does, and so holds several clocks of the
sequencer. `played` keeps what was written at the trigger, and
`SoundExact` computes from it and the number of clocks what must be left: length, volume,
and the frequency the sweep has bent it to (`Glide`). `SetPower` is the store to NR52: it
overwrites the status bits, which are those of the channels again after the next powered
step (`shown`).

**GbaVideo**: `Round` is `step_ppu` with `run_dma`. `StoreDispstat` stores the flags with the
rest, and any target, the current line among them. `BeamExact` recomputes line, flags and
requests from the total time and the last such store: nothing happens until the next
boundary (`NextBoundary`), and there whatever holds (`Holding`) and was not stored as a flag
(`kept`) is an interrupt. `DmaFollows` the registers of a channel from what
was armed and how often its event came. **GbaPrefetch**: `credit` is a history, the cycles
spent in instructions of the current stream less the cycles its fetches were
spared. **GbaMemory**: `BusReadsBack` follows each store of each width through all
watched addresses. **GbaBios**: a call and its answer. A compressed stream comes with the
tokens it was packed from, and `Holds` says that its bytes are the encoding of each;
the answer is compared with the text the tokens stand for, or with the definition of
a quotient, a root or a copy. The loops of the code (`isqrt32`, the copies, the two
decoders) are recursive functions, one turn a step.

**EmulatorCore** holds a GB and a GBA machine and sends each call to the one
`system_` names: a launch that fails after `set_system` leaves the other in charge.
A frame may store to RAM and may fault.

**SdlFrontend**: one event, or one pass of the main loop after its events, is an action of
the main thread; `EmuCheck`, `EmuFrame` (under the lock), `EmuPublish` and `EmuStop`
are the emulation thread, so that everything the program does outside the lock
interleaves. `thread.applied` is the mask the thread last passed on. `Restart` begins a
new session with the files of the last. **VulkanFrontend** is split likewise;
`Unplug` is a controller's removal. A state load brings the buttons of the state back and
leaves what the thread last passed on (`emuThread.applied`) alone, so that they stay pressed
until the shared buttons change: `emuThread.restored` is a history of them, by which
`NoStuckButton` tells this from any other button that sticks.

**SdlSettings**: `inForce`, `global`, the `override` files and the `maps` are the places of a
setting; `ui_state.conf` is written and read within `Exit`, which is the end of a session and
the start of the next, in the launcher or with a ROM on the command line. In the second
`load_game` runs before `global_settings` is filled: it applies the game's override, or the
defaults of `GlobalSettings` over what the options and `ui_state.conf` said, and the result
becomes global (`Defaults`). Leaving with an override in force makes it global too, by
`ui_state.conf`. `NextSession`, a part of `OverridesOwn`, states all four cases, and every
session begins in one of them. **Launcher**: `list` holds indices into `roms` as the code's
does, which is why a refresh can go wrong. **InputConfig**: the file is read back line by
line in any order, as `Config` keeps its lines in an unordered map. `button_name` knows 15
buttons; of another, which the rebinding takes as well, the file says "none" (`Nameless`),
and its action has no controller binding after the next reload: `BindingsSurvive` makes
the exception.

`MCHardware` and `MCFrontends` put the parts that keep state of their own side by side:
`unit` is chosen at the start, and the part it names moves while the others rest.

## 3. Runs

| run | question | size |
|---|---|---|
| `gb_timer` | Do writes at any moment lose a tick, bend the period, or part interrupt and reload? | divider of 10 bits, TIMA 0..2, 4, 8 and 12 cycles |
| `gb_interrupts` | Any program over EI, DI, HALT, STOP, RETI, IE, IF: EI's shadow, lost wake-ups | 3 sources |
| `gb_lcd` | Steps across boundaries and writes at any dot: hooks, VBlank, HDMA | lines of 10 units, 4 lines |
| `stat_blocking` | Is STAT raised only by an edge of the combined line? *Violated.* | as `gb_lcd` |
| `gba_timers` | Batches against counting cycle by cycle; is a mirrored counter ever taken for a reload, before or after a save state is loaded? | 2 timers, modulus 3, 800 thousand states |
| `timer_reload` | Does every write to TMxCNT_L become the reload? *Violated.* | as `gba_timers`, no write hidden by a load |
| `gba_interrupts` | Rounds with any requests: no sleep through one, every sleep ends | 2 sources |
| `intr_wait` | Does a wait end for its own sources only? *Violated.* | as `gba_interrupts` |
| `gba_save` | Any bytes to the flash, whole commands to the EEPROM: is the save changed only as asked, and read back as stored? | 2 banks, 4 offsets, 10 bytes, 3 cells; 2 blocks of 2 bits |
| `flash_program` | Does a program command store any byte? *Violated.* | as `gba_save` |
| `hardware` | Do instructions, banks, memory maps, sound, video, DMA, wait states and BIOS calls give what their definitions say? | 225 thousand states |
| `frontends` | Sessions of both frontends, launcher, settings and bindings: buttons, files, overrides, faults | 280 thousand states |

What `hardware` checks: `InstructionsExact` and `FramesBalance` (`Instructions`),
`ImplementsRegisterFile` (`GbaCpu`), `CartridgeKeeps` (`GbCart`), `MemoryExact`
(`GbMemory`), `SoundExact` (`GbApu`), `VideoExact` (`GbaVideo`), `PrefetchPaid`
(`GbaPrefetch`), `BusReadsBack` (`GbaMemory`) and `BiosExact` (`GbaBios`). What `frontends`
checks: `FilesOwn`, `PadFollows` and `FaultEnds` (`SdlFrontend`), `NoStuckButton`
(`VulkanFrontend`), `BindingsSurvive` (`InputConfig`), `OverridesOwn` (`SdlSettings`) and
`LauncherKeeps` (`Launcher`). Each is stated in words where it is defined.

**Bounds.** *GbTimer*: the timer looks at divider bits 3, 5, 7 and 9, so ten bits show
every phase; three TIMA values give an overflow from TMA, one short of it, and a period of
more than one tick. The three instruction lengths are shorter and longer than the
four-cycle window, and end inside it and at its edges. *GbInterrupts*: three sources, two
that compete and one left out. *GbLcd*: the lengths of modes 2, 3 and 0 are 3, 3 and 4
units and steps are 1 or 2, so a step crosses each boundary exactly and with a remainder.
The code's longest instruction (24 dots) is likewise below its shortest mode (80).
*GbaTimers*: a modulus of 3 with batches of up to 5 cycles overflows a timer more than
once and cascades more than once; `MaxWrites` bounds the register writes in each half of a
round to one and `MaxLoads` the loads that hide a write to one; the program writes one
reload, which leaves a period of one tick beside the first period of three, and starts a
timer on a prescaler of two or on the timer below. *GbaInterrupts*: two sources, the
fewest with a priority and a mask that leaves one out. *GbaSave*: the offsets are the two
keys', the bank register's and a neighbour, so that the cells looked at lie in one sector
of both banks and in another sector; the bytes are every command's and one that is data.
Two blocks of two bits, selected by one of two address bits, show the mask and commands
for the same and for another block. Histories are bounded by the models' own guards.

*Hardware*: words of 14 bits (8 in the BIOS), sampled at zero, one, the byte, the sign and
the top, where the arithmetic changes what it does; a bench of nine bytes for the GB with
every operation on every pair. Four steps reach each mode from each with a bank written
before and after (`MaxSteps`); five steps of a cartridge bank, store, latch, pass a day's
end and cross a power cycle (`MaxCartSteps`), with a day of eight seconds; the bytes stored
into the clock (`ClockBytes`) fit its registers, are too large for some and not for others,
are too large by more than their low bits, and set the halt bit. Two stores show
one at its mirrors and one beside it (`MaxStores`, `BusStores`). Five beats of one or
several sequencer clocks end a note, reach both ends of the volume and both ends of the
sweep (`MaxBeats`). Four rounds of 1, 3, 7 or 23 cycles, where a line has 5 and a frame
20, cross one boundary, several, and a whole frame, with a store between them
(`MaxRounds`). Streams for the decoders
hold tokens of every kind, in LZ77 of the least and the greatest length, a reference to
before the start, and headers that declare no byte and more than `MaxOutput`. Six accesses
fill the prefetch buffer of eight halfwords, empty it and leave its stream
(`MaxAccesses`). *Frontends*: four events open, play, leave and open again (`MaxEvents`),
five in the pause menu (`VkMaxEvents`); a GB and a GBA game are needed to switch systems,
and one RAM store tells images apart (`MaxVersion`). Three bindings take a source from an
action and give it back, one of the two buttons being one without a name (`MaxBindings`,
`MapButtons`), six changes of settings span two games with a failed launch between them, or
two sessions (`MaxChanges`), four moves a refresh between two selections
(`MaxMoves`); a game listed twice needs seven (section 4).

**Deadlock** is checked in every run but three: in `gb_interrupts` STOP really does stop the
machine, and in `hardware` and `frontends` the bounds end a behaviour.

**Fairness.** The frontends call `step_frame` frame after frame, and its loop
runs the CPU and the devices in every iteration. That justifies weak fairness of
`CpuStep` in `GbInterrupts`, of `Step` in `GbLcd`, and of `Next` in
`GbaInterrupts`; no fairness is assumed of any particular instruction, write or
request. In `MCFrontends`, `WF_vars(Main)` and `WF_vars(Emulation)` say that the operating
system runs both threads and that the queue of events ends, so that the main loop
gets past it; no fairness is assumed of the player, and none of the order in which the
threads take the lock, because each holds it for one action. `WakeUp` names the
environment's part in its premise: every source is requested again and again.
`VblankRecurs` names its own: the program leaves the LCD on.

## 4. What is proved

Each `*Proofs` module proves its results for every value of the constants that
meets the named assumptions, so also for the code's own sizes: a divider of 65536,
lines of 456 dots and frames of 154, 1232 cycles and 228 lines on the GBA, four
timers of 16 bits, EEPROM blocks of 64 bits, a day of 24 hours.

* **Timer.** `IInv == TypeOK /\ ReloadWindow /\ Settled /\ AgeEnabled /\ AgeLinear`.
  `ReloadWindow` is why no tick is dropped: a pending reload finishes before the
  divider can fall again, whatever is written meanwhile, since every write that
  moves the divider or the selection restarts the distance. `AgeLinear` says that
  `age` equals the ticks counted since the last overflow times the period plus the
  divider's phase; `ExactPeriod` is that equation at the moment of overflow. `Settled`
  and `AgeEnabled` say when the equation applies. Theorems: `TypeCorrect`,
  `WindowClean`, `TicksKept`, `PeriodExact`, `RequestsMatchReloads`.
* **GB interrupts.** The type invariant (with `imePending => last = "ei"`) is
  inductive and yields `EiIsDelayed`, `ImeDiscipline`, `HaltSeesRequests`, `HaltBugIsMasked`.
* **LCD.** `IInv == TypeOK /\ ModeAgrees /\ HblankOncePerLine /\ VblankOncePerFrame`;
  `ModeAgrees` ties the remembered mode to dot and line, without which "mode
  changed" says nothing. From the assumption that no step is longer than the
  shortest mode, `ModesInOrder`, `HblankHookOnce`, `VblankOnce`, `HdmaOnePerLine`.
* **GBA timers.** `TypeCorrect` bounds every counter by the width through any batch and
  cascade. `BatchesAreExact` says that `step_timers`, with its divisions, leaves what
  counting one cycle after another leaves, for batches of any length, any prescaler and
  any number of cascading timers: `OneTick` is the arithmetic of one more tick on a
  batch of them, `MoreByOne` carries one more cycle up the cascade timer by timer, `BeatIsNext`
  says that a beat of the reference is that cycle, and `CyclesAreBatch` is the induction
  over cycles. For the shared cell, `Shape` and
  `Marked`: a cell differs from its shadow only if it holds the value last written,
  whether the core put the shadow there or `LoadState` read it back. From it,
  `MirrorsAreNotReloads`; by the steps alone, `StartsAreFresh`.
* **GBA interrupts.** `TypeCorrect` (including that exactly a core in a wait has a
  mask), `RequestsKept`, `WakesInOneRound`, by a lemma per kind of instruction.
* **Flash.** `Unlocking` says the machine is never ahead of what was sent: a stage,
  an expected data byte or an armed erase is there only if its bytes came.
  `Recovering` says that from a reset on it is not behind either. The first yields
  `UnlockNeeded`, the second `ResetIsEnough`. `Refinement` maps each kind of byte
  to a step of `FlashChip` or to a stutter. All three are theorems of `GbaSave`'s
  `Spec`, by `FlashRuns`: the EEPROM's steps leave the flash alone.
* **EEPROM.** `Framed`: what the decoder holds and what the program has still to send
  make up the one command that is under way, and an answer is there only between
  commands. `BitAccepted` says of each bit of a command that the decoder keeps it or, at
  the last, acts on the whole; for that it must not find the end of a command inside
  another, which is arithmetic on the two lengths. Theorems `NeverOutOfFrame`,
  `AnswersAreRight`, `EepromStores`, by `EepromRuns` of `GbaSave`'s `Spec`.
* **GBA CPU.** `CpuTypes` and `CpuRegisters`, the refinement of `RegisterFile`. Changing
  mode is a step that moves values between the visible registers and the copies and
  changes no physical register; one lemma says so of `set_mode`, and each action
  then is its counterpart there.
* **Cartridge.** `CartTypes` and `CartridgeIsKept`. The clock splits a number of seconds
  into days, hours, minutes and seconds and puts it together again: `MixedRadix` says
  this loses nothing for any lengths of the four, and storing one register then moves
  the clock by the difference of that one, for any byte stored. The bank numbers are remainders, with the
  rules for bank 0 by cases.
* **GB sound.** `SoundIInv` says of each channel that has heard a note how far it has
  come in it: its length, volume and frequency are those of the note after the
  clocks counted since the trigger; and of NR52 that it shows the channels, unless it was
  stored since the last powered step. A step of `Apu::step` meets the sequencer up
  to eight times; the invariant is kept by each. `SoundsAreExact` follows.
* **GBA video.** `VideoIInv`: line and cycle are the quotient and remainder of the time
  since reset, the flags and the counts of VBlanks, HBlanks and target lines are those
  of that time and of the last store of DISPSTAT, and each channel's registers are what was armed, moved on by the
  transfers since. The loop of `step_ppu` over the lines of a round keeps it line by
  line. `BeamIsExact` follows.
* **Prefetch.** `BusIInv`: for every halfword in the buffer, and for the next one when the
  stream has left the Game Pak, `credit` has the cycles a fetch would have cost. `Fill`, a
  turn of the loop of `refill_prefetch`, spends before it queues. `PrefetchIsPaid`.
* **Vulkan session.** `VkInv`: the shared buttons are those the window knows of, which
  the player holds; an open menu knows of none; and the machine has no buttons but what
  the thread last passed on and what a state loaded since held. `VulkanButtons`, `VulkanSelection`.
* **SDL session.** `SdlTypes`; `SdlFiles`, that every write of a `.sav` file is of the open
  game and every end of a session makes one. `SdlOwnFiles` says more, under a condition
  that names the one way out: as long as no launch that fails has switched machines,
  every file holds the RAM of its own game.
* **GB memory map.** `MemInv`: the registers hold what they can hold, and an HDMA that has
  blocks left ends inside VRAM and cartridge RAM, whatever was written to its registers.
  `SameCell`: two addresses name the same cell only in the echo of the work RAM, so a
  store shows there and nowhere else. `CopiedStep` carries an HDMA block byte by byte: a
  byte that is still to be read has not been overwritten, or is the one that is written,
  so the block holds what the CPU would have read before it. `MemoryIsExact`, for every
  set of addresses, values and register stores.
* **GBA memory map.** `CellsOfBlock`: the bytes of an aligned access are cells of their
  own in one region. So a store of one, two or four bytes changes the cells it names and
  no other, whatever was stored before (`StoreIs`, `KeepsRest`), and a load of any width
  takes its part of the word (`PartsOfWord`). `StoresReadBack`. The property had said of
  every address from EWRAM to the end of IWRAM that the next copy of it is 256 KB on; the
  last copy of each has none there, and the clause now ends before it. The watched
  addresses of the run had not held one.
* **BIOS calls.** `BiosIsExact`. A rule for each recursive function says what it is turn
  by turn. `SignedDivIs` is C++'s division; `RootIs` that after each turn the root is
  exact down to the bit reached, and value and root are what its square leaves and the
  root shifted; `CopyIs` that nothing outside the
  destination changes and that, where the copy does not overrun its own source, each byte
  is its source's. A decoder's turn leaves it `Going` (its output is what the first tokens stand for, its
  place in the stream where those end), `Finished` with the declared size, or `Failed` at
  a reference to before the start; `RefusedIs` says when the call answers nothing. For
  every width, memory, block and stream.
* **Launcher.** `LauncherKeepsSelection`: `LauncherInv` ties the list to the games that
  tab, system and search select whenever the launcher is shown, and every step that builds
  the list anew finds the selected game again by its path. The proof showed that the
  property was false as it stood: with a game listed twice and its second copy selected,
  the tab of recents, which has the first copy only, moves the selection to another game.
  This takes seven moves. The property now speaks of the first copy there.
* **Settings.** `SettingsTypes`; `SettingsOwn`, on steps; `SettingsInForce`, on states,
  under the condition that no launch of *another* game fails. The proof of the first found
  that `OverridesOwn` was too strong as it stood: after a launch that fails,
  `current_rom_path` names the other game, and PER-ROM in the launcher then removes the
  open game's file or puts the global settings into it, so that what is in force is not
  what it says. TLC needs six changes for this, and had been given five. The property now
  says so, and the run makes six. That a session without an override leaves its global
  settings to the next rests on the invariant that it has them in force.
* **Bindings.** `BindInv`: the file says of every action what it had, as far as it has names
  for its buttons (`Bound`), and while it is read
  back, the actions read so far have a source of their own already and none that was not
  theirs. `BindingsKept`: in any order of the lines.

Some theorems state properties that no run lists: they hold step by step from the
inductive invariant, and the runs keep to what takes several steps to break.

**Loops.** The library's induction theorems take a predicate as a parameter, which the
installed provers cannot instantiate. What is computed by a loop is proved without
them: the loop is a recursive *function*, a witness that satisfies its equation is given,
and `SetInduction` (a set that has 0 and with each number the next has them all), which
rests on the well-foundedness of the numbers, is applied to the set of the turns for
which the claim holds. This is how `BatchExact`, `SoundExact`, `VideoExact`, `PrefetchPaid`,
`MemoryExact`, `BiosExact` and `LauncherKeeps` are proved.

**Assumptions.** Each is named in the module that declares the constants, and TLC
evaluates it in every run. They say what kind of thing a constant is, and: no LCD step
is longer than the shortest mode (`GbLcd`); the divider's modulus is a multiple
of 1024 (`GbTimer`); a timer has at least two values (`GbaTimers`); a ROM has at least two banks
and the units of its clock fit its registers (`GbCart`); one APU step spans at most eight
sequencer frames and the LFSR does not start at zero (`GbApu`); plain stores are to addresses
outside the registers (`GbMemory`); a ROM is no longer than its window (`GbaMemory`); a
word has an even number of bits, blocks end inside memory, and a stream is the encoding of
its tokens and declares no more than they stand for (`GbaBios`); lines and frames have a part
that is drawn and one that is not (`GbaVideo`); keys and pad buttons, and the names that stand for
"none" and the things they are not, differ (the frontends).

**Only model-checked.** Liveness (`WakesUp`, `VblankRecurs`, `WakeUp`, `PadFollows`,
`FaultEnds`): the prover has no fairness reasoning. `InstructionsExact`: the instruction
sets use `Bitwise`, whose operators are recursive, and a module that reaches a recursive
operator has no arithmetic prover; `FramesBalance` runs on the same modules.
`WritesBecomeReloads`, `StatBlocking`, `WaitsForItsMask` and `ProgramStores` are false and
stay with TLC.

## 5. Where the code and its documents disagree

* **STAT blocking** (`stat_blocking`): `ppu.cpp:184` and `agent.md:36` promise a
  request only on an edge of the combined line. `Mmu::write_u8` (FF44, FF45)
  requests STAT by itself on a new coincidence even if the line is already high.
* **Timer reload** (`timer_reload`): `gba_core.cpp:1760` says writes are treated
  as reload updates. A write to a running timer is overwritten by the mirror in
  the same round, before it is looked at.
* **VBlankIntrWait** (`intr_wait`): `gba_core.cpp:2169` says it waits for VBlank.
  Any interrupt that is served ends it.
* **Flash program** (`flash_program`): `tests/tests.cpp:1789` says a program command
  stores its byte. The byte 0xF0 is taken for a reset even there, and is lost.

Other behaviour that looks wrong, on which no document says anything, is listed
under "hazards" in `PROJECT.json` with a note.

## 6. Abstractions

The GB model leaves out an interrupt dispatch whose push lands in IE or IF (the stack
pointer at 0000 or FF10). In `GbaInterrupts` the copies of DMA and HLE calls do not target
IE, IF, IME or HALTCNT, and the BIOS path that runs assertion loops ahead is left out.
`GbLcd` leaves out drawing, and counts dots in units. Writes to a register the instruction
reads first are writes of any value. `GbaSave` leaves out SRAM, a plain array, and the
contents of cells that are not looked at. EEPROM commands that are cut short are left out:
the next first bit of 1 then continues them.

Instructions are decoded: the formats are records, and the bit patterns they have in
memory are left out, as are cycle counts. Memory is the bytes an instruction or a
store touches. `GbCart` keeps a byte per RAM bank and shortens the clock's units.
`GbApu` leaves out samples, and `GbaVideo` pixels and the data DMA moves. `GbMemory` keeps
one bank of cartridge RAM and leaves out the compatibility palettes and the joypad's
interrupt. `GbaMemory` has SRAM for save memory and plain cells for the sound
registers. Two buttons stand for eight, three settings for eight and a path for a
file; whether the HUD is shown and audio plays, which a start treats by rules of their own,
is left out; a `.sav` or `.state` file is written in one step. A machine in
`EmulatorCore` is its game, its RAM, its buttons and its fault, and a state file restores
it as a whole, but for a fault of the GB CPU, which a load takes away; the GBA's is part
of its state.

Where the code does less than one might expect, the model does the same and the
property says so: the file of bindings keeps one controller source per action
(`BindingsSurvive`), a failed launch leaves the wrong machine in charge (`FilesOwn`), DAA
wraps for sums from 250 to 255 (`DecimalExact`), stores over the flags of DISPSTAT lose or
repeat an interrupt (`VideoExact`), a store to one register of the clock starts it
(`CartridgeKeeps`), and a start with a ROM puts the defaults, or the settings of one game,
in the place of the global ones (`OverridesOwn`). `RegisterFile`, the specification the GBA
CPU implements, has one such rule in itself: a SWI from Supervisor mode keeps the older
SPSR, so that the refinement does not judge what the code does there.

## 7. Not modelled, and why

Drawing (PPU rendering, line rendering of the GBA, the renderer backends, the Vulkan
renderer, the layout of menus and the launcher's cover art) computes pixels from memory
and has no control state beyond the timing above. Mixing and resampling of audio, video
filters and text formatting are data functions. The launcher of the Vulkan frontend is a
scan of directories, a sorted list and one cursor, redrawn. Of the HLE BIOS, the affine
and trigonometric calls are floating point; Huffman and the difference filters are loops
like the two decompressors that are modelled. The watchdog, assert skipping and automatic
patching of `gba_core.cpp` recognise particular games' code. Of the fields of a state file
only the GBA's timers are modelled (`GbaTimers`); what a load that fails half-way leaves
is not modelled yet. `build/`, `build-release/` and `saves/` are generated.

## 8. Plan

1. **SaveState**: what `serialize` leaves out and what a failed `deserialize` leaves
   behind, for `EmulatorCore`, `Ppu` and `GbaCore`; a crash inside `write_file`.
2. Proofs: `InstructionsExact` and `FramesBalance`, once the masks and exclusive-ors of the
   instruction sets are written as sums over bits and no longer with `Bitwise`.
3. **GbPpu**: window line counter and sprite selection of a line.
4. **GbaSound**: the FIFOs that timers and DMA feed, composed with `GbaTimers` and
   `GbaVideo`.
5. **GbaBios**: Huffman and the difference filters.
6. The joypad's interrupt, composed with `GbInterrupts`, and STOP.

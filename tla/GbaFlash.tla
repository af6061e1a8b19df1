-------------------------------- MODULE GbaFlash --------------------------------
(***************************************************************************)
(* The flash save memory of GbaBus (src/core/gba_bus.cpp): the command     *)
(* machine of write_flash8 and what read_flash8 shows.  A step is a byte   *)
(* the program stores into the 64 KiB window.  It may send any bytes in    *)
(* any order; those that begin a command, or are data, are in Values.      *)
(* Only the contents of the cells in Cells are followed.                   *)
(***************************************************************************)
EXTENDS Integers

CONSTANTS
    Banks,          \* {0, 1} for Flash128K, {0} for Flash64K
    Offsets,        \* offsets the program writes to
    Values,         \* bytes the program writes
    Cells           \* the cells that are looked at: <<bank, offset>>

ASSUME BanksAssumption == Banks \in {{0}, {0, 1}}
ASSUME OffsetsAssumption == Offsets \subseteq 0..65535
ASSUME ValuesAssumption == Values \subseteq 0..255
ASSUME CellsAssumption == Cells \subseteq Banks \X Offsets

VARIABLES
    mem,            \* save_data_, at Cells
    bank,           \* flash_bank_
    idMode,         \* flash_id_mode_
    stage,          \* flash_unlock_stage_
    expect,         \* flash_expect_program_ or _bank_: "program", "bank", "none"
    armed,          \* flash_erase_armed_
    unlocked,       \* history: how much of an unlocked program command was sent
    sequel,         \* history: the same, of a reset with that command after it
    sentErase       \* history: an unlocked erase command since the last reset

flashVars ==
    <<mem, bank, idMode, stage, expect, armed, unlocked, sequel, sentErase>>

Erased == 255
SectorSize == 4096

FirstKey(o, v) == o = 21845 /\ v = 170          \* AA to 5555
SecondKey(o, v) == o = 10922 /\ v = 85          \* 55 to 2AAA
Order(o, v, code) == o = 21845 /\ v = code
ChipErase == 16
SectorErase == 48
EraseSetup == 128
ReadId == 144
ProgramByte == 160
BankSwitch == 176
Reset == 240

-----------------------------------------------------------------------------
(* GbaBus::load of a cartridge that has no save yet.                       *)
FlashInit ==
    /\ mem = [c \in Cells |-> Erased]
    /\ bank = 0 /\ idMode = FALSE
    /\ stage = 0 /\ expect = "none" /\ armed = FALSE
    /\ unlocked = 0 /\ sequel = 1 /\ sentErase = FALSE

(* Where an offset lies: flash_data_offset.                                *)
Cell_FirstBank(o) == <<0, o>>
Cell(o) == <<bank, o>>
InSector(o, c) == c[1] = bank /\ c[2] \div SectorSize = o \div SectorSize

(* 0xF0 ends ID mode and any command, also where data is expected.         *)
WriteReset ==
    /\ idMode' = FALSE /\ stage' = 0 /\ expect' = "none" /\ armed' = FALSE
    /\ UNCHANGED <<mem, bank>>

WriteData(o, v) ==
    /\ expect = "program"
    /\ mem' = [c \in Cells |-> IF c = Cell(o) THEN v ELSE mem[c]]
    /\ expect' = "none" /\ stage' = 0
    /\ UNCHANGED <<bank, idMode, armed>>

BankAfter(o, v) == IF Banks = {0, 1} /\ o = 0 THEN v % 2 ELSE bank
WriteBank(o, v) ==
    /\ expect = "bank"
    /\ bank' = BankAfter(o, v)
    /\ expect' = "none" /\ stage' = 0
    /\ UNCHANGED <<mem, idMode, armed>>

StageAfter(o, v) ==
    CASE stage = 0 /\ FirstKey(o, v) -> 1
      [] stage = 1 /\ SecondKey(o, v) -> 2
      [] OTHER -> 0
WriteKey(o, v) ==
    /\ expect = "none" /\ stage < 2
    /\ stage' = StageAfter(o, v)
    /\ UNCHANGED <<mem, bank, idMode, expect, armed>>

(* The second half of an erase.  Anything else unlocked disarms it.        *)
WriteErase(o, v) ==
    /\ expect = "none" /\ stage = 2 /\ armed
    /\ mem' = [c \in Cells |->
                 IF Order(o, v, ChipErase) \/ (v = SectorErase /\ InSector(o, c))
                 THEN Erased ELSE mem[c]]
    /\ armed' = FALSE /\ stage' = 0
    /\ UNCHANGED <<bank, idMode, expect>>

WriteOrder(o, v) ==
    /\ expect = "none" /\ stage = 2 /\ ~armed
    /\ stage' = 0
    /\ idMode' = (idMode \/ Order(o, v, ReadId))
    /\ armed' = Order(o, v, EraseSetup)
    /\ expect' = CASE Order(o, v, ProgramByte) -> "program"
                   [] Order(o, v, BankSwitch) /\ Banks = {0, 1} -> "bank"
                   [] OTHER -> "none"
    /\ UNCHANGED <<mem, bank>>

(* The histories.  A byte that breaks a sequence may begin the next one.   *)
Sent(o, v) ==
    /\ unlocked' = CASE FirstKey(o, v) -> 1
                     [] unlocked = 1 /\ SecondKey(o, v) -> 2
                     [] unlocked = 2 /\ Order(o, v, ProgramByte) -> 3
                     [] OTHER -> 0
    /\ sequel' = CASE v = Reset -> 1
                   [] sequel = 1 /\ FirstKey(o, v) -> 2
                   [] sequel = 2 /\ SecondKey(o, v) -> 3
                   [] sequel = 3 /\ Order(o, v, ProgramByte) -> 4
                   [] OTHER -> 0
    /\ sentErase' = /\ v # Reset
                    /\ sentErase \/ (unlocked = 2 /\ Order(o, v, EraseSetup))

Write(o, v) ==
    /\ Sent(o, v)
    /\ \/ v = Reset /\ WriteReset
       \/ v # Reset /\ WriteData(o, v)
       \/ v # Reset /\ WriteBank(o, v)
       \/ v # Reset /\ WriteKey(o, v)
       \/ v # Reset /\ WriteErase(o, v)
       \/ v # Reset /\ WriteOrder(o, v)

FlashNext == \E o \in Offsets, v \in Values : Write(o, v)

FlashSpec == FlashInit /\ [][FlashNext]_flashVars

(* read_flash8: in ID mode the chip shows its maker and device.            *)
Id(o) == CASE o = 0 -> IF Banks = {0} THEN 191 ELSE 194
           [] o = 1 -> IF Banks = {0} THEN 212 ELSE 9
           [] OTHER -> 255
Read(o) == IF idMode THEN Id(o) ELSE mem[Cell(o)]

-----------------------------------------------------------------------------
FlashTypeOK ==
    /\ mem \in [Cells -> Values \cup {Erased}]
    /\ bank \in Banks /\ idMode \in BOOLEAN
    /\ stage \in 0..2 /\ expect \in {"none", "program", "bank"}
    /\ armed \in BOOLEAN
    /\ unlocked \in 0..3 /\ sequel \in 0..4 /\ sentErase \in BOOLEAN

(* Stray stores, such as a game that runs wild or probes for SRAM, never   *)
(* change the save: a change is the byte right after a complete unlocked   *)
(* program command, or an unlocked byte after an unlocked erase command.   *)
NeedsUnlock ==
    [][mem' # mem => unlocked = 3 \/ (unlocked = 2 /\ sentErase)]_flashVars

(* A reset brings the chip back from whatever went before: the program     *)
(* command that follows it stores its byte, any but 0xF0, and reads show   *)
(* it.                                                                     *)
ResetRecovers ==
    [][ \A o \in Offsets, v \in Values \ {Reset} :
          sequel = 4 /\ Write(o, v) /\ Cell(o) \in Cells => Read(o)' = v ]_flashVars

(* "Flash program command should store byte" (test_gba_flash_protocol),    *)
(* whatever the byte is.                                                   *)
ProgramStores ==
    [][ \A o \in Offsets, v \in Values :
          sequel = 4 /\ Write(o, v) /\ Cell(o) \in Cells => mem'[Cell(o)] = v ]_flashVars

(* Seen from outside the command machine is a flash chip: every step       *)
(* programs one visible cell, erases one sector of the visible bank or all *)
(* of the chip, selects a bank, or leaves the memory alone.                *)
Chip == INSTANCE FlashChip
ImplementsChip == Chip!Spec
=============================================================================

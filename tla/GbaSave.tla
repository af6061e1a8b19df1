-------------------------------- MODULE GbaSave --------------------------------
(***************************************************************************)
(* The save memory of GbaBus: a cartridge has flash or EEPROM, as load     *)
(* finds by the library's tag in the ROM, and stores reach the machine of  *)
(* that kind only.  Byte stores to the window at 0E000000 are flash bytes, *)
(* halfwords at 0D000000 are EEPROM bits.  SRAM, a plain array, is left    *)
(* out.                                                                    *)
(***************************************************************************)
EXTENDS GbaFlash, GbaEeprom

VARIABLE saveType   \* save_type_: "flash" or "eeprom"

vars == <<flashVars, eepromVars, saveType>>

Init == saveType \in {"flash", "eeprom"} /\ FlashInit /\ EepromInit

UseFlash ==
    /\ saveType = "flash" /\ FlashNext
    /\ UNCHANGED <<eepromVars, saveType>>
UseEeprom ==
    /\ saveType = "eeprom" /\ EepromNext
    /\ UNCHANGED <<flashVars, saveType>>

Next == UseFlash \/ UseEeprom

Spec == Init /\ [][Next]_vars
=============================================================================

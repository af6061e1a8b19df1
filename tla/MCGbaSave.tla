------------------------------- MODULE MCGbaSave -------------------------------
(***************************************************************************)
(* GbaSave for TLC.  A flash chip of two banks: the offsets are the keys', *)
(* the bank register's and its neighbour in the same sector; the values    *)
(* are every command byte, 1, which is data or selects a bank, and the     *)
(* keys.  One sector is looked at in both banks, and the cell at 5555,     *)
(* which lies in another and doubles as the command port.  The EEPROM has  *)
(* addresses of two bits, one of which selects a block of two bits.        *)
(***************************************************************************)
EXTENDS GbaSave

MCBanks == {0, 1}
MCOffsets == {0, 1, 10922, 21845}
MCValues == {1, 16, 48, 85, 128, 144, 160, 170, 176, 240}
MCCells == {<<0, 1>>, <<1, 1>>, <<0, 21845>>}
=============================================================================

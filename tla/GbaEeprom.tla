------------------------------- MODULE GbaEeprom -------------------------------
(***************************************************************************)
(* The serial EEPROM of GbaBus (src/core/gba_bus.cpp).  A command comes    *)
(* one bit per halfword store: 1, then 0 to write or 1 to read, the        *)
(* address, the data of a write, and a stop bit.  A read command is        *)
(* answered bit by bit, by four zeros and then the block.                  *)
(*                                                                         *)
(* The program sends whole commands, as the cartridge library does by DMA, *)
(* but may stop fetching an answer at any bit and begin the next command.  *)
(* Addresses and blocks are sequences of bits, so a block's number is the  *)
(* tail of the address that the code's mask keeps.                         *)
(***************************************************************************)
EXTENDS Integers, Sequences

CONSTANTS
    AddrBits,       \* eeprom_addr_bits_ (6 or 14)
    UsedBits,       \* bits of it that select a block (6 or 10)
    DataBits        \* bits of a block (64)

ASSUME SizeAssumption ==
    /\ AddrBits \in Nat \ {0} /\ DataBits \in Nat \ {0}
    /\ UsedBits \in 1..AddrBits

VARIABLES
    blocks,            \* save_data_, by block
    cmd,            \* eeprom_cmd_bits_
    answer,         \* eeprom_read_bits_ from eeprom_read_index_ on; empty unless
                    \* eeprom_mode_ is Reading
    pending,        \* bits of the program's command it has still to send
    want,           \* that command, or the last one
    fetched         \* history: bits of the answer the program has fetched

eepromVars == <<blocks, cmd, answer, pending, want, fetched>>

Bit == {0, 1}
Address == [1..AddrBits -> Bit]
Block == [1..UsedBits -> Bit]
Data == [1..DataBits -> Bit]
Zeros == <<0, 0, 0, 0>>
ErasedBlock == [i \in 1..DataBits |-> 1]

Command == [write : BOOLEAN, addr : Address, data : Data, stop : Bit]
Encode(c) == <<1, IF c.write THEN 0 ELSE 1>> \o c.addr
             \o (IF c.write THEN c.data ELSE <<>>) \o <<c.stop>>

(* GbaBus::load; the block the mask leaves of an address.                  *)
EepromInit ==
    /\ blocks = [b \in Block |-> ErasedBlock]
    /\ cmd = <<>> /\ answer = <<>>
    /\ pending = <<>> /\ fetched = <<>>
    /\ want = [write |-> FALSE, addr |-> [i \in 1..AddrBits |-> 0],
               data |-> ErasedBlock, stop |-> 0]

-----------------------------------------------------------------------------
(* eeprom_block_from_command, on an address and on a whole command.        *)
Selected_HighBits(a) == SubSeq(a, 1, UsedBits)
Selected(a) == SubSeq(a, AddrBits - UsedBits + 1, AddrBits)
AddressIn(c) == SubSeq(c, 3, 2 + AddrBits)
DataIn(c) == SubSeq(c, 3 + AddrBits, 2 + AddrBits + DataBits)

WriteLength_NoStopBit == 2 + AddrBits + DataBits
WriteLength == 3 + AddrBits + DataBits
ReadLength == 3 + AddrBits

Writes(c) == Len(c) = WriteLength /\ c[2] = 0
Reads(c) == Len(c) = ReadLength /\ c[2] = 1

(* A bit that comes while an answer is being fetched ends the answer.      *)
AnswerAfter_NotEnded(c) ==
    IF Reads(c) THEN Zeros \o blocks[Selected(AddressIn(c))] ELSE answer
AnswerAfter(c) ==
    IF Reads(c) THEN Zeros \o blocks[Selected(AddressIn(c))] ELSE <<>>

(* write_eeprom16.  A first bit of 0 is idling on the line.                *)
Accept(bit) ==
    LET c == Append(cmd, bit)
    IN  /\ cmd' = IF c[1] = 0 \/ Writes(c) \/ Reads(c) THEN <<>> ELSE c
        /\ blocks' = IF c[1] = 1 /\ Writes(c)
                  THEN [blocks EXCEPT ![Selected(AddressIn(c))] = DataIn(c)]
                  ELSE blocks
        /\ answer' = AnswerAfter(c)

Begin(c) ==
    /\ pending = <<>>
    /\ Accept(Head(Encode(c)))
    /\ pending' = Tail(Encode(c))
    /\ want' = c /\ fetched' = <<>>

Send ==
    /\ pending # <<>>
    /\ Accept(Head(pending))
    /\ pending' = Tail(pending)
    /\ UNCHANGED <<want, fetched>>

(* read_eeprom16 with an answer left; without one it returns 1, "ready".   *)
Fetch ==
    /\ answer # <<>>
    /\ answer' = Tail(answer)
    /\ fetched' = Append(fetched, Head(answer))
    /\ UNCHANGED <<blocks, cmd, pending, want>>

(* A read command has no data: the record's field is then fixed.           *)
EepromNext ==
    \/ \E c \in Command : (c.write \/ c.data = ErasedBlock) /\ Begin(c)
    \/ Send
    \/ Fetch

EepromSpec == EepromInit /\ [][EepromNext]_eepromVars

-----------------------------------------------------------------------------
EepromTypeOK ==
    /\ blocks \in [Block -> Data]
    /\ cmd \in Seq(Bit) /\ Len(cmd) < WriteLength
    /\ answer \in Seq(Bit) /\ Len(answer) <= 4 + DataBits
    /\ pending \in Seq(Bit) /\ want \in Command
    /\ fetched \in Seq(Bit)

(* The block the program means: the last address bits, whatever the first. *)
Wanted == [i \in 1..UsedBits |-> want.addr[AddrBits - UsedBits + i]]

(* The decoder never loses the frame: what it has collected, with what is  *)
(* still to come, is the program's command, and after a whole command, or  *)
(* an answer cut short, no bit is left over for the next one.              *)
InFrame ==
    /\ EepromTypeOK
    /\ IF pending = <<>> THEN cmd = <<>> ELSE cmd \o pending = Encode(want)

(* What the program fetches, as far as it gets, is four zeros and then the *)
(* block it asked for, as stored now.                                      *)
AnswersTheBlock ==
    answer # <<>> =>
        /\ pending = <<>> /\ ~want.write
        /\ fetched \o answer = Zeros \o blocks[Wanted]

(* A block changes only when the last bit of a write command for it comes, *)
(* and then holds that command's data; no other block changes with it.     *)
StoresExactly ==
    [][ /\ blocks' # blocks => Len(pending) = 1 /\ want.write
        /\ Len(pending) = 1 /\ want.write /\ pending' = <<>> =>
             blocks' = [blocks EXCEPT ![Wanted] = want.data] ]_eepromVars
=============================================================================

------------------------------- MODULE FlashChip -------------------------------
(***************************************************************************)
(* What a flash save chip promises, whatever its command protocol: one     *)
(* bank is visible at a time, one cell of it is programmed at a time, and  *)
(* an erase clears one sector of the visible bank, or everything.          *)
(***************************************************************************)
EXTENDS Integers

CONSTANTS
    Banks,          \* the banks
    Values,         \* bytes that are programmed
    Cells,          \* the cells that are looked at: <<bank, offset>>
    Erased,         \* what an erased cell holds
    SectorSize

VARIABLES
    mem,            \* contents of the cells
    bank            \* the visible bank

vars == <<mem, bank>>

Sector(c) == {d \in Cells : /\ d[1] = c[1]
                            /\ d[2] \div SectorSize = c[2] \div SectorSize}

Init == mem = [c \in Cells |-> Erased] /\ bank \in Banks

Program ==
    /\ \E c \in Cells, v \in Values :
         c[1] = bank /\ mem' = [mem EXCEPT ![c] = v]
    /\ UNCHANGED bank

EraseSector ==
    /\ \E c \in Cells :
         /\ c[1] = bank
         /\ mem' = [d \in Cells |-> IF d \in Sector(c) THEN Erased ELSE mem[d]]
    /\ UNCHANGED bank

EraseChip == mem' = [c \in Cells |-> Erased] /\ UNCHANGED bank

SelectBank == bank' \in Banks /\ UNCHANGED mem

Next == Program \/ EraseSector \/ EraseChip \/ SelectBank

Spec == Init /\ [][Next]_vars
=============================================================================

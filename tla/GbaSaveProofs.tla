----------------------------- MODULE GbaSaveProofs ------------------------------
(***************************************************************************)
(* Theorems about GbaFlash, for every set of offsets, bytes and cells and  *)
(* for chips of one and of two banks; about GbaEeprom, for every length of *)
(* address and block; and about GbaSave, which contains both.              *)
(***************************************************************************)
EXTENDS GbaSave, SequenceTheorems, TLAPS

(* The command machine is never ahead of what was sent: it holds an unlock *)
(* stage, an expected data byte or an armed erase only if the bytes for    *)
(* that have come.                                                         *)
Unlocking ==
    /\ stage = 1 => unlocked = 1
    /\ stage = 2 => unlocked = 2
    /\ expect = "program" => unlocked = 3
    /\ armed => sentErase

(* From a reset on, it is not behind either.                               *)
Recovering ==
    /\ sequel > 0 => ~idMode /\ ~armed
    /\ sequel = 1 => stage = 0 /\ expect = "none"
    /\ sequel = 2 => stage = 1 /\ expect = "none"
    /\ sequel = 3 => stage = 2 /\ expect = "none"
    /\ sequel = 4 => stage = 0 /\ expect = "program"

IInv == FlashTypeOK /\ Unlocking /\ Recovering

Assumptions == BanksAssumption /\ OffsetsAssumption /\ ValuesAssumption
               /\ CellsAssumption

(* Every action keeps the types, and the histories theirs.                 *)
LEMMA SentTypes ==
    ASSUME FlashTypeOK, NEW o \in Offsets, NEW v \in Values, Sent(o, v)
    PROVE  unlocked' \in 0..3 /\ sequel' \in 0..4 /\ sentErase' \in BOOLEAN
<1>1. unlocked' \in 0..3
  BY DEF Sent
<1>2. sequel' \in 0..4
  BY DEF Sent
<1>3. sentErase' \in BOOLEAN
  BY Zenon DEF Sent, FlashTypeOK
<1> QED  BY <1>1, <1>2, <1>3

(* The bank register only ever holds a bank.                               *)
LEMMA BankTypes ==
    ASSUME FlashTypeOK, NEW o \in Offsets, NEW v \in Values
    PROVE  BankAfter(o, v) \in Banks
<1>1. CASE Banks = {0, 1} /\ o = 0
  <2>1. v % 2 \in {0, 1}
    BY ValuesAssumption
  <2> QED  BY <1>1, <2>1 DEF BankAfter
<1>2. CASE ~(Banks = {0, 1} /\ o = 0)
  BY <1>2 DEF BankAfter, FlashTypeOK
<1> QED  BY <1>1, <1>2

LEMMA Initially == FlashInit => IInv
<1> SUFFICES ASSUME FlashInit PROVE IInv
  OBVIOUS
<1>1. mem \in [Cells -> Values \cup {Erased}]
  BY DEF FlashInit
<1>2. 0 \in Banks
  BY BanksAssumption
<1>3. FlashTypeOK
  <2>1. bank \in Banks
    BY <1>2 DEF FlashInit
  <2>2. idMode \in BOOLEAN /\ armed \in BOOLEAN /\ sentErase \in BOOLEAN
    BY Zenon DEF FlashInit
  <2>3. /\ stage \in 0..2 /\ unlocked \in 0..3 /\ sequel \in 0..4
        /\ expect \in {"none", "program", "bank"}
    BY DEF FlashInit
  <2> QED  BY <1>1, <2>1, <2>2, <2>3, Zenon DEF FlashTypeOK
<1>4. Unlocking /\ Recovering
  BY DEF FlashInit, Unlocking, Recovering
<1> QED  BY <1>3, <1>4 DEF IInv

(* Types are kept, component by component, by whatever a byte does.        *)
LEMMA WriteTypes ==
    ASSUME FlashTypeOK, NEW o \in Offsets, NEW v \in Values, Write(o, v)
    PROVE  FlashTypeOK'
<1> USE DEF Write
<1>1. unlocked' \in 0..3 /\ sequel' \in 0..4 /\ sentErase' \in BOOLEAN
  BY SentTypes
<1>2. mem' \in [Cells -> Values \cup {Erased}]
  <2>1. CASE UNCHANGED mem
    BY <2>1 DEF FlashTypeOK
  <2>2. CASE WriteData(o, v)
    BY <2>2 DEF WriteData, FlashTypeOK
  <2>3. CASE WriteErase(o, v)
    BY <2>3 DEF WriteErase, FlashTypeOK
  <2> QED  BY <2>1, <2>2, <2>3 DEF WriteReset, WriteBank, WriteKey, WriteOrder
<1>3. bank' \in Banks
  <2>1. CASE UNCHANGED bank
    BY <2>1 DEF FlashTypeOK
  <2>2. CASE WriteBank(o, v)
    BY <2>2, BankTypes DEF WriteBank
  <2> QED  BY <2>1, <2>2
             DEF WriteReset, WriteData, WriteKey, WriteErase, WriteOrder
<1>4. idMode' \in BOOLEAN /\ armed' \in BOOLEAN
  <2>1. idMode \in BOOLEAN /\ armed \in BOOLEAN
    BY DEF FlashTypeOK
  <2>2. CASE WriteOrder(o, v)
    <3>1. idMode' \in BOOLEAN
      BY <2>1, <2>2, Zenon DEF WriteOrder
    <3>2. armed' \in BOOLEAN
      BY <2>2 DEF WriteOrder, Order
    <3> QED  BY <3>1, <3>2
  <2>3. CASE ~WriteOrder(o, v)
    BY <2>1, <2>3, Zenon DEF WriteReset, WriteData, WriteBank, WriteKey, WriteErase
  <2> QED  BY <2>2, <2>3
<1>5. stage' \in 0..2
  <2>1. CASE stage' = 0
    BY <2>1
  <2>2. CASE WriteKey(o, v)
    BY <2>2 DEF WriteKey, StageAfter
  <2> QED  BY <2>1, <2>2
             DEF WriteReset, WriteData, WriteBank, WriteErase, WriteOrder
<1>6. expect' \in {"none", "program", "bank"}
  BY DEF WriteReset, WriteData, WriteBank, WriteKey, WriteErase, WriteOrder
<1> QED  BY <1>1, <1>2, <1>3, <1>4, <1>5, <1>6, Zenon DEF FlashTypeOK

(* The machine keeps in step with what is sent.                            *)
LEMMA WriteInStep ==
    ASSUME IInv, NEW o \in Offsets, NEW v \in Values, Write(o, v)
    PROVE  Unlocking' /\ Recovering'
<1> USE DEF IInv, FlashTypeOK, Unlocking, Recovering, Write, Sent,
            FirstKey, SecondKey, Order, Reset, ProgramByte, EraseSetup, ReadId
<1>1. CASE v = Reset /\ WriteReset
  BY <1>1 DEF WriteReset
<1>2. CASE v # Reset /\ WriteData(o, v)
  BY <1>2 DEF WriteData
<1>3. CASE v # Reset /\ WriteBank(o, v)
  BY <1>3 DEF WriteBank
<1>4. CASE v # Reset /\ WriteKey(o, v)
  BY <1>4 DEF WriteKey, StageAfter
<1>5. CASE v # Reset /\ WriteErase(o, v)
  BY <1>5 DEF WriteErase
<1>6. CASE v # Reset /\ WriteOrder(o, v)
  <2>1. stage = 2 /\ ~armed /\ stage' = 0
    BY <1>6 DEF WriteOrder
  <2>2. armed' => sentErase'
    BY <1>6, <2>1 DEF WriteOrder
  <2>3. unlocked = 2
    BY <2>1
  <2>4. CASE Order(o, v, ProgramByte)
    <3>1. expect' = "program" /\ ~armed' /\ idMode' = idMode
      BY <1>6, <2>4 DEF WriteOrder, BankSwitch
    <3>2. sequel \in {0, 3}
      BY <2>1
    <3>3. unlocked' = 3 /\ sequel' \in {0, 4}
      BY <1>6, <2>3, <2>4, <3>2
    <3>4. sequel' = 4 => ~idMode
      BY <1>6, <2>4, <3>2
    <3> QED  BY <2>1, <3>1, <3>3, <3>4
  <2>5. CASE ~Order(o, v, ProgramByte)
    <3>1. expect' # "program"
      BY <1>6, <2>5 DEF WriteOrder
    <3>2. sequel \in {0, 3}
      BY <2>1
    <3>3. sequel' = 0
      BY <1>6, <2>5, <3>2
    <3> QED  BY <2>1, <2>2, <3>1, <3>3
  <2> QED  BY <2>4, <2>5
<1> QED  BY <1>1, <1>2, <1>3, <1>4, <1>5, <1>6

(* The inductive invariant: types, and the histories on both sides.        *)
THEOREM Invariance == FlashSpec => []IInv
<1>1. IInv /\ [FlashNext]_flashVars => IInv'
  <2> SUFFICES ASSUME IInv, [FlashNext]_flashVars PROVE IInv'
    OBVIOUS
  <2>1. ASSUME NEW o \in Offsets, NEW v \in Values, Write(o, v) PROVE IInv'
    BY <2>1, WriteTypes, WriteInStep DEF IInv
  <2>2. CASE UNCHANGED flashVars
    BY <2>2 DEF flashVars, IInv, FlashTypeOK, Unlocking, Recovering
  <2> QED  BY <2>1, <2>2 DEF FlashNext
<1> QED  BY <1>1, Initially, PTL DEF FlashSpec

(* In every cartridge the flash part runs by FlashSpec: the EEPROM's steps *)
(* leave it alone.                                                         *)
THEOREM FlashRuns == Spec => FlashSpec
<1>1. Init => FlashInit
  BY DEF Init
<1>2. [Next]_vars => [FlashNext]_flashVars
  BY DEF Next, UseFlash, UseEeprom, vars
<1> QED  BY <1>1, <1>2, PTL DEF Spec, FlashSpec

(* Types hold of every chip.                                               *)
THEOREM FlashTypes == Spec => []FlashTypeOK
<1>1. IInv => FlashTypeOK
  BY DEF IInv
<1> QED  BY <1>1, Invariance, FlashRuns, PTL

(* No sequence of stores changes the save without an unlocked command.     *)
THEOREM UnlockNeeded == Spec => NeedsUnlock
<1> DEFINE A == mem' # mem => unlocked = 3 \/ (unlocked = 2 /\ sentErase)
<1>1. IInv /\ [FlashNext]_flashVars => [A]_flashVars
  <2> SUFFICES ASSUME IInv, [FlashNext]_flashVars PROVE A
    OBVIOUS
  <2>1. ASSUME NEW o \in Offsets, NEW v \in Values, Write(o, v) PROVE A
    BY <2>1 DEF Write, WriteReset, WriteData, WriteBank, WriteKey, WriteErase,
                WriteOrder, IInv, Unlocking
  <2> QED  BY <2>1 DEF FlashNext, flashVars
<1> QED  BY <1>1, Invariance, FlashRuns, PTL DEF FlashSpec, NeedsUnlock

(* After a reset the next program command stores, and reads show, its byte,*)
(* whatever state the chip was in before the reset.                        *)
THEOREM ResetIsEnough == Spec => ResetRecovers
<1> DEFINE A == \A o \in Offsets, v \in Values \ {Reset} :
                  sequel = 4 /\ Write(o, v) /\ Cell(o) \in Cells => Read(o)' = v
<1>1. IInv => [A]_flashVars
  <2> SUFFICES ASSUME IInv, NEW o \in Offsets, NEW v \in Values \ {Reset},
                      sequel = 4, Write(o, v), Cell(o) \in Cells
               PROVE  Read(o)' = v
    OBVIOUS
  <2>1. expect = "program" /\ ~idMode
    BY DEF IInv, Recovering
  <2>2. WriteData(o, v)
    BY <2>1 DEF Write, WriteBank, WriteKey, WriteErase, WriteOrder
  <2>3. ~idMode' /\ Cell(o)' = Cell(o) /\ mem'[Cell(o)] = v
    BY <2>1, <2>2 DEF WriteData, Cell
  <2> QED  BY <2>3 DEF Read
<1> QED  BY <1>1, Invariance, FlashRuns, PTL DEF FlashSpec, ResetRecovers

(* The command machine implements the chip: one step of it is one step of  *)
(* FlashChip, or leaves the memory and the bank as they are.               *)
THEOREM Refinement == Spec => ImplementsChip
<1>1. FlashInit => Chip!Init
  <2>1. 0 \in Banks
    BY BanksAssumption
  <2> QED  BY <2>1 DEF FlashInit, Chip!Init
<1>2. IInv /\ [FlashNext]_flashVars => [Chip!Next]_(Chip!vars)
  <2> SUFFICES ASSUME IInv, [FlashNext]_flashVars PROVE Chip!Next \/ UNCHANGED <<mem, bank>>
    BY DEF Chip!vars
  <2>1. ASSUME NEW o \in Offsets, NEW v \in Values, Write(o, v)
        PROVE  Chip!Next \/ UNCHANGED <<mem, bank>>
    <3>1. CASE WriteReset \/ WriteKey(o, v) \/ WriteOrder(o, v)
      BY <3>1 DEF WriteReset, WriteKey, WriteOrder
    <3>2. CASE WriteData(o, v)
      <4>1. CASE Cell(o) \in Cells
        <5>1. mem' = [mem EXCEPT ![Cell(o)] = v] /\ bank' = bank
          BY <3>2 DEF WriteData, IInv, FlashTypeOK
        <5>2. Cell(o)[1] = bank
          BY DEF Cell
        <5>3. Chip!Program
          BY <4>1, <5>1, <5>2 DEF Chip!Program
        <5> QED  BY <5>3 DEF Chip!Next
      <4>2. CASE Cell(o) \notin Cells
        BY <3>2, <4>2 DEF WriteData, IInv, FlashTypeOK
      <4> QED  BY <4>1, <4>2
    <3>3. CASE WriteBank(o, v)
      <4>1. bank' \in Banks /\ mem' = mem
        BY <3>3, BankTypes DEF WriteBank, IInv
      <4> QED  BY <4>1 DEF Chip!Next, Chip!SelectBank
    <3>4. CASE WriteErase(o, v)
      <4>1. CASE Order(o, v, ChipErase)
        <5>1. Chip!EraseChip
          BY <3>4, <4>1 DEF WriteErase, Chip!EraseChip
        <5> QED  BY <5>1 DEF Chip!Next
      <4>2. CASE ~Order(o, v, ChipErase) /\ v = SectorErase
                 /\ \E c \in Cells : InSector(o, c)
        <5>1. PICK c \in Cells : InSector(o, c)
          BY <4>2
        <5>2. \A d \in Cells : InSector(o, d) <=> d \in Chip!Sector(c)
          BY <5>1 DEF InSector, Chip!Sector
        <5>3. mem' = [d \in Cells |-> IF d \in Chip!Sector(c)
                                      THEN Erased ELSE mem[d]]
          BY <3>4, <4>2, <5>2 DEF WriteErase
        <5>4. c[1] = bank /\ bank' = bank
          BY <3>4, <5>1 DEF WriteErase, InSector
        <5>5. Chip!EraseSector
          BY <5>3, <5>4 DEF Chip!EraseSector
        <5> QED  BY <5>5 DEF Chip!Next
      <4>3. CASE ~Order(o, v, ChipErase)
                 /\ (v # SectorErase \/ \A c \in Cells : ~InSector(o, c))
        BY <3>4, <4>3 DEF WriteErase, IInv, FlashTypeOK
      <4> QED  BY <4>1, <4>2, <4>3
    <3> QED  BY <2>1, <3>1, <3>2, <3>3, <3>4 DEF Write
  <2> QED  BY <2>1 DEF FlashNext, flashVars
<1> QED  BY <1>1, <1>2, Invariance, FlashRuns, PTL DEF FlashSpec, ImplementsChip, Chip!Spec

-----------------------------------------------------------------------------
(***************************************************************************)
(* The EEPROM: the decoder against the command the program sends.          *)
(***************************************************************************)
LEMMA BitSequences ==
    ASSUME NEW n \in Nat, NEW s \in [1..n -> Bit]
    PROVE  s \in Seq(Bit) /\ Len(s) = n
<1>1. s \in Seq(Bit)
  BY SeqDef
<1>2. DOMAIN s = 1..Len(s) /\ Len(s) \in Nat /\ DOMAIN s = 1..n
  BY <1>1, LenProperties
<1> QED  BY <1>1, <1>2

LEMMA BitConcat ==
    ASSUME NEW s \in Seq(Bit), NEW t \in Seq(Bit)
    PROVE  /\ s \o t \in Seq(Bit) /\ Len(s \o t) = Len(s) + Len(t)
           /\ \A i \in 1..(Len(s) + Len(t)) : (s \o t)[i] = IF i <= Len(s) THEN s[i] ELSE t[i - Len(s)]
BY ConcatProperties

LEMMA BitAppend ==
    ASSUME NEW s \in Seq(Bit), NEW b \in Bit
    PROVE  /\ <<b>> \in Seq(Bit) /\ Len(<<b>>) = 1 /\ <<b>>[1] = b
           /\ Append(s, b) = s \o <<b>> /\ Append(s, b) \in Seq(Bit) /\ Append(s, b) # <<>>
<1>1. <<b>> \in Seq(Bit) /\ Len(<<b>>) = 1 /\ <<b>>[1] = b
  OBVIOUS
<1>2. Append(s, b) \in Seq(Bit) /\ Len(Append(s, b)) = Len(s) + 1 /\ Len(s) \in Nat
      /\ \A i \in 1..(Len(s) + 1) : Append(s, b)[i] = IF i <= Len(s) THEN s[i] ELSE b
  OBVIOUS
<1>3. /\ s \o <<b>> \in Seq(Bit) /\ Len(s \o <<b>>) = Len(s) + 1
      /\ \A i \in 1..(Len(s) + 1) : (s \o <<b>>)[i] = IF i <= Len(s) THEN s[i] ELSE b
  BY <1>1, <1>2, BitConcat
<1>4. \A i \in 1..Len(Append(s, b)) : Append(s, b)[i] = (s \o <<b>>)[i]
  BY <1>2, <1>3
<1>5. Append(s, b) = s \o <<b>>
  BY <1>2, <1>3, <1>4, SeqEqual
<1> QED  BY <1>1, <1>2, <1>5, EmptySeq

(* A command, bit by bit.                                                  *)
LEMMA EncodeIs ==
    ASSUME NEW c \in Command
    PROVE  /\ Encode(c) \in Seq(Bit)
           /\ Len(Encode(c)) = IF c.write THEN WriteLength ELSE ReadLength
           /\ Encode(c)[1] = 1 /\ Encode(c)[2] = (IF c.write THEN 0 ELSE 1)
           /\ \A i \in 1..AddrBits : Encode(c)[i + 2] = c.addr[i]
           /\ c.write => \A i \in 1..DataBits : Encode(c)[i + 2 + AddrBits] = c.data[i]
<1> DEFINE head == <<1, IF c.write THEN 0 ELSE 1>>
           body == IF c.write THEN c.data ELSE <<>>
           m == IF c.write THEN DataBits ELSE 0
           s == head \o c.addr
           t == s \o body
<1>1. AddrBits \in Nat /\ DataBits \in Nat /\ m \in Nat
  BY SizeAssumption
<1>2. head \in Seq(Bit) /\ Len(head) = 2 /\ head[1] = 1 /\ head[2] = IF c.write THEN 0 ELSE 1
  BY DEF Bit
<1>3. c.addr \in Seq(Bit) /\ Len(c.addr) = AddrBits
  BY <1>1, BitSequences DEF Command, Address
<1>4. body \in Seq(Bit) /\ Len(body) = m
  <2>1. CASE c.write
    BY <1>1, <2>1, BitSequences DEF Command, Data
  <2>2. CASE ~c.write
    BY <2>2
  <2> QED  BY <2>1, <2>2
<1>5. <<c.stop>> \in Seq(Bit) /\ Len(<<c.stop>>) = 1
  BY DEF Command
<1> HIDE DEF head, body
<1>6. /\ s \in Seq(Bit) /\ Len(s) = 2 + AddrBits
      /\ \A i \in 1..(2 + AddrBits) : s[i] = IF i <= 2 THEN head[i] ELSE c.addr[i - 2]
  <2>1. /\ s \in Seq(Bit) /\ Len(s) = Len(head) + Len(c.addr)
        /\ \A i \in 1..(Len(head) + Len(c.addr)) :
             s[i] = IF i <= Len(head) THEN head[i] ELSE c.addr[i - Len(head)]
    BY <1>2, <1>3, BitConcat
  <2> HIDE DEF s
  <2> QED  BY <1>2, <1>3, <2>1
<1> HIDE DEF s
<1>7. /\ t \in Seq(Bit) /\ Len(t) = 2 + AddrBits + m
      /\ \A i \in 1..(2 + AddrBits + m) : t[i] = IF i <= 2 + AddrBits THEN s[i] ELSE body[i - (2 + AddrBits)]
  <2>1. /\ t \in Seq(Bit) /\ Len(t) = Len(s) + Len(body)
        /\ \A i \in 1..(Len(s) + Len(body)) :
             t[i] = IF i <= Len(s) THEN s[i] ELSE body[i - Len(s)]
    BY <1>4, <1>6, BitConcat
  <2> HIDE DEF t
  <2> QED  BY <1>4, <1>6, <2>1
<1> HIDE DEF t
<1>8. Encode(c) = t \o <<c.stop>>
  BY DEF Encode, t, s, head, body
<1>9. /\ Encode(c) \in Seq(Bit) /\ Len(Encode(c)) = 3 + AddrBits + m
      /\ \A i \in 1..(2 + AddrBits + m) : Encode(c)[i] = t[i]
  BY <1>1, <1>5, <1>7, <1>8, ConcatProperties
<1>10. Encode(c)[1] = 1 /\ Encode(c)[2] = (IF c.write THEN 0 ELSE 1)
  BY <1>1, <1>2, <1>6, <1>7, <1>9
<1>11. \A i \in 1..AddrBits : Encode(c)[i + 2] = c.addr[i]
  BY <1>1, <1>6, <1>7, <1>9
<1>12. c.write => \A i \in 1..DataBits : Encode(c)[i + 2 + AddrBits] = c.data[i]
  BY <1>1, <1>7, <1>9 DEF body
<1> QED  BY <1>1, <1>9, <1>10, <1>11, <1>12 DEF WriteLength, ReadLength

(* The block a command is for.                                             *)
BlockOf(c) == [i \in 1..UsedBits |-> c.addr[AddrBits - UsedBits + i]]

LEMMA EncodeSelects ==
    ASSUME NEW c \in Command
    PROVE  /\ Selected(AddressIn(Encode(c))) = BlockOf(c) /\ BlockOf(c) \in Block
           /\ c.write => DataIn(Encode(c)) = c.data
<1> DEFINE E == Encode(c)
           a == AddressIn(E)
<1>1. AddrBits \in Nat /\ DataBits \in Nat /\ UsedBits \in 1..AddrBits
  BY SizeAssumption
<1>2. E \in Seq(Bit) /\ Len(E) = IF c.write THEN WriteLength ELSE ReadLength
  BY EncodeIs
<1>3. \A i \in 1..Len(E) : E[i] \in Bit
  BY <1>2, ElementOfSeq
<1>4. /\ a \in Seq(Bit) /\ Len(a) = AddrBits
      /\ \A i \in 1..AddrBits : a[i] = E[i + 2]
  <2>1. \A i \in 3..(2 + AddrBits) : E[i] \in Bit
    BY <1>1, <1>2, <1>3 DEF WriteLength, ReadLength
  <2> HIDE DEF E
  <2> QED  BY <1>1, <2>1, SubSeqProperties DEF AddressIn
<1>5. \A i \in 1..AddrBits : a[i] = c.addr[i] /\ a[i] \in Bit
  BY <1>4, EncodeIs, ElementOfSeq
<1>6. BlockOf(c) \in Block
  BY <1>1 DEF BlockOf, Block, Command, Address
<1>7. Selected(a) = BlockOf(c)
  <2> HIDE DEF a
  <2> DEFINE first == AddrBits - UsedBits + 1
             b == SubSeq(a, first, AddrBits)
  <2>1. first \in Int /\ AddrBits \in Int /\ (\A i \in first..AddrBits : a[i] \in Bit) /\ first <= AddrBits
    BY <1>1, <1>5
  <2>2. /\ b \in Seq(Bit) /\ Len(b) = AddrBits - first + 1
        /\ \A i \in 1..(AddrBits - first + 1) : b[i] = a[first + i - 1]
    BY <2>1, SubSeqProperties
  <2>3. \A i \in 1..UsedBits : b[i] = BlockOf(c)[i]
    BY <1>1, <1>5, <2>2 DEF BlockOf
  <2>4. BlockOf(c) \in Seq(Bit) /\ Len(BlockOf(c)) = UsedBits
    BY <1>1, <1>6, BitSequences DEF Block
  <2>5. Len(b) = UsedBits
    BY <1>1, <2>2
  <2>6. b = BlockOf(c)
    BY <2>2, <2>3, <2>4, <2>5, SeqEqual
  <2> QED  BY <2>6 DEF Selected
<1>8. ASSUME c.write PROVE DataIn(E) = c.data
  <2> DEFINE d == DataIn(E)
  <2>1. \A i \in (3 + AddrBits)..(2 + AddrBits + DataBits) : E[i] \in Bit
    BY <1>1, <1>2, <1>3, <1>8 DEF WriteLength
  <2>2. /\ d \in Seq(Bit) /\ Len(d) = DataBits
        /\ \A i \in 1..DataBits : d[i] = E[i + 2 + AddrBits]
    <3> HIDE DEF E
    <3> QED  BY <1>1, <2>1, SubSeqProperties DEF DataIn
  <2>3. c.data \in Seq(Bit) /\ Len(c.data) = DataBits
    BY <1>1, BitSequences DEF Command, Data
  <2>4. \A i \in 1..DataBits : d[i] = c.data[i]
    BY <1>8, <2>2, EncodeIs
  <2> QED  BY <2>2, <2>3, <2>4, SeqEqual
<1> QED  BY <1>6, <1>7, <1>8

(* What the decoder sees after some bits s of a command, t still to come.  *)
LEMMA Decoded ==
    ASSUME NEW c \in Command, NEW s \in Seq(Bit), NEW t \in Seq(Bit),
           s # <<>>, s \o t = Encode(c)
    PROVE  /\ s[1] = 1
           /\ Writes(s) <=> t = <<>> /\ c.write
           /\ Reads(s) <=> t = <<>> /\ ~c.write
           /\ t = <<>> => s = Encode(c)
           /\ t # <<>> => Len(s) < WriteLength
<1> DEFINE E == Encode(c)
<1>1. AddrBits \in Nat \ {0} /\ DataBits \in Nat \ {0}
  BY SizeAssumption
<1>2. /\ Len(s) \in Nat \ {0} /\ Len(t) \in Nat /\ Len(E) = Len(s) + Len(t)
      /\ \A i \in 1..Len(s) : E[i] = s[i]
  BY ConcatProperties, LenProperties, EmptySeq
<1>3. t = <<>> <=> Len(t) = 0
  BY EmptySeq
<1>4. t = <<>> => s = E
  BY ConcatEmptySeq
<1>5. Len(E) = (IF c.write THEN WriteLength ELSE ReadLength) /\ E[1] = 1 /\ E[2] = (IF c.write THEN 0 ELSE 1)
  BY EncodeIs
<1> HIDE DEF E
<1>6. s[1] = 1 /\ (Len(s) >= 2 => s[2] = (IF c.write THEN 0 ELSE 1))
  BY <1>2, <1>5
<1>7. Writes(s) <=> t = <<>> /\ c.write
  BY <1>1, <1>2, <1>3, <1>5, <1>6 DEF Writes, WriteLength, ReadLength
<1>8. Reads(s) <=> t = <<>> /\ ~c.write
  BY <1>1, <1>2, <1>3, <1>5, <1>6 DEF Reads, WriteLength, ReadLength
<1>9. t # <<>> => Len(s) < WriteLength
  BY <1>1, <1>2, <1>3, <1>5 DEF WriteLength, ReadLength
<1> QED  BY <1>4, <1>6, <1>7, <1>8, <1>9 DEF E

(* While a command is on its way nothing is being fetched; the decoder     *)
(* holds the part of it that has come.                                     *)
Framed ==
    /\ EepromTypeOK
    /\ pending = <<>> => cmd = <<>>
    /\ pending # <<>> => /\ cmd # <<>> /\ cmd \o pending = Encode(want)
                         /\ fetched = <<>> /\ answer = <<>>
    /\ AnswersTheBlock

(* The next bit of command w: the decoder keeps it, or acts on the whole.  *)
LEMMA BitAccepted ==
    ASSUME EepromTypeOK, NEW w \in Command, NEW bit \in Bit, NEW rest \in Seq(Bit),
           (cmd \o <<bit>>) \o rest = Encode(w), Accept(bit)
    PROVE  /\ rest # <<>> => /\ cmd' = Append(cmd, bit) /\ Len(cmd') < WriteLength
                             /\ blocks' = blocks /\ answer' = <<>>
           /\ rest = <<>> =>
                /\ cmd' = <<>>
                /\ blocks' = IF w.write THEN [blocks EXCEPT ![BlockOf(w)] = w.data] ELSE blocks
                /\ answer' = IF w.write THEN <<>> ELSE Zeros \o blocks[BlockOf(w)]
<1> DEFINE c == Append(cmd, bit)
<1>1. c = cmd \o <<bit>> /\ c \in Seq(Bit) /\ c # <<>>
  BY BitAppend DEF EepromTypeOK
<1>2. /\ c[1] = 1 /\ (Writes(c) <=> rest = <<>> /\ w.write) /\ (Reads(c) <=> rest = <<>> /\ ~w.write)
      /\ (rest = <<>> => c = Encode(w)) /\ (rest # <<>> => Len(c) < WriteLength)
  BY <1>1, Decoded
<1>3. /\ cmd' = (IF c[1] = 0 \/ Writes(c) \/ Reads(c) THEN <<>> ELSE c)
      /\ blocks' = (IF c[1] = 1 /\ Writes(c)
                    THEN [blocks EXCEPT ![Selected(AddressIn(c))] = DataIn(c)] ELSE blocks)
      /\ answer' = (IF Reads(c) THEN Zeros \o blocks[Selected(AddressIn(c))] ELSE <<>>)
  BY DEF Accept, AnswerAfter
<1> HIDE DEF c
<1>4. ASSUME rest = <<>>
      PROVE  Selected(AddressIn(c)) = BlockOf(w) /\ (w.write => DataIn(c) = w.data)
  BY <1>2, <1>4, EncodeSelects
<1>5. ASSUME rest # <<>>
      PROVE  cmd' = c /\ Len(cmd') < WriteLength /\ blocks' = blocks /\ answer' = <<>>
  BY <1>2, <1>3, <1>5
<1>6. ASSUME rest = <<>>, w.write
      PROVE  cmd' = <<>> /\ blocks' = [blocks EXCEPT ![BlockOf(w)] = w.data] /\ answer' = <<>>
  BY <1>2, <1>3, <1>4, <1>6
<1>7. ASSUME rest = <<>>, ~w.write
      PROVE  cmd' = <<>> /\ blocks' = blocks /\ answer' = Zeros \o blocks[BlockOf(w)]
  BY <1>2, <1>3, <1>4, <1>7
<1>8. w.write \in BOOLEAN
  BY DEF Command
<1> QED  BY <1>5, <1>6, <1>7, <1>8 DEF c

(* What a whole command leaves behind.                                     *)
LEMMA BlockTypes ==
    ASSUME EepromTypeOK, NEW w \in Command
    PROVE  /\ [blocks EXCEPT ![BlockOf(w)] = w.data] \in [Block -> Data]
           /\ Zeros \o blocks[BlockOf(w)] \in Seq(Bit)
           /\ Len(Zeros \o blocks[BlockOf(w)]) = 4 + DataBits
           /\ <<>> \o (Zeros \o blocks[BlockOf(w)]) = Zeros \o blocks[BlockOf(w)]
<1>1. BlockOf(w) \in Block /\ w.data \in Data /\ blocks[BlockOf(w)] \in Data
  BY EncodeSelects DEF EepromTypeOK, Command
<1>2. blocks[BlockOf(w)] \in Seq(Bit) /\ Len(blocks[BlockOf(w)]) = DataBits
  BY <1>1, SizeAssumption, BitSequences DEF Data
<1>3. Zeros \in Seq(Bit) /\ Len(Zeros) = 4
  BY DEF Zeros, Bit
<1>4. /\ Zeros \o blocks[BlockOf(w)] \in Seq(Bit)
      /\ Len(Zeros \o blocks[BlockOf(w)]) = 4 + DataBits
  BY <1>2, <1>3, BitConcat
<1> QED  BY <1>1, <1>4, ConcatEmptySeq DEF EepromTypeOK

(* A step of the program keeps the frame, and stores as it should.         *)
Stores == /\ blocks' # blocks => Len(pending) = 1 /\ want.write
          /\ Len(pending) = 1 /\ want.write /\ pending' = <<>> =>
               blocks' = [blocks EXCEPT ![Wanted] = want.data]

LEMMA BeginFrames ==
    ASSUME Framed, NEW c \in Command, Begin(c)
    PROVE  Framed' /\ Stores
<1> DEFINE E == Encode(c)
<1>1. E \in Seq(Bit) /\ E # <<>> /\ Len(E) >= 4
  BY EncodeIs, EmptySeq, SizeAssumption DEF WriteLength, ReadLength
<1>2. /\ Head(E) \in Bit /\ Tail(E) \in Seq(Bit) /\ Len(Tail(E)) = Len(E) - 1 /\ Tail(E) # <<>>
      /\ (<<>> \o <<Head(E)>>) \o Tail(E) = E
  <2>1. Head(E) \in Bit /\ Tail(E) \in Seq(Bit) /\ Len(Tail(E)) = Len(E) - 1
        /\ \A i \in 1..Len(Tail(E)) : Tail(E)[i] = E[i + 1]
    BY <1>1, HeadTailProperties
  <2>2. Tail(E) # <<>>
    BY <1>1, <2>1
  <2>3. <<Head(E)>> \in Seq(Bit) /\ Len(<<Head(E)>>) = 1 /\ <<Head(E)>>[1] = E[1]
    BY <1>1, <2>1
  <2>4. <<>> \o <<Head(E)>> = <<Head(E)>>
    BY <2>3, ConcatEmptySeq
  <2>5. <<Head(E)>> \o Tail(E) = E
    <3>1. /\ <<Head(E)>> \o Tail(E) \in Seq(Bit) /\ Len(<<Head(E)>> \o Tail(E)) = Len(E)
          /\ \A i \in 1..Len(E) : (<<Head(E)>> \o Tail(E))[i] =
                 IF i <= 1 THEN <<Head(E)>>[i] ELSE Tail(E)[i - 1]
      BY <1>1, <2>1, <2>3, ConcatProperties
    <3>2. \A i \in 1..Len(E) : (<<Head(E)>> \o Tail(E))[i] = E[i]
      BY <1>1, <2>1, <2>3, <3>1
    <3> QED  BY <1>1, <3>1, <3>2, SeqEqual
  <2> QED  BY <2>1, <2>2, <2>4, <2>5
<1>3. cmd = <<>> /\ pending = <<>> /\ EepromTypeOK
  BY DEF Begin, Framed
<1>4. Accept(Head(E)) /\ pending' = Tail(E) /\ want' = c /\ fetched' = <<>>
  BY DEF Begin
<1>5. cmd' = Append(cmd, Head(E)) /\ Len(cmd') < WriteLength /\ blocks' = blocks /\ answer' = <<>>
  BY <1>2, <1>3, <1>4, BitAccepted
<1>6. cmd' = <<Head(E)>> /\ cmd' \in Seq(Bit) /\ cmd' # <<>> /\ cmd' \o Tail(E) = E
  BY <1>2, <1>3, <1>5
<1> HIDE DEF E
<1>7. EepromTypeOK'
  BY <1>2, <1>3, <1>4, <1>5, <1>6, SizeAssumption, EmptySeq DEF EepromTypeOK
<1>8. Framed'
  BY <1>2, <1>4, <1>5, <1>6, <1>7 DEF Framed, AnswersTheBlock, E
<1>9. Stores
  BY <1>3, <1>5, EmptySeq DEF Stores
<1> QED  BY <1>8, <1>9

LEMMA SendFrames ==
    ASSUME Framed, Send
    PROVE  Framed' /\ Stores
<1> DEFINE bit == Head(pending)
           rest == Tail(pending)
<1>1. EepromTypeOK /\ pending # <<>> /\ pending \in Seq(Bit) /\ want \in Command /\ cmd \in Seq(Bit)
  BY DEF Send, Framed, EepromTypeOK
<1>2. cmd # <<>> /\ cmd \o pending = Encode(want) /\ fetched = <<>> /\ answer = <<>>
  BY <1>1 DEF Framed
<1>3. /\ bit \in Bit /\ rest \in Seq(Bit) /\ Len(rest) = Len(pending) - 1
      /\ \A i \in 1..Len(rest) : rest[i] = pending[i + 1]
  BY <1>1, HeadTailProperties
<1>4. bit = pending[1] /\ Len(pending) \in Nat \ {0}
  BY <1>1, EmptySeq
<1>5. Accept(bit) /\ pending' = rest /\ UNCHANGED <<want, fetched>>
  BY DEF Send
<1> HIDE DEF bit, rest
<1>6. pending = <<bit>> \o rest
  <2>1. <<bit>> \in Seq(Bit) /\ Len(<<bit>>) = 1 /\ <<bit>>[1] = bit
    BY <1>3
  <2>2. /\ <<bit>> \o rest \in Seq(Bit) /\ Len(<<bit>> \o rest) = Len(pending)
        /\ \A i \in 1..Len(pending) : (<<bit>> \o rest)[i] = IF i <= 1 THEN <<bit>>[i] ELSE rest[i - 1]
    BY <1>3, <1>4, <2>1, ConcatProperties
  <2>3. \A i \in 1..Len(pending) : (<<bit>> \o rest)[i] = pending[i]
    BY <1>3, <1>4, <2>1, <2>2
  <2> QED  BY <1>1, <2>2, <2>3, SeqEqual
<1>7. (cmd \o <<bit>>) \o rest = Encode(want)
  <2>1. <<bit>> \in Seq(Bit)
    BY <1>3
  <2>2. (cmd \o <<bit>>) \o rest = cmd \o (<<bit>> \o rest)
    BY <1>1, <1>3, <2>1, ConcatAssociative
  <2> QED  BY <1>2, <1>6, <2>2
<1>8. Append(cmd, bit) = cmd \o <<bit>> /\ Append(cmd, bit) \in Seq(Bit) /\ Append(cmd, bit) # <<>>
  BY <1>1, <1>3, BitAppend
<1>9. Len(pending) = 1 <=> rest = <<>>
  BY <1>3, <1>4, EmptySeq
<1>10. Wanted = BlockOf(want)
  BY DEF Wanted, BlockOf
<1>11. CASE rest # <<>>
  <2>1. cmd' = Append(cmd, bit) /\ Len(cmd') < WriteLength /\ blocks' = blocks /\ answer' = <<>>
    BY <1>1, <1>3, <1>5, <1>7, <1>11, BitAccepted
  <2>2. EepromTypeOK'
    BY <1>1, <1>3, <1>5, <1>8, <2>1, SizeAssumption, EmptySeq DEF EepromTypeOK
  <2>3. Framed'
    BY <1>2, <1>5, <1>7, <1>8, <1>11, <2>1, <2>2 DEF Framed, AnswersTheBlock
  <2> QED  BY <1>5, <1>9, <1>11, <2>1, <2>3 DEF Stores
<1>12. CASE rest = <<>>
  <2>1. /\ cmd' = <<>>
        /\ blocks' = IF want.write THEN [blocks EXCEPT ![BlockOf(want)] = want.data] ELSE blocks
        /\ answer' = IF want.write THEN <<>> ELSE Zeros \o blocks[BlockOf(want)]
    BY <1>1, <1>3, <1>5, <1>7, <1>12, BitAccepted
  <2>2. EepromTypeOK'
    <3>1. blocks' \in [Block -> Data]
      BY <1>1, <2>1, BlockTypes DEF EepromTypeOK
    <3>2. answer' \in Seq(Bit) /\ Len(answer') <= 4 + DataBits
      BY <1>1, <2>1, BlockTypes, SizeAssumption, EmptySeq
    <3>3. cmd' \in Seq(Bit) /\ Len(cmd') < WriteLength
      BY <2>1, SizeAssumption, EmptySeq DEF WriteLength
    <3> QED  BY <1>1, <1>3, <1>5, <3>1, <3>2, <3>3 DEF EepromTypeOK
  <2>3. AnswersTheBlock'
    <3>1. ASSUME answer' # <<>> PROVE ~want.write /\ blocks' = blocks /\ answer' = Zeros \o blocks[BlockOf(want)]
      BY <2>1, <3>1
    <3>2. ASSUME answer' # <<>> PROVE fetched' \o answer' = Zeros \o blocks[BlockOf(want)]
      BY <1>1, <1>2, <1>5, <3>1, <3>2, BlockTypes
    <3>3. Wanted' = BlockOf(want)
      BY <1>5 DEF Wanted, BlockOf
    <3> QED  BY <1>5, <1>12, <3>1, <3>2, <3>3 DEF AnswersTheBlock
  <2>4. Framed'
    BY <1>5, <1>12, <2>1, <2>2, <2>3 DEF Framed
  <2> QED  BY <1>9, <1>10, <1>12, <2>1, <2>4 DEF Stores
<1> QED  BY <1>11, <1>12

LEMMA FetchFrames ==
    ASSUME Framed, Fetch
    PROVE  Framed' /\ Stores
<1>1. /\ EepromTypeOK /\ answer # <<>> /\ pending = <<>> /\ cmd = <<>> /\ ~want.write
      /\ fetched \o answer = Zeros \o blocks[Wanted]
  BY DEF Fetch, Framed, AnswersTheBlock
<1>2. /\ answer' = Tail(answer) /\ fetched' = Append(fetched, Head(answer))
      /\ UNCHANGED <<blocks, cmd, pending, want>>
  BY DEF Fetch
<1>3. /\ Head(answer) \in Bit /\ Tail(answer) \in Seq(Bit) /\ Len(Tail(answer)) = Len(answer) - 1
      /\ Len(answer) \in Nat /\ fetched \in Seq(Bit) /\ answer \in Seq(Bit)
  BY <1>1, HeadTailProperties, LenProperties DEF EepromTypeOK
<1>4. fetched' \in Seq(Bit)
  BY <1>2, <1>3
<1>5. EepromTypeOK'
  BY <1>1, <1>2, <1>3, <1>4, SizeAssumption DEF EepromTypeOK
<1>6. fetched' \o answer' = fetched \o answer
  <2>1. <<Head(answer)>> \in Seq(Bit) /\ fetched' = fetched \o <<Head(answer)>>
    BY <1>2, <1>3
  <2>2. <<Head(answer)>> \o Tail(answer) = answer
    BY <1>1, <1>3
  <2> QED  BY <1>2, <1>3, <2>1, <2>2, ConcatAssociative
<1>7. Wanted' = Wanted
  BY <1>2 DEF Wanted
<1>8. Framed'
  BY <1>1, <1>2, <1>5, <1>6, <1>7 DEF Framed, AnswersTheBlock
<1>9. Stores
  BY <1>1, <1>2, EmptySeq DEF Stores
<1> QED  BY <1>8, <1>9

LEMMA FramedFirst == EepromInit => Framed
<1> SUFFICES ASSUME EepromInit PROVE Framed
  OBVIOUS
<1>1. AddrBits \in Nat /\ DataBits \in Nat
  BY SizeAssumption
<1>2. ErasedBlock \in Data
  BY DEF ErasedBlock, Data, Bit
<1>3. want \in Command
  BY <1>2 DEF EepromInit, Command, Address, Bit
<1>4. <<>> \in Seq(Bit) /\ Len(<<>>) = 0
  BY EmptySeq
<1>5. EepromTypeOK
  BY <1>1, <1>2, <1>3, <1>4 DEF EepromInit, EepromTypeOK, WriteLength
<1> QED  BY <1>5 DEF EepromInit, Framed, AnswersTheBlock

LEMMA FramedStep == Framed /\ [EepromNext]_eepromVars => Framed' /\ (Stores \/ UNCHANGED eepromVars)
<1> SUFFICES ASSUME Framed, [EepromNext]_eepromVars PROVE Framed' /\ (Stores \/ UNCHANGED eepromVars)
  OBVIOUS
<1>1. ASSUME NEW c \in Command, Begin(c) PROVE Framed' /\ Stores
  BY <1>1, BeginFrames
<1>2. CASE Send \/ Fetch
  BY <1>2, SendFrames, FetchFrames
<1>3. CASE UNCHANGED eepromVars
  BY <1>3 DEF eepromVars, Framed, EepromTypeOK, AnswersTheBlock, Wanted
<1> QED  BY <1>1, <1>2, <1>3 DEF EepromNext

(* In every cartridge the EEPROM part runs by EepromSpec.                  *)
THEOREM EepromRuns == Spec => EepromSpec
<1>1. Init => EepromInit
  BY DEF Init
<1>2. [Next]_vars => [EepromNext]_eepromVars
  BY DEF Next, UseFlash, UseEeprom, vars
<1> QED  BY <1>1, <1>2, PTL DEF Spec, EepromSpec

(* The inductive invariant of the EEPROM.                                  *)
THEOREM EepromInvariance == Spec => []Framed
BY FramedFirst, FramedStep, EepromRuns, PTL DEF EepromSpec

(* The decoder never loses the frame, whatever commands are sent and       *)
(* wherever the program stops fetching an answer.                          *)
THEOREM NeverOutOfFrame == Spec => []InFrame
<1>1. Framed => InFrame
  BY DEF Framed, InFrame
<1> QED  BY <1>1, EepromInvariance, PTL

(* What is fetched is four zeros and the block that was asked for.         *)
THEOREM AnswersAreRight == Spec => []AnswersTheBlock
<1>1. Framed => AnswersTheBlock
  BY DEF Framed
<1> QED  BY <1>1, EepromInvariance, PTL

(* A block changes by the last bit of a write command for it alone.        *)
THEOREM EepromStores == Spec => StoresExactly
<1> DEFINE A == /\ blocks' # blocks => Len(pending) = 1 /\ want.write
                /\ Len(pending) = 1 /\ want.write /\ pending' = <<>> =>
                     blocks' = [blocks EXCEPT ![Wanted] = want.data]
<1>1. Framed /\ [EepromNext]_eepromVars => [A]_eepromVars
  BY FramedStep DEF Stores
<1>2. Spec => [][A]_eepromVars
  <2> HIDE DEF A
  <2> QED  BY <1>1, EepromInvariance, EepromRuns, PTL DEF EepromSpec
<1> QED  BY <1>2 DEF StoresExactly
=============================================================================

------------------------------ MODULE GbMemory ------------------------------
(***************************************************************************)
(* The GB and GBC address space above the cartridge's ROM (core/mmu.cpp):  *)
(* which cell an address names, and what stores to I/O registers do beyond *)
(* it: banks, palettes, joypad, serial, OAM DMA, HDMA and the boot ROM.    *)
(*                                                                         *)
(* The cartridge's RAM is one bank; GbCart has its banking.                *)
(***************************************************************************)
EXTENDS Integers, Sequences

CONSTANTS Colors,      \* BOOLEAN subset: TRUE is a GBC
          Addresses,   \* where programs store
          Stored,      \* values programs store there
          Targets,     \* HDMA destinations, from the start of VRAM
          IoStores,    \* <<register, value>> pairs programs store
          MaxStores

Space == 65536
(* Programs store to memory through StoreByte, to registers through StoreIo. *)
ASSUME GbMapAssumption ==
  /\ Colors \subseteq BOOLEAN
  /\ \A a \in Addresses : a \in Nat /\ a < Space /\ ~(65280 =< a /\ a =< 65407)
  /\ \A x \in Stored : x \in Nat /\ x < 256
  /\ \A to \in Targets : to \in Nat /\ to < 8192 /\ to % 16 = 0
  /\ \A s \in IoStores : s[1] \in Nat /\ s[1] < 128 /\ s[2] \in Nat /\ s[2] < 256

VARIABLES mem,  \* cells and registers
          last, \* the last store or DMA: [kind, ...]
          stores

memVars == <<mem, last, stores>>

(***************************************************************************)
(* Cells.  Only those that have been stored to are in mem.cell; the others *)
(* hold what the game has filled them with, told apart by their addresses. *)
(***************************************************************************)
Initial(p) == IF p[1] \in {"oam", "io"} THEN 0 ELSE (p[2] \div 16 + 17 * (p[2] % 16)) % 251
Cell(m, p) == IF p \in DOMAIN m.cell THEN m.cell[p] ELSE Initial(p)
Put(m, p, x) == [m EXCEPT !.cell = [q \in DOMAIN m.cell \union {p} |-> IF q = p THEN x ELSE m.cell[q]]]

WramBank(m) == IF ~m.color \/ m.svbk = 0 THEN 1 ELSE m.svbk
Wram(m, offset) ==
  IF offset < 4096 THEN <<"wram", offset>> ELSE <<"wram", 4096 * WramBank(m) + offset - 4096>>
Locate(m, a) ==
  CASE a < 32768 -> <<"rom", a>>
    [] 32768 =< a /\ a =< 40959 -> <<"vram", 8192 * m.vbk + a - 32768>>
    [] 40960 =< a /\ a =< 49151 -> <<"eram", a - 40960>>
    [] 49152 =< a /\ a =< 57343 -> Wram(m, a - 49152)
    [] 57344 =< a /\ a =< 65023 -> Wram(m, a - 57344)
    [] 65024 =< a /\ a =< 65183 -> <<"oam", a - 65024>>
    [] 65184 =< a /\ a =< 65279 -> <<"none", a>>
    [] 65280 =< a /\ a =< 65407 -> <<"io", a - 65280>>
    [] 65408 =< a /\ a =< 65534 -> <<"hram", a - 65408>>
    [] a = 65535 -> <<"ie", 0>>

BootMaps(m, a) == m.boot /\ (a < 256 \/ (m.color /\ 512 =< a /\ a =< 2303))

(* JOYP shows the directions, the buttons, both or neither; 0 is pressed.   *)
Joypad(m) ==
  LET dirs == m.joyp \notin {16, 48}
      keys == m.joyp \notin {32, 48}
      shown(bit) == (dirs /\ bit \in m.pad) \/ (keys /\ (bit + 4) \in m.pad)
      line(bit, weight) == IF shown(bit) THEN 0 ELSE weight
  IN  192 + m.joyp + line(0, 1) + line(1, 2) + line(2, 4) + line(3, 8)

(* The background's palettes are behind 104 and 105, the objects' behind the *)
(* next two registers.                                                      *)
PaletteCell(m, reg) == <<"io", 64 * reg + m.palette[reg - 1].index>>

ReadIo(m, reg) ==
  CASE reg = 0 -> Joypad(m)
    [] reg = 15 -> 224 + m.ifs
    [] reg = 77 -> IF m.color THEN 126 + m.key1.switch + 128 * m.key1.speed ELSE 255
    [] reg \in {82, 84} -> Cell(m, <<"io", reg>>) + 15 - (Cell(m, <<"io", reg>>) % 16)
    [] reg = 83 -> 224 + (Cell(m, <<"io", 83>>) % 32)
    [] reg = 85 -> IF m.color /\ m.hdma.active /\ m.hdma.length > 0 THEN m.hdma.length - 1 ELSE 255
    [] reg = 112 -> IF m.color THEN 248 + m.svbk ELSE 255
    [] reg = 79 -> 254 + m.vbk
    [] reg \in {104, 106} -> m.palette[reg].index + (IF m.palette[reg].inc THEN 128 ELSE 0)
    [] reg \in {105, 107} -> Cell(m, PaletteCell(m, reg))
    [] OTHER -> Cell(m, <<"io", reg>>)
Read(m, a) ==
  LET p == Locate(m, a)
  IN  CASE BootMaps(m, a) -> 1000 + a
        [] ~BootMaps(m, a) /\ p[1] = "io" -> ReadIo(m, p[2])
        [] p[1] = "none" -> 255
        [] p[1] = "ie" -> 224 + (Cell(m, p) % 32)
        [] OTHER -> Cell(m, p)

(***************************************************************************)
(* Stores.                                                                 *)
(***************************************************************************)
OamSize == 160
OamCells == {<<"oam", n>> : n \in 0..(OamSize - 1)}
(* OAM DMA is immediate and reads through the map, echo and I/O included.   *)
OamDma_MissesLast(m, page) ==
  LET set == Put(m, <<"io", 70>>, page)
      cells == {<<"oam", n>> : n \in 0..(OamSize - 2)}
  IN  [set EXCEPT !.cell = [p \in DOMAIN set.cell \union cells |->
                              IF p \in cells THEN Read(set, 256 * page + p[2]) ELSE set.cell[p]]]
OamDma(m, page) ==
  LET set == Put(m, <<"io", 70>>, page)
  IN  [set EXCEPT !.cell = [p \in DOMAIN set.cell \union OamCells |->
                              IF p \in OamCells THEN Read(set, 256 * page + p[2]) ELSE set.cell[p]]]

(* One HDMA block goes through the ordinary store, so that a transfer past  *)
(* the end of VRAM goes on into the cartridge.                              *)
Plain(m, a, x) ==
  LET p == Locate(m, a)
  IN  CASE p[1] \in {"rom", "none"} -> m
        [] p[1] = "ie" -> Put(m, p, 224 + (x % 32))
        [] OTHER -> Put(m, p, x)
HdmaByte(s, m, i) == Plain(s, m.hdma.dest + i, Read(s, (m.hdma.source + i) % Space))
HdmaBlock(m) ==
  LET copied[n \in 0..16] == IF n = 0 THEN m ELSE HdmaByte(copied[n - 1], m, n - 1)
      left == m.hdma.length - 1
  IN  [copied[16] EXCEPT !.hdma = [source |-> (m.hdma.source + 16) % Space, dest |-> (m.hdma.dest + 16) % Space,
                                   length |-> left, active |-> m.hdma.active /\ left > 0]]
HdmaStart(m, x) ==
  LET reg(n) == Cell(m, <<"io", n>>)
      set == [m EXCEPT !.hdma = [source |-> 256 * reg(81) + reg(82), dest |-> 32768 + 256 * reg(83) + reg(84),
                                 length |-> (x % 128) + 1, active |-> x >= 128]]
      blocks[n \in 0..((x % 128) + 1)] == IF n = 0 THEN set ELSE HdmaBlock(blocks[n - 1])
  IN  IF x >= 128 THEN set ELSE blocks[(x % 128) + 1]

WriteIo(m, reg, x) ==
  CASE reg = 0 -> [m EXCEPT !.joyp = 16 * ((x \div 16) % 4)]
    [] reg = 2 -> IF x >= 128 /\ x % 2 = 1
                  THEN [Put(m, <<"io", 2>>, x - 128) EXCEPT
                          !.serial = Append(@, Cell(m, <<"io", 1>>)), !.ifs = 16 * (@ \div 16) + 8 + (@ % 8)]
                  ELSE Put(m, <<"io", 2>>, x)
    [] reg = 15 -> [m EXCEPT !.ifs = x % 32]
    [] reg = 70 -> OamDma(m, x)
    [] reg \in {81, 82, 83, 84, 85} /\ ~m.color -> m
    [] reg = 81 /\ m.color -> Put(m, <<"io", 81>>, x)
    [] reg \in {82, 84} /\ m.color -> Put(m, <<"io", reg>>, x - (x % 16))
    [] reg = 83 /\ m.color -> Put(m, <<"io", 83>>, x % 32)
    [] reg = 85 /\ m.color -> IF m.hdma.active /\ x < 128
                              THEN [m EXCEPT !.hdma.active = FALSE, !.hdma.length = 0]
                              ELSE HdmaStart(m, x)
    [] reg = 112 -> IF m.color THEN [m EXCEPT !.svbk = IF x % 8 = 0 THEN 1 ELSE x % 8] ELSE m
    [] reg = 77 -> IF m.color THEN [m EXCEPT !.key1.switch = x % 2] ELSE m
    [] reg = 79 -> IF m.color THEN [m EXCEPT !.vbk = x % 2] ELSE m
    [] reg = 80 -> IF x # 0 THEN [Put(m, <<"io", 80>>, x) EXCEPT !.boot = FALSE] ELSE Put(m, <<"io", 80>>, x)
    [] reg \in {104, 106} -> [m EXCEPT !.palette[reg] = [index |-> x % 64, inc |-> x >= 128]]
    [] reg \in {105, 107} ->
         [Put(m, PaletteCell(m, reg), x) EXCEPT
            !.palette[reg - 1].index = IF m.palette[reg - 1].inc THEN (@ + 1) % 64 ELSE @]
    [] OTHER -> Put(m, <<"io", reg>>, x)

(* The machine once a game runs: the HDMA registers may hold a source and a  *)
(* destination already.                                                     *)
MemInit ==
  /\ \E color \in Colors, to \in Targets :
       mem = [color |-> color,
              cell |-> [p \in {<<"io", 81>>, <<"io", 82>>, <<"io", 83>>, <<"io", 84>>} |->
                          CASE p[2] = 81 -> 208 [] p[2] = 82 -> 0 [] p[2] = 83 -> to \div 256 [] p[2] = 84 -> to % 256],
              vbk |-> 0, svbk |-> 1, boot |-> TRUE, joyp |-> 0, pad |-> {},
              ifs |-> 1, key1 |-> [switch |-> 0, speed |-> 0], palette |-> [r \in {104, 106} |-> [index |-> 0, inc |-> FALSE]],
              hdma |-> [source |-> 0, dest |-> 0, length |-> 0, active |-> FALSE], serial |-> <<>>]
  /\ last = [kind |-> "none"]
  /\ stores = 0

StoreByte(a, x) ==
  /\ stores < MaxStores /\ stores' = stores + 1
  /\ mem' = Plain(mem, a, x)
  /\ last' = [kind |-> "store", at |-> a, value |-> x]
StoreIo(reg, x) ==
  /\ stores < MaxStores /\ stores' = stores + 1
  /\ mem' = WriteIo(mem, reg, x)
  /\ last' = [kind |-> "io", at |-> reg, value |-> x]
(* The LCD's HBlank hook (GbLcd).                                           *)
Hblank ==
  /\ mem.hdma.active /\ mem.hdma.length > 0
  /\ mem' = HdmaBlock(mem)
  /\ last' = [kind |-> "hblank"]
  /\ UNCHANGED stores
(* STOP with a speed switch armed; the joypad as the frontend sets it.      *)
SwitchSpeed ==
  /\ mem.color /\ mem.key1.switch = 1
  /\ mem' = [mem EXCEPT !.key1 = [switch |-> 0, speed |-> 1 - @.speed]]
  /\ last' = [kind |-> "stop"]
  /\ UNCHANGED stores
SetPad(pad) ==
  /\ stores < MaxStores /\ stores' = stores + 1
  /\ mem' = [mem EXCEPT !.pad = pad]
  /\ last' = [kind |-> "pad"]

InRam(a) == (40960 =< a /\ a =< 65023) \/ (65408 =< a /\ a =< 65534)
Aliases(a) == CASE 49152 =< a /\ a =< 56831 -> {a, a + 8192}
                [] 57344 =< a /\ a =< 65023 -> {a, a - 8192}
                [] OTHER -> {a}

(* A store shows at its address and at its echo, and changes nothing else.  *)
StoreExact ==
  last'.kind = "store" =>
    \A a \in Addresses : IF a \in Aliases(last'.at) THEN InRam(a) => Read(mem', a) = last'.value
                         ELSE Read(mem', a) = Read(mem, a)
(* The two DMAs leave what the CPU would have read at the source.           *)
OamDmaExact ==
  last'.kind = "io" /\ last'.at = 70 =>
    \A i \in {0, 1, 127, 159} : Read(mem', 65024 + i) = Read(mem, 256 * last'.value + i)
HdmaExact ==
  last'.kind = "hblank" =>
    /\ \A i \in 0..15 : LET to == mem.hdma.dest + i
                       IN  to < 40960 => Read(mem', to) = Read(mem, mem.hdma.source + i)
    /\ mem'.hdma.active <=> mem.hdma.length > 1
(* The bank at 53248 is the last one asked for, bank 1 for bank 0.          *)
BankExact ==
  last'.kind = "io" /\ last'.at = 112 /\ mem.color =>
    Read(mem', 53248) = Cell(mem, <<"wram", 4096 * (IF last'.value % 8 = 0 THEN 1 ELSE last'.value % 8)>>)
(* A button that is held shows in the columns the program has selected.     *)
PadExact ==
  last'.kind = "pad" =>
    \A b \in mem'.pad : \/ (Joypad(mem') \div (2 ^ (b % 4))) % 2 = 0
                        \/ (IF b < 4 THEN mem.joyp \in {16, 48} ELSE mem.joyp \in {32, 48})
(* Every step of the memory map does what its store, DMA or input asks.      *)
MemoryExact == [][StoreExact /\ OamDmaExact /\ HdmaExact /\ BankExact /\ PadExact]_memVars

MemNext ==
  \/ \E a \in Addresses, x \in Stored : StoreByte(a, x)
  \/ \E s \in IoStores : StoreIo(s[1], s[2])
  \/ Hblank
  \/ SwitchSpeed
  \/ \E pad \in {{0}, {5}} : SetPad(pad)

MemSpec == MemInit /\ [][MemNext]_memVars
=============================================================================

----------------------------- MODULE GbaMemory ------------------------------
(***************************************************************************)
(* The memory map of the GBA (core/gba_bus.cpp): loads and stores of 8, 16 *)
(* and 32 bits over mirrored memories, palette, VRAM and OAM with their    *)
(* 16-bit bus, the I/O registers that are not plain memory, the ROM, and   *)
(* the debug port of mGBA.  A value is the sequence of its bytes, lowest   *)
(* first; save memory is a plain SRAM here.                                *)
(***************************************************************************)
EXTENDS Integers, Sequences

CONSTANTS Watched,  \* the bytes that loads look at
          Places,   \* addresses of stores
          Contents, \* bytes stored
          RomLength, \* bytes of the ROM, at most 32 MiB
          BusStores \* stores of a behaviour
ASSUME MapAssumption ==
  /\ Watched \subseteq Nat /\ Places \subseteq Nat /\ Contents \subseteq 0..255
  /\ RomLength \in Nat /\ 1 < RomLength /\ RomLength =< \h2000000

VARIABLES memory, \* cell to byte
          signals, \* what a store sets off: POSTFLG, HALTCNT, STOP, waitcnt
          lastStore,  \* the last store and the memory before it
          busStores
memoryVars == <<memory, signals, lastStore, busStores>>

\* rom_mask_ + 1
RomPower ==
  LET powers == {2 ^ k : k \in 0..25}
  IN  CHOOSE p \in powers : p >= RomLength /\ \A q \in powers : q >= RomLength => p =< q

(***************************************************************************)
(* The cell of a byte: its memory and the offset there, by read8_internal  *)
(* and write8_internal, palette_offset_for and vram_offset_for.            *)
(***************************************************************************)
Nowhere == <<"open", 0>>
VramOffset_Whole(o) == o % \h18000
VramOffset(o) == IF o < \h18000 THEN o ELSE \h10000 + (o % \h8000)
RomOffset(o) == (o % RomPower) % RomLength
Between(a, first, last) == first =< a /\ a =< last
CellOf(a) ==
  CASE Between(a, \h04FFF600, \h04FFF7FF) -> <<"debug", a - \h04FFF600>>
    [] Between(a, \h02000000, \h02FFFFFF) -> <<"ewram", (a - \h02000000) % \h40000>>
    [] Between(a, \h03000000, \h03FFFFFF) -> <<"iwram", (a - \h03000000) % \h8000>>
    [] Between(a, \h04000000, \h040003FF) -> <<"io", a - \h04000000>>
    [] Between(a, \h05000000, \h050003FF) -> <<"palette", a - \h05000000>>
    [] Between(a, \h06000000, \h0601FFFF) -> <<"vram", VramOffset(a - \h06000000)>>
    [] Between(a, \h07000000, \h070003FF) -> <<"oam", a - \h07000000>>
    [] Between(a, \h08000000, \h0DFFFFFF) -> <<"rom", RomOffset(a - \h08000000)>>
    [] Between(a, \h0E000000, \h0E00FFFF) -> <<"save", a - \h0E000000>>
    [] OTHER -> Nowhere

Aligned(a, width) == width * (a \div width)
RomByte(o) == (o + 1) % 256
At(m, c) == IF c[1] = "open" THEN 255 ELSE IF c[1] = "rom" THEN RomByte(c[2])
            ELSE IF c \in DOMAIN m THEN m[c] ELSE 0
With(m, c, x) == [d \in DOMAIN m \union {c} |-> IF d = c THEN x ELSE m[d]]

(* read8, read16, read32: the aligned bytes, rotated by the rest of the     *)
(* address                                                                  *)
Load(m, a, width) ==
  LET from == Aligned(a, width)
  IN  [n \in 1..width |-> At(m, CellOf(from + ((n - 1 + a) % width)))]
(* read_palette8_fast .. read_oam16_fast, the renderer's reads              *)
LoadFast(m, a, width) ==
  LET from == Aligned(a, width)
  IN  [n \in 1..width |-> At(m, CellOf(from + n - 1))]

(* write_io16_raw masks IE, IF and IME                                      *)
Mask(c, x) == CASE c \in {<<"io", \h201>>, <<"io", \h203>>} -> x % 64
                [] c = <<"io", \h208>> -> x % 2
                [] c = <<"io", \h209>> -> 0
                [] OTHER -> x
Cleared(x, y) == \* bits of x that are not in y
  LET b(bit) == IF (x \div bit) % 2 = 1 /\ (y \div bit) % 2 = 0 THEN bit ELSE 0
  IN  b(1) + b(2) + b(4) + b(8) + b(16) + b(32) + b(64) + b(128)

(* write8_internal: a byte of its own fills a halfword of palette and VRAM   *)
(* and leaves OAM alone                                                     *)
PutByte(m, a, x, width) ==
  LET c == CellOf(a)
      even == <<c[1], 2 * (c[2] \div 2)>>
      odd == <<c[1], even[2] + 1>>
  IN  CASE c[1] \in {"open", "rom"} -> m
        [] c[1] \in {"palette", "vram"} /\ width = 1 -> With(With(m, odd, x), even, x)
        [] c[1] = "oam" /\ width = 1 -> m
        [] c \in {<<"io", \h202>>, <<"io", \h203>>} -> With(m, c, Cleared(At(m, c), Mask(c, x)))
        [] OTHER -> With(m, c, Mask(c, x))
(* write8, write16, write32                                                 *)
AfterStore(m, a, bytes) ==
  LET from == Aligned(a, Len(bytes))
      stored[n \in 0..Len(bytes)] ==
        IF n = 0 THEN m ELSE PutByte(stored[n - 1], from + n - 1, bytes[n], Len(bytes))
  IN  stored[Len(bytes)]

(* The requests a store leaves for the core: take_postflg_write and         *)
(* take_halt_request                                                        *)
Signalled(a, bytes) ==
  LET from == Aligned(a, Len(bytes))
      hits == {n \in 1..Len(bytes) : Between(from + n - 1, \h04000300, \h04000301)}
      halt == {n \in hits : from + n - 1 = \h04000301}
  IN  [postflg |-> signals.postflg \/ hits # halt, halt |-> signals.halt \/ halt # {},
       stop |-> IF halt = {} THEN signals.stop ELSE \E n \in halt : bytes[n] >= 128]

NoSignals == [postflg |-> FALSE, halt |-> FALSE, stop |-> FALSE]
BusMemoryInit ==
  /\ memory = [c \in {} |-> 0] /\ signals = NoSignals
  /\ lastStore = [a |-> 0, bytes |-> <<>>, before |-> memory] /\ busStores = 0
BusStore(a, bytes) ==
  /\ busStores < BusStores /\ busStores' = busStores + 1
  /\ memory' = AfterStore(memory, a, bytes) /\ signals' = Signalled(a, bytes)
  /\ lastStore' = [a |-> a, bytes |-> bytes, before |-> memory]
\* the hardware raises an interrupt (set_if_bits)
RaiseIf(x) ==
  LET c == <<"io", \h202>>
  IN  /\ busStores < BusStores /\ busStores' = busStores + 1
      /\ memory' = With(memory, c, x + Cleared(At(memory, c), x))
      /\ lastStore' = [a |-> 0, bytes |-> <<>>, before |-> memory] /\ UNCHANGED signals
\* the core takes the requests at the end of the instruction
TakeSignals ==
  /\ signals # NoSignals /\ signals' = NoSignals /\ UNCHANGED <<memory, lastStore, busStores>>
BusMemoryNext ==
  \/ \E a \in Places, x, y \in Contents :
       BusStore(a, <<x>>) \/ BusStore(a, <<x, y>>) \/ BusStore(a, <<x, y, y, x>>)
  \/ \E x \in Contents : RaiseIf(x)
  \/ TakeSignals

BusMemorySpec == BusMemoryInit /\ [][BusMemoryNext]_memoryVars

(* A store is read back: a load of its width and address gives its bytes    *)
(* rotated by the misalignment (a byte in palette or VRAM twice, OAM as it  *)
(* was, IF without the bits it had set and was given), the mirrors show the *)
(* same, nothing else changes, and a half of a word is what a halfword      *)
(* load, the renderer's included, finds there.                              *)
BusReadsBack ==
  LET w == Len(lastStore.bytes)
      a == lastStore.a
      from == Aligned(a, w)
      area == CellOf(from)[1]
      grain == IF w = 1 /\ area \in {"palette", "vram"} THEN 2 ELSE w
      window == {CellOf(Aligned(from, grain) + n) : n \in 0..(grain - 1)}
      plain == area \notin {"io", "rom", "open"} /\ ~(area = "oam" /\ w = 1)
      \* bytes of IF and IE
      Got(n) == At(memory, CellOf(from + n - 1))
      Had(n) == At(lastStore.before, CellOf(from + n - 1))
  IN  w # 0 =>
        /\ plain => \A n \in 1..w : Load(memory, a, w)[n] = lastStore.bytes[((n - 1 + a) % w) + 1]
        /\ plain /\ w = 1 /\ grain = 2 => Load(memory, from, 2) = <<lastStore.bytes[1], lastStore.bytes[1]>>
        /\ area \in {"rom", "open"} \/ (area = "oam" /\ w = 1) => memory = lastStore.before
        /\ \A n \in 1..w : from + n - 1 = \h04000202 =>
             \A bit \in {1, 2, 4, 8, 16, 32, 64, 128} :
               (Got(n) \div bit) % 2 = 1 <=> (Had(n) \div bit) % 2 = 1 /\ (lastStore.bytes[n] \div bit) % 2 = 0
        /\ \A x \in Watched : CellOf(x) \notin window => Load(memory, x, 1) = Load(lastStore.before, x, 1)
        /\ \A x \in Watched :
             LET whole == Load(memory, Aligned(x, 4), 4)
             IN  /\ Load(memory, Aligned(x, 4), 2) = SubSeq(whole, 1, 2)
                 /\ LoadFast(memory, Aligned(x, 4) + 2, 2) = SubSeq(whole, 3, 4)
                 /\ Load(memory, x, 1) = <<whole[(x % 4) + 1]>>
        /\ \A x, y \in Watched :
             \/ Between(x, \h02000000, \h02FBFFFF) /\ y = x + \h40000
             \/ Between(x, \h03000000, \h03FF7FFF) /\ y = x + \h8000
             \/ Between(x, \h06010000, \h06017FFF) /\ y = x + \h8000
             => Load(memory, x, 1) = Load(memory, y, 1)
=============================================================================

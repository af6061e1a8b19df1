----------------------------- MODULE MCHardware -----------------------------
(***************************************************************************)
(* The parts of the two machines that keep their own state, for TLC: a     *)
(* behaviour exercises one of them, chosen at the start, and the others    *)
(* rest.  Each part's bounds stand with it.                                *)
(***************************************************************************)
EXTENDS Instructions, GbaCpu, GbCart, GbMemory, GbApu, GbaVideo, GbaPrefetch, GbaMemory, GbaBios

LOCAL INSTANCE SequencesExt

VARIABLE unit

parts == <<insVars, cpuVars, cartVars, memVars, apuVars, videoVars, busVars, memoryVars, biosVars>>

(* Words of 14 bits, whose samples lie at the boundaries.                   *)
MCSamples == {0, 1, 255, 8191, 8192, 16383}
MCBytes == {0, 1, 15, 16, 127, 128, 153, 240, 255}
MCDecimals == {0, 5, 9, 10, 49, 50, 61, 66, 90, 99}

(* One status per mode; those of usr and svc bring the T bit and a flag.    *)
MCModes == {"usr", "sys", "svc", "irq", "fiq"}
MCStatuses == {[mode |-> m, i |-> FALSE, t |-> m = "usr", f |-> m = "svc"] : m \in MCModes}
MCStackOf == [b \in MCModes |-> CASE b = "usr" -> 101 [] b = "svc" -> 102 [] OTHER -> 103]

(* A cartridge of each kind, with the banks its registers can address; days *)
(* of two hours of two minutes of two seconds, four of them to the carry.   *)
MCKinds == {[mbc |-> "mbc1", roms |-> 64, rams |-> 4], [mbc |-> "mbc2", roms |-> 16, rams |-> 1],
            [mbc |-> "mbc3", roms |-> 8, rams |-> 4], [mbc |-> "mbc5", roms |-> 512, rams |-> 2]}

(* Every region of the GB map with an address whose echo is watched, and    *)
(* the stores that the registers answer to.                                 *)
MCAddresses == {32768, 36864, 40960, 49152, 53248, 57344, 61440, 65024, 65408, 65535}
MCIoStores == {<<0, 16>>, <<0, 32>>, <<2, 129>>, <<15, 31>>, <<70, 192>>, <<70, 209>>, <<70, 225>>,
               <<77, 1>>, <<79, 1>>, <<80, 1>>, <<81, 208>>, <<83, 31>>, <<84, 240>>, <<85, 0>>,
               <<85, 1>>, <<85, 129>>, <<104, 191>>, <<105, 7>>, <<106, 5>>, <<107, 9>>,
               <<112, 0>>, <<112, 3>>}

(* Notes that end within the steps, rise and fall past the ends of the      *)
(* volume, sweep over the end of the frequencies and down.                  *)
Note(length, limited, volume, period, up, sweepPeriod, sweepShift, falling, freq) ==
  [length |-> length, limited |-> limited, volume |-> volume, period |-> period, up |-> up,
   sweepPeriod |-> sweepPeriod, sweepShift |-> sweepShift, falling |-> falling, freq |-> freq]
MCNotes == {Note(63, TRUE, 15, 1, TRUE, 0, 0, FALSE, 1024), Note(253, TRUE, 1, 1, FALSE, 1, 1, FALSE, 1366),
            Note(0, FALSE, 14, 2, TRUE, 1, 2, TRUE, 2047), Note(60, TRUE, 8, 0, TRUE, 2, 0, FALSE, 1023)}

(* Lines of five cycles, four of them drawn, and frames of four lines.      *)
Setup(timing, repeat, srcStep, dstStep, reload) ==
  [on |-> TRUE, timing |-> timing, repeat |-> repeat, src |-> 100, dst |-> 200, units |-> 4,
   srcStep |-> srcStep, dstStep |-> dstStep, reload |-> reload]
MCSetups == {Setup(0, TRUE, 4, 4, FALSE), Setup(1, FALSE, 2, -2, FALSE), Setup(2, TRUE, 4, 4, TRUE),
             Setup(3, TRUE, 4, 0, FALSE), Setup(2, TRUE, 0, 4, FALSE)}

(* Code at the start, the middle and the end of the Game Pak's regions.     *)
MCWaitcnts == {[first |-> <<0, 0, 0>>, next |-> <<0, 0, 0>>, prefetch |-> TRUE, sram |-> 0],
               [first |-> <<2, 2, 3>>, next |-> <<1, 1, 1>>, prefetch |-> TRUE, sram |-> 3],
               [first |-> <<1, 1, 1>>, next |-> <<1, 0, 0>>, prefetch |-> FALSE, sram |-> 1]}

(* Every memory of the GBA: its ends, its mirrors, IE, IF, IME and HALTCNT. *)
MCWatched == {\h02000001, \h02040001, \h03000000, \h03040000, \h04000200, \h04000202, \h04000203,
              \h04000208, \h05000001, \h06010002, \h06018002, \h07000002, \h08000003, \h08000004,
              \h0E000002, \h05008D00}
MCPlaces == {\h02000001, \h02040003, \h03040000, \h04000200, \h04000202, \h04000208, \h04000300,
             \h04000301, \h05000001, \h06010003, \h06018003, \h07000002, \h08000002, \h0E000002, \h04FFF600}

(* Eight-bit registers; blocks that overlap, are misaligned and end within  *)
(* a unit; streams of literals, runs and references, short of their tokens  *)
(* by up to a byte, with more than eight tokens, a reference too far, or a  *)
(* header that declares nothing or more than MaxOutput.                     *)
MCOperands == {-128, -127, -7, -1, 0, 1, 2, 3, 10, 100, 127}
MCBlocks == [src : {1, 8, 24}, dst : {7, 20, 100}, count : {0, 1, 5, 17}, fill : BOOLEAN, word : BOOLEAN]
Text(text) == [kind |-> "plain", n |-> Len(text), distance |-> 0, bytes |-> text]
Literal(x) == Text(<<x>>)
Back(distance, n) == [kind |-> "back", n |-> n, distance |-> distance, bytes |-> <<>>]
Run(x, n) == [kind |-> "run", n |-> n, distance |-> 0, bytes |-> [i \in 1..n |-> x]]
TokensOf(S) ==
  {<<a, b, c>> : a, b, c \in S}
    \union {[k \in 1..7 |-> Literal(k)] \o <<a, b>> : a, b \in S}
Body(lz, t) ==
  IF t.kind = "back" THEN <<16 * (t.n - 3) + ((t.distance - 1) \div 256), (t.distance - 1) % 256>>
  ELSE IF t.kind = "run" THEN <<125 + t.n, t.bytes[1]>>
  ELSE IF lz THEN t.bytes
  ELSE <<t.n - 1>> \o t.bytes
Flags(tokens, k) ==
  LET one(j) == IF k + j \in DOMAIN tokens /\ tokens[k + j].kind = "back" THEN 2 ^ (7 - j) ELSE 0
  IN  <<one(0) + one(1) + one(2) + one(3) + one(4) + one(5) + one(6) + one(7)>>
Packed(lz, tokens) ==
  FlattenSeq([k \in 1..Len(tokens) |-> (IF lz /\ k % 8 = 1 THEN Flags(tokens, k) ELSE <<>>) \o Body(lz, tokens[k])])
MCStreamsOf(lz, T) ==
  {[lz |-> lz, bytes |-> Packed(lz, t), tokens |-> t, dst |-> where[1], vram |-> where[2], real |-> where[3],
    size |-> IF cut = 2 THEN 0 ELSE Told([tokens |-> t])[Len(t)] - cut] :
     t \in T, cut \in {0, 1, 2}, where \in {<<31, TRUE, TRUE>>, <<60, TRUE, FALSE>>, <<31, FALSE, FALSE>>}}
MCStreams ==
  MCStreamsOf(TRUE, TokensOf({Literal(5), Literal(9), Back(1, 3), Back(2, 5), Back(301, 4), Back(3, 18)}))
  \union
  MCStreamsOf(FALSE, TokensOf({Literal(5), Text(<<1, 2, 3, 4>>), Run(6, 3), Run(9, 20)}))

(* The machines chosen, the others at rest in one of their first states.    *)
Init ==
  /\ unit \in {"instructions", "cpu", "cart", "memory map", "sound", "video", "bus", "memory", "bios"}
  /\ IF unit = "instructions" THEN InsInit ELSE call = Pending /\ outcome = Pending
  /\ CpuInit
  /\ CartInit /\ (unit # "cart" => cart = Fresh(CHOOSE k \in Kinds : TRUE))
  /\ MemInit /\ (unit # "memory map" => mem.color /\ mem.cell[<<"io", 83>>] = 1)
  /\ ApuInit /\ (unit # "sound" => lfsr = CHOOSE x \in NoiseRegisters : TRUE)
  /\ VideoInit
  /\ BusInit /\ (unit # "bus" => waitcnt = CHOOSE w \in Waitcnts : TRUE)
  /\ BusMemoryInit
  /\ IF unit = "bios" THEN BiosInit ELSE swi = Unanswered /\ answer = Unanswered

Next ==
  \/ /\ unit = "instructions" /\ InsNext
     /\ UNCHANGED <<unit, cpuVars, cartVars, memVars, apuVars, videoVars, busVars, memoryVars, biosVars>>
  \/ /\ unit = "cpu" /\ CpuNext
     /\ UNCHANGED <<unit, insVars, cartVars, memVars, apuVars, videoVars, busVars, memoryVars, biosVars>>
  \/ /\ unit = "cart" /\ CartNext
     /\ UNCHANGED <<unit, insVars, cpuVars, memVars, apuVars, videoVars, busVars, memoryVars, biosVars>>
  \/ /\ unit = "memory map" /\ MemNext
     /\ UNCHANGED <<unit, insVars, cpuVars, cartVars, apuVars, videoVars, busVars, memoryVars, biosVars>>
  \/ /\ unit = "sound" /\ ApuNext
     /\ UNCHANGED <<unit, insVars, cpuVars, cartVars, memVars, videoVars, busVars, memoryVars, biosVars>>
  \/ /\ unit = "video" /\ VideoNext
     /\ UNCHANGED <<unit, insVars, cpuVars, cartVars, memVars, apuVars, busVars, memoryVars, biosVars>>
  \/ /\ unit = "bus" /\ BusNext
     /\ UNCHANGED <<unit, insVars, cpuVars, cartVars, memVars, apuVars, videoVars, memoryVars, biosVars>>
  \/ /\ unit = "memory" /\ BusMemoryNext
     /\ UNCHANGED <<unit, insVars, cpuVars, cartVars, memVars, apuVars, videoVars, busVars, biosVars>>
  \/ /\ unit = "bios" /\ BiosNext
     /\ UNCHANGED <<unit, insVars, cpuVars, cartVars, memVars, apuVars, videoVars, busVars, memoryVars>>
Spec == Init /\ [][Next]_<<unit, parts>>
=============================================================================

------------------------------- MODULE GbCart -------------------------------
(***************************************************************************)
(* The cartridge of the GB and GBC (core/mmu.cpp): the bank registers of   *)
(* MBC1, MBC2, MBC3 and MBC5, the RAM behind them, the real-time clock and *)
(* the battery that keeps both while the machine is off.                   *)
(*                                                                         *)
(* One byte stands for each RAM bank.  The clock counts PerMinute seconds  *)
(* to a minute, and so on; the program's numbers are 60, 60, 24 and 512.   *)
(***************************************************************************)
EXTENDS Integers

CONSTANTS Kinds,      \* cartridges: [mbc, roms, rams]
          Selections, \* values written to the bank registers
          Cells,      \* values stored in RAM
          PerMinute, PerHour, PerDay, Days,
          ClockBytes, \* values stored into the clock's registers
          Wait,       \* seconds the host's clock may move by in one step
          MaxCartSteps

VARIABLES cart, \* mbc, roms, rams and the registers on, low, high, mode, bank
          eram, \* RAM bank to its byte
          rtc,  \* offset, base, halt, latched, latch, phase (rtc_latch_state_)
          disk, \* the .sav and .rtc files
          now,  \* the host's clock
          cartSteps

cartVars == <<cart, eram, rtc, disk, now, cartSteps>>

ASSUME CartAssumption ==
  /\ Kinds \subseteq [mbc : {"mbc1", "mbc2", "mbc3", "mbc5"}, roms : Nat \ {0, 1}, rams : Nat]
  /\ Selections \subseteq Nat /\ Cells \subseteq Nat /\ Wait \subseteq Nat /\ ClockBytes \subseteq Nat
  /\ PerMinute \in 2..64 /\ PerHour \in 2..64 /\ PerDay \in 2..32
  /\ Days \in Nat \ {0} /\ Days % 2 = 0

Open == 255
NoFile == [none |-> TRUE]
(* seconds_from_rtc_regs: of each register the low bits count, as many as   *)
(* can be set, whether or not the clock ever shows that much.               *)
LowBits(k, x) == x % <<64, 64, 32, Days \div 2, 2>>[k]
Seconds(regs) ==
  LET days == LowBits(4, regs[4]) + (Days \div 2) * LowBits(5, regs[5])
      hours == PerDay * days + LowBits(3, regs[3])
      minutes == PerHour * hours + LowBits(2, regs[2])
  IN  PerMinute * minutes + LowBits(1, regs[1])

(* rtc_regs_from_seconds: bit 0 of the last register is the day's high bit, *)
(* bit 7 the carry; the halt bit, bit 6, is not among what it returns.      *)
Registers(total) ==
  LET t == IF total < 0 THEN 0 ELSE total
      days == t \div (PerMinute * PerHour * PerDay)
  IN  << t % PerMinute, (t \div PerMinute) % PerHour, (t \div (PerMinute * PerHour)) % PerDay,
         days % (Days \div 2),
         (days % Days) \div (Days \div 2) + (IF days >= Days THEN 128 ELSE 0) >>
Elapsed(c) == IF c.halt THEN c.offset ELSE c.offset + now - c.base
View(c) == IF c.latched THEN c.latch ELSE Registers(Elapsed(c))

Fresh(kind) == [mbc |-> kind.mbc, roms |-> kind.roms, rams |-> kind.rams,
                on |-> FALSE, low |-> 1, high |-> 0, mode |-> 0, bank |-> 0]
FreshClock == [offset |-> 0, base |-> now, halt |-> FALSE, latched |-> FALSE,
               latch |-> <<0, 0, 0, 0, 0>>, phase |-> 0]
FreshRam(kind) == [b \in 0..(kind.rams - 1) |-> 0]
CartInit ==
  /\ \E kind \in Kinds : cart = Fresh(kind) /\ eram = FreshRam(kind)
  /\ now = 0 /\ rtc = FreshClock
  /\ disk = [sav |-> NoFile, rtc |-> NoFile] /\ cartSteps = 0

(***************************************************************************)
(* Which banks the CPU sees.                                               *)
(***************************************************************************)
NotZero(bank) == IF bank = 0 THEN 1 ELSE bank
RomBank ==
  LET chosen ==
        CASE cart.mbc = "mbc1" -> NotZero(32 * cart.high + cart.low)
          [] cart.mbc \in {"mbc2", "mbc3"} -> NotZero(cart.low)
          [] cart.mbc = "mbc5" -> 256 * cart.high + cart.low
      bank == chosen % cart.roms
  IN  IF cart.mbc = "mbc5" THEN bank ELSE NotZero(bank)
LowerBank == IF cart.mbc = "mbc1" /\ cart.mode = 1 THEN (32 * cart.high) % cart.roms ELSE 0
RamBank ==
  CASE cart.rams <= 1 \/ cart.mbc = "mbc2" \/ (cart.mbc = "mbc1" /\ cart.mode = 0) -> 0
    [] cart.rams > 1 /\ cart.mbc = "mbc1" /\ cart.mode = 1 -> cart.bank
    [] cart.rams > 1 /\ cart.mbc = "mbc3" -> IF cart.bank <= 3 THEN cart.bank ELSE 0
    [] cart.rams > 1 /\ cart.mbc = "mbc5" -> cart.bank
ClockSelected == cart.mbc = "mbc3" /\ cart.bank \in 8..12

ReadRam ==
  CASE ClockSelected -> View(rtc)[cart.bank - 7]
    [] ~ClockSelected /\ (~cart.on \/ RamBank \notin DOMAIN eram) -> Open
    [] OTHER -> IF cart.mbc = "mbc2" THEN 240 + (eram[0] % 16) ELSE eram[RamBank]

(***************************************************************************)
(* Writes below 0x8000 and to 0xA000-0xBFFF.                               *)
(***************************************************************************)
CartStep == cartSteps < MaxCartSteps /\ cartSteps' = cartSteps + 1

WriteEnable(x) ==
  /\ CartStep
  /\ cart' = [cart EXCEPT !.on = (x % 16 = 10)]
  /\ UNCHANGED <<eram, rtc, disk, now>>
WriteRomBank(x) ==
  /\ CartStep
  /\ cart' = [cart EXCEPT !.low = CASE cart.mbc = "mbc1" -> NotZero(x % 32)
                                    [] cart.mbc = "mbc2" -> NotZero(x % 16)
                                    [] cart.mbc = "mbc3" -> NotZero(x % 128)
                                    [] cart.mbc = "mbc5" -> x]
  /\ UNCHANGED <<eram, rtc, disk, now>>
WriteHigh(x) ==
  /\ cart.mbc = "mbc5" /\ CartStep
  /\ cart' = [cart EXCEPT !.high = x % 2]
  /\ UNCHANGED <<eram, rtc, disk, now>>
WriteRamBank(x) ==
  /\ cart.mbc # "mbc2" /\ CartStep
  /\ cart' = CASE cart.mbc = "mbc1" -> [cart EXCEPT !.high = x % 4, !.bank = x % 4]
               [] cart.mbc = "mbc3" -> [cart EXCEPT !.bank = x]
               [] cart.mbc = "mbc5" -> [cart EXCEPT !.bank = x % 16]
  /\ UNCHANGED <<eram, rtc, disk, now>>
WriteMode(x) ==
  /\ cart.mbc = "mbc1" /\ CartStep
  /\ cart' = [cart EXCEPT !.mode = x % 2]
  /\ UNCHANGED <<eram, rtc, disk, now>>

(* 0 releases the latch, 1 after 0 takes a new one.                         *)
WriteLatch(x) ==
  /\ cart.mbc = "mbc3" /\ CartStep
  /\ rtc' = [rtc EXCEPT !.latch = IF rtc.phase = 0 /\ x = 1 THEN Registers(Elapsed(rtc)) ELSE @,
                        !.latched = CASE x = 0 -> FALSE
                                      [] x = 1 /\ rtc.phase = 0 -> TRUE
                                      [] OTHER -> @,
                        !.phase = x]
  /\ UNCHANGED <<cart, eram, disk, now>>

(* A register is stored into what the clock shows, latched or not, and the  *)
(* clock goes on from there.                                                *)
WriteClock_KeepsBase(x) ==
  LET regs == [View(rtc) EXCEPT ![cart.bank - 7] = x]
  IN  /\ ClockSelected /\ CartStep
      /\ rtc' = [rtc EXCEPT !.halt = (regs[5] \div 64) % 2 = 1, !.offset = Seconds(regs), !.latch = regs]
      /\ UNCHANGED <<cart, eram, disk, now>>
WriteClock(x) ==
  LET regs == [View(rtc) EXCEPT ![cart.bank - 7] = x]
  IN  /\ ClockSelected /\ CartStep
      /\ rtc' = [rtc EXCEPT !.halt = (regs[5] \div 64) % 2 = 1, !.offset = Seconds(regs),
                            !.base = now, !.latch = regs]
      /\ UNCHANGED <<cart, eram, disk, now>>
WriteRam(x) ==
  /\ ~ClockSelected /\ CartStep
  /\ eram' = IF cart.on /\ RamBank \in DOMAIN eram
             THEN [eram EXCEPT ![RamBank] = IF cart.mbc = "mbc2" THEN x % 16 ELSE x] ELSE eram
  /\ UNCHANGED <<cart, rtc, disk, now>>

Pass(s) ==
  /\ CartStep
  /\ now' = now + s
  /\ UNCHANGED <<cart, eram, rtc, disk>>

(***************************************************************************)
(* Power: save_state of the frontend writes both files when it exits, and  *)
(* load_game reads them after Mmu::load has reset the cartridge.           *)
(***************************************************************************)
RtcData == [none |-> FALSE, offset |-> Elapsed(rtc), base |-> rtc.base, halt |-> rtc.halt,
            latched |-> rtc.latched, latch |-> [n \in 1..4 |-> rtc.latch[n]]]
\* the fifth latched register comes back as the flag byte without its bit 0
LoadRtcData(file) ==
  [offset |-> file.offset, base |-> file.base, halt |-> file.halt, latched |-> file.latched,
   latch |-> [n \in 1..5 |-> IF n < 5 THEN file.latch[n] ELSE IF file.latched THEN 2 ELSE 0], phase |-> 0]
PowerOff ==
  /\ disk = [sav |-> NoFile, rtc |-> NoFile] /\ CartStep
  /\ disk' = [sav |-> [none |-> FALSE, ram |-> eram], rtc |-> RtcData]
  /\ cart' = Fresh(cart)
  /\ eram' = FreshRam(cart)
  /\ rtc' = FreshClock
  /\ UNCHANGED now
PowerOn ==
  /\ ~disk.sav.none /\ CartStep
  /\ eram' = disk.sav.ram
  /\ rtc' = IF cart.mbc = "mbc3" THEN LoadRtcData(disk.rtc) ELSE rtc
  /\ disk' = [sav |-> NoFile, rtc |-> NoFile]
  /\ UNCHANGED <<cart, now>>

CartNext ==
  \/ \E x \in {0, 10, 26} : WriteEnable(x)
  \/ \E x \in Selections : WriteRomBank(x) \/ WriteHigh(x) \/ WriteRamBank(x) \/ WriteMode(x)
  \/ \E x \in {0, 1, 2} : WriteLatch(x)
  \/ \E x \in ClockBytes : WriteClock(x)
  \/ \E x \in Cells : WriteRam(x)
  \/ \E s \in Wait : Pass(s)
  \/ PowerOff
  \/ PowerOn

CartSpec == CartInit /\ [][CartNext]_cartVars

\* the CPU sees banks the ROM has and, but for MBC5, never bank 0 twice
BanksMapped == RomBank < cart.roms /\ LowerBank < cart.roms /\ (cart.mbc # "mbc5" => RomBank # 0)

\* a RAM bank changes by a store while RAM is enabled, and reads it back
StoresLand ==
  \A b \in DOMAIN eram :
    eram'[b] # eram[b] =>
      /\ cart.on /\ ~ClockSelected
      /\ (cart.mbc = "mbc2" => ReadRam' = 240 + eram'[b]) /\ (cart.mbc # "mbc2" => ReadRam' = eram'[b])

\* the battery brings RAM back, and the clock not before the time it saved
BatteryReturns == eram' = disk.sav.ram /\ (cart.mbc = "mbc3" => Elapsed(rtc)' >= disk.rtc.offset)

\* a store moves the clock by the difference of one register, whose excess
\* carries into the next ones, from the time of the calendar it shows; it runs
\* on unless the halt bit is stored, or is in the latched copy stored over
Calendar == PerMinute * PerHour * PerDay * Days
Unit == <<1, PerMinute, PerMinute * PerHour, PerMinute * PerHour * PerDay,
          PerMinute * PerHour * PerDay * (Days \div 2)>>
Fits(k, x) == LowBits(k, x) < <<PerMinute, PerHour, PerDay, Days, 2>>[k]
ClockSet(x) ==
  LET k == cart.bank - 7
      shown == View(rtc)
      flags == IF k = 5 THEN x ELSE IF rtc.latched THEN shown[5] ELSE 0
  IN  /\ ~rtc.latched => Seconds(shown) = Elapsed(rtc) % Calendar
      /\ Elapsed(rtc)' = Seconds(shown) + Unit[k] * (LowBits(k, x) - LowBits(k, shown[k]))
      /\ rtc.latched \/ Fits(k, x) => \A n \in (1..4) \ {k} : View(rtc)'[n] = shown[n]
      /\ rtc'.halt <=> (flags \div 64) % 2 = 1

\* the clock keeps the host's time unless it is halted or set, and a latched
\* view stands still
ClockGoesOn ==
  /\ Elapsed(rtc)' - Elapsed(rtc) = (IF rtc.halt THEN 0 ELSE now' - now)
  /\ rtc'.halt = rtc.halt
  /\ rtc.latched /\ rtc'.latched /\ rtc'.phase = rtc.phase => View(rtc)' = View(rtc)
ClockKeeps ==
  /\ (\E x \in ClockBytes : WriteClock(x)) \/ ClockGoesOn
  /\ \A x \in ClockBytes : WriteClock(x) => ClockSet(x)

(* Whatever the registers hold, the CPU sees banks the ROM has; RAM changes *)
(* only by a store that reads back; the battery brings RAM back; the clock  *)
(* keeps the host's time whatever else is banked, written or latched, and a *)
(* power cycle never sets it back.  A store of any byte into one of its     *)
(* registers moves it by that register alone, a number too large for the    *)
(* register (60 to 63 seconds or minutes, 24 to 31 hours) by carrying into  *)
(* the next.  It also drops the days' carry, and starts a halted clock      *)
(* unless it stores the halt bit: the registers of a clock that is not      *)
(* latched come without it (rtc_regs_from_seconds).                         *)
CartridgeKeeps ==
  [][cartSteps' # cartSteps =>
       /\ BanksMapped'
       /\ disk' = disk => StoresLand /\ ClockKeeps
       /\ disk.sav # NoFile /\ disk'.sav = NoFile => BatteryReturns]_cartVars
=============================================================================

------------------------------- MODULE GbTimer -------------------------------
(***************************************************************************)
(* The DIV/TIMA timer of the Game Boy, as Mmu (src/core/mmu.cpp) keeps it. *)
(*                                                                         *)
(* EmulatorCore::step_frame runs one CPU instruction, whose bus writes     *)
(* reach the timer registers at once, and then calls Mmu::step with the    *)
(* cycles the instruction took.  Here the two halves are told apart by     *)
(* owed, the cycles Mmu::step has still to run: the CPU acts when owed is  *)
(* 0, and each Cycle is one iteration of the loop in Mmu::step.            *)
(*                                                                         *)
(* The registers keep the source's widths by parameter: TimaMax is 255 and *)
(* DivModulus 65536 in the code.  Only bits 3, 5, 7 and 9 of the divider   *)
(* matter to the timer, so DivModulus may be any multiple of 1024.         *)
(***************************************************************************)
EXTENDS Integers

CONSTANTS
    DivModulus,     \* div_counter_ is kept modulo this (65536)
    TimaMax,        \* largest value of tima_ and tma_ (255)
    InstrCycles     \* what Cpu::step may return

ASSUME DivAssumption == DivModulus \in Nat \ {0} /\ DivModulus % 1024 = 0
ASSUME TimaAssumption == TimaMax \in Nat \ {0}
ASSUME CyclesAssumption == InstrCycles \subseteq Nat \ {0}

VARIABLES
    div,        \* div_counter_
    tima,       \* tima_
    tma,        \* tma_
    tac,        \* tac_ & 7
    reload,     \* tima_reload_delay_ while tima_reload_pending_, 0 otherwise
    irq,        \* bit 2 of the interrupt flags
    owed,       \* cycles Mmu::step has still to run
    wrote,      \* timer registers the current instruction has written
    age         \* history: cycles since TIMA last overflowed by counting,
                \* NoAge when a register has been written since

vars == <<div, tima, tma, tac, reload, irq, owed, wrote, age>>

-----------------------------------------------------------------------------
ReloadDelay_FourMachineCycles == 16
ReloadDelay == 4
NoAge == -1

Tacs == 0..7
Enabled(k) == k >= 4

(* The divider counts Period(k) cycles between two falls of TAC's bit.     *)
Period(k) == CASE k % 4 = 0 -> 1024
               [] k % 4 = 1 -> 16
               [] k % 4 = 2 -> 64
               [] OTHER -> 256

(* The divider bit TAC selects, seen through TAC's enable bit.             *)
Signal(d, k) == Enabled(k) /\ 2 * (d % Period(k)) >= Period(k)

Edge(d, k, d2, k2) == Signal(d, k) /\ ~Signal(d2, k2)

(* What timer_tick, called on an edge, leaves in TIMA and in the reload.   *)
Counts(edge) == edge /\ reload = 0
Overflows_OneEarly(edge) == Counts(edge) /\ tima + 1 >= TimaMax
Overflows(edge) == Counts(edge) /\ tima = TimaMax
TimaAfter_NeverWraps(edge) == IF Counts(edge) THEN tima + 1 ELSE tima
TimaAfter(edge) == IF Overflows(edge) THEN 0
                   ELSE IF Counts(edge) THEN tima + 1 ELSE tima
ReloadAfter(edge) == IF Overflows(edge) THEN ReloadDelay ELSE reload

-----------------------------------------------------------------------------
Init ==
    /\ div = 0 /\ tima = 0 /\ tma = 0 /\ tac = 0
    /\ reload = 0 /\ irq = FALSE
    /\ owed = 0 /\ wrote = {} /\ age = NoAge

(* One iteration of Mmu::step.  An overflow in this cycle already spends   *)
(* the first of its four cycles here.                                      *)
Cycle ==
    /\ owed > 0
    /\ owed' = owed - 1
    /\ div' = (div + 1) % DivModulus
    /\ LET edge == Edge(div, tac, div', tac)
           left == ReloadAfter(edge)
       IN  /\ reload' = IF left > 0 THEN left - 1 ELSE 0
           /\ tima' = IF left = 1 THEN tma ELSE TimaAfter(edge)
           /\ irq' = (irq \/ left = 1)
           /\ age' = IF Overflows(edge) THEN 0
                     ELSE IF age = NoAge THEN NoAge ELSE age + 1
    /\ UNCHANGED <<tma, tac, wrote>>

(* An instruction writes one byte, or a word: two adjacent addresses.      *)
Writes(reg) ==
    /\ owed = 0
    /\ \/ wrote = {}
       \/ wrote \in {{reg - 1}, {reg + 1}}
    /\ wrote' = wrote \cup {reg}
    /\ age' = NoAge

WriteDiv ==
    /\ Writes(4)
    /\ div' = 0
    /\ tima' = TimaAfter(Edge(div, tac, 0, tac))
    /\ reload' = ReloadAfter(Edge(div, tac, 0, tac))
    /\ UNCHANGED <<tma, tac, irq, owed>>

WriteTima_KeepsReload(v) ==
    /\ Writes(5)
    /\ tima' = v
    /\ UNCHANGED <<div, tma, tac, reload, irq, owed>>
WriteTima(v) ==
    /\ Writes(5)
    /\ tima' = v
    /\ reload' = 0
    /\ UNCHANGED <<div, tma, tac, irq, owed>>

WriteTma(v) ==
    /\ Writes(6)
    /\ tma' = v
    /\ UNCHANGED <<div, tima, tac, reload, irq, owed>>

WriteTac(k) ==
    /\ Writes(7)
    /\ tac' = k
    /\ tima' = TimaAfter(Edge(div, tac, div, k))
    /\ reload' = ReloadAfter(Edge(div, tac, div, k))
    /\ UNCHANGED <<div, tma, irq, owed>>

(* The CPU dispatches the interrupt, or clears its flag by writing IF.     *)
Acknowledge ==
    /\ owed = 0 /\ irq
    /\ irq' = FALSE
    /\ UNCHANGED <<div, tima, tma, tac, reload, owed, wrote, age>>

(* The instruction ends: no instruction that writes takes under 8 cycles.  *)
Retire(n) ==
    /\ owed = 0
    /\ wrote # {} => n >= 8
    /\ owed' = n
    /\ wrote' = {}
    /\ UNCHANGED <<div, tima, tma, tac, reload, irq, age>>

Next ==
    \/ Cycle
    \/ WriteDiv
    \/ \E v \in 0..TimaMax : WriteTima(v) \/ WriteTma(v)
    \/ \E k \in Tacs : WriteTac(k)
    \/ Acknowledge
    \/ \E n \in InstrCycles : Retire(n)

Spec == Init /\ [][Next]_vars

-----------------------------------------------------------------------------
TypeOK ==
    /\ div \in 0..(DivModulus - 1)
    /\ tima \in 0..TimaMax /\ tma \in 0..TimaMax /\ tac \in Tacs
    /\ reload \in 0..ReloadDelay
    /\ irq \in BOOLEAN
    /\ owed \in Nat
    /\ wrote \in SUBSET (4..7)
    /\ age \in Nat \cup {NoAge}

(* While a reload is pending TIMA reads 0, and the reload is over before   *)
(* the divider can present another falling edge, whatever the CPU writes   *)
(* meanwhile: the window never swallows a tick.                            *)
ReloadWindow ==
    reload > 0 =>
        /\ tima = 0
        /\ Enabled(tac) => reload < Period(tac) - (div % Period(tac))

(* Every falling edge of the selected bit counts: timer_tick's early       *)
(* return for a pending reload never drops one (mmu.cpp:251).              *)
NoTickDropped == [][Signal(div, tac) /\ ~Signal(div', tac') => reload = 0]_vars

(* Left alone, TIMA overflows every (TimaMax + 1 - TMA) * period cycles to *)
(* the cycle: neither the reload delay nor the glitch ticks of earlier     *)
(* writes leave a drift (Mmu::step, timer_tick).                           *)
ExactPeriod ==
    [][ age > 0 /\ age' = 0 =>
          age + 1 = (TimaMax + 1 - tma) * Period(tac) ]_vars

(* The timer requests its interrupt only in the cycle that copies TMA into *)
(* TIMA, and a reload that was not cancelled by a write to TIMA is never   *)
(* abandoned without that request.                                         *)
RequestIffReload ==
    [][ /\ ~irq /\ irq' => reload = 1 /\ tima' = tma
        /\ reload > 0 /\ reload' = 0 => irq' \/ 5 \in wrote' ]_vars
=============================================================================

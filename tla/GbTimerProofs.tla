---------------------------- MODULE GbTimerProofs ----------------------------
(***************************************************************************)
(* Proofs about GbTimer for every width of TIMA, every divider width and   *)
(* every set of instruction timings the assumptions allow.                 *)
(***************************************************************************)
EXTENDS GbTimer, TLAPS

(* The phase of the divider under the bit TAC selects.                     *)
Phase(d, k) == d % Period(k)

-----------------------------------------------------------------------------
(* TAC selects one of four periods, and the phase stays below it.          *)
LEMMA PhaseBounds ==
    ASSUME NEW d \in Nat, NEW k \in Tacs
    PROVE  /\ Period(k) \in {16, 64, 256, 1024}
           /\ Phase(d, k) \in 0..(Period(k) - 1)
           /\ Phase(0, k) = 0
BY DEF Phase, Period, Tacs

(* One cycle advances the phase by one and wraps it at the period, because *)
(* every period divides the modulus of the divider.                        *)
LEMMA PhaseStep ==
    ASSUME NEW d \in 0..(DivModulus - 1), NEW k \in Tacs
    PROVE  /\ (d + 1) % DivModulus \in 0..(DivModulus - 1)
           /\ Phase((d + 1) % DivModulus, k) =
                IF Phase(d, k) = Period(k) - 1 THEN 0 ELSE Phase(d, k) + 1
<1>1. (d + 1) % DivModulus = IF d = DivModulus - 1 THEN 0 ELSE d + 1
  BY DivAssumption
<1>2. (d + 1) % DivModulus \in 0..(DivModulus - 1)
  BY <1>1, DivAssumption
<1>3. \A p \in {16, 64, 256, 1024} :
        ((d + 1) % DivModulus) % p = IF d % p = p - 1 THEN 0 ELSE (d % p) + 1
  BY <1>1, DivAssumption
<1> QED  BY <1>2, <1>3, PhaseBounds DEF Phase

(* A phase is at least as far from its period as the lowest timer bit, so  *)
(* no bit falls sooner than bit 3 could.                                   *)
LEMMA PhaseDistance ==
    ASSUME NEW d \in Nat, NEW k \in Tacs
    PROVE  /\ Period(k) - Phase(d, k) >= 16 - (d % 16)
           /\ Phase(d, k) % 16 = d % 16
<1>1. \A p \in {16, 64, 256, 1024} :
        p - (d % p) >= 16 - (d % 16) /\ (d % p) % 16 = d % 16
  <2>1. (d % 16) % 16 = d % 16
    OBVIOUS
  <2>2. 64 - (d % 64) >= 16 - (d % 16) /\ (d % 64) % 16 = d % 16
    OBVIOUS
  <2>3. 256 - (d % 256) >= 16 - (d % 16) /\ (d % 256) % 16 = d % 16
    OBVIOUS
  <2>4. 1024 - (d % 1024) >= 16 - (d % 16) /\ (d % 1024) % 16 = d % 16
    OBVIOUS
  <2> QED  BY <2>1, <2>2, <2>3, <2>4
<1> QED  BY <1>1, PhaseBounds DEF Phase

(* The selected bit falls exactly when its phase wraps.                    *)
LEMMA EdgeAtWrap ==
    ASSUME NEW d \in 0..(DivModulus - 1), NEW k \in Tacs
    PROVE  Edge(d, k, (d + 1) % DivModulus, k) <=>
             Enabled(k) /\ Phase(d, k) = Period(k) - 1
<1>1. d \in Nat
  BY DivAssumption
<1> QED  BY <1>1, PhaseBounds, PhaseStep DEF Edge, Signal, Phase

(* Just after a fall of bit 3 no selected bit rises for five cycles.       *)
LEMMA StaysLow ==
    ASSUME NEW d \in 0..(DivModulus - 1), NEW k \in Tacs,
           d % 16 <= 3, ~Signal(d, k)
    PROVE  /\ ((d + 1) % DivModulus) % 16 = (d % 16) + 1
           /\ ~Signal((d + 1) % DivModulus, k)
<1>1. d \in Nat /\ (d + 1) % DivModulus \in Nat
  BY DivAssumption
<1>2. Phase(d, 1) = d % 16 /\ 1 \in Tacs /\ Period(1) = 16
  BY DEF Phase, Period, Tacs
<1>3. ((d + 1) % DivModulus) % 16 = (d % 16) + 1
  BY <1>1, <1>2, PhaseStep DEF Phase
<1>4. Phase((d + 1) % DivModulus, k) % 16 = (d % 16) + 1
  BY <1>1, <1>3, PhaseDistance
<1>5. 2 * Phase(d, k) < Period(k) \/ ~Enabled(k)
  BY <1>1, PhaseBounds DEF Signal, Phase
<1>6. 2 * Phase((d + 1) % DivModulus, k) < Period(k) \/ ~Enabled(k)
  BY <1>1, <1>4, <1>5, PhaseBounds, PhaseStep
<1> QED  BY <1>1, <1>3, <1>6, PhaseBounds DEF Signal, Phase

-----------------------------------------------------------------------------
LEMMA InitTypeOK == Init => TypeOK
<1>1. 0 \in 0..(DivModulus - 1) /\ 0 \in 0..TimaMax
  BY TimaAssumption, DivAssumption
<1> SUFFICES ASSUME Init PROVE TypeOK
  OBVIOUS
<1> USE DEF Init
<1>2. tac \in Tacs /\ reload \in 0..ReloadDelay /\ owed \in Nat
  BY DEF Tacs, ReloadDelay
<1>3. irq \in BOOLEAN /\ wrote \in SUBSET (4..7) /\ age \in {NoAge}
  OBVIOUS
<1> QED  BY <1>1, <1>2, <1>3 DEF TypeOK

LEMMA StepTypeOK == TypeOK /\ [Next]_vars => TypeOK'
<1> SUFFICES ASSUME TypeOK, [Next]_vars PROVE TypeOK'
  OBVIOUS
<1> USE TimaAssumption, DivAssumption, CyclesAssumption
    DEF TypeOK, Tacs, ReloadDelay, NoAge
<1>a. \A e \in BOOLEAN :
        TimaAfter(e) \in 0..TimaMax /\ ReloadAfter(e) \in 0..ReloadDelay
  BY DEF TimaAfter, ReloadAfter, Overflows, Counts
<1>b. \A d, k, d2, k2 : Edge(d, k, d2, k2) \in BOOLEAN
  BY DEF Edge, Signal, Enabled
<1>1. CASE Cycle
  BY <1>1, <1>a, <1>b DEF Cycle
<1>2. CASE WriteDiv
  BY <1>2, <1>a, <1>b DEF WriteDiv, Writes
<1>3. ASSUME NEW v \in 0..TimaMax, WriteTima(v) \/ WriteTma(v)
      PROVE  TypeOK'
  <2>1. CASE WriteTima(v)
    BY <2>1 DEF WriteTima, Writes
  <2>2. CASE WriteTma(v)
    BY <2>2 DEF WriteTma, Writes
  <2> QED  BY <1>3, <2>1, <2>2
<1>4. ASSUME NEW k \in Tacs, WriteTac(k)
      PROVE  TypeOK'
  BY <1>4, <1>a, <1>b DEF WriteTac, Writes
<1>5. CASE Acknowledge
  BY <1>5 DEF Acknowledge
<1>6. ASSUME NEW n \in InstrCycles, Retire(n)
      PROVE  TypeOK'
  BY <1>6 DEF Retire
<1>7. CASE UNCHANGED vars
  BY <1>7 DEF vars
<1> QED  BY <1>1, <1>2, <1>3, <1>4, <1>5, <1>6, <1>7 DEF Next

(* Type correctness: every register keeps its width.                       *)
THEOREM TypeCorrect == Spec => []TypeOK
BY InitTypeOK, StepTypeOK, PTL DEF Spec

-----------------------------------------------------------------------------
(* Why a pending reload meets no falling edge.  It began with the divider  *)
(* at a fall of bit 3 (or at 0), the signal being low since; or in a write *)
(* to TAC by the instruction still running, whose eight cycles at least    *)
(* outlast it; or in such a write with those cycles already under way.     *)
Settled ==
    reload > 0 =>
        \/ (div % 16) + reload <= 4 /\ ~Signal(div, tac)
        \/ owed = 0 /\ 7 \in wrote
        \/ owed >= reload

(* An age is only kept while the timer counts.                             *)
AgeEnabled == age # NoAge => Enabled(tac)

(* The age counts the ticks since the overflow and the phase of the next.  *)
AgeLinear ==
    age # NoAge =>
        age = ((IF reload > 0 THEN 0 ELSE tima - tma) * Period(tac))
              + (div % Period(tac))

IInv == TypeOK /\ ReloadWindow /\ Settled /\ AgeEnabled /\ AgeLinear

-----------------------------------------------------------------------------
(* The loop of Mmu::step keeps the invariant.                              *)
LEMMA CycleKeeps ==
    ASSUME IInv, Cycle
    PROVE  /\ Edge(div, tac, div', tac') => reload = 0
           /\ (ReloadWindow /\ Settled /\ AgeEnabled /\ AgeLinear)'
<1> USE DEF IInv
<1> DEFINE p == Period(tac)
           f == Phase(div, tac)
           edge == Edge(div, tac, div', tac)
<1>1. /\ div \in 0..(DivModulus - 1) /\ div \in Nat /\ tac \in Tacs
      /\ tima \in 0..TimaMax /\ tma \in 0..TimaMax /\ TimaMax \in Nat
      /\ reload \in 0..4 /\ owed \in Nat /\ age \in Nat \cup {-1}
  BY DivAssumption, TimaAssumption DEF TypeOK, ReloadDelay, NoAge
<1>2. /\ owed > 0 /\ owed' = owed - 1
      /\ div' = (div + 1) % DivModulus
      /\ tac' = tac /\ tma' = tma
  BY DEF Cycle
<1>3. /\ p \in {16, 64, 256, 1024} /\ f \in 0..(p - 1)
      /\ div' \in 0..(DivModulus - 1) /\ div' \in Nat
      /\ Phase(div', tac) = IF f = p - 1 THEN 0 ELSE f + 1
  BY <1>1, <1>2, PhaseBounds, PhaseStep
<1>4. edge <=> Enabled(tac) /\ f = p - 1
  BY <1>1, <1>2, EdgeAtWrap
<1>5. edge => reload = 0
  BY <1>1, <1>3, <1>4 DEF ReloadWindow, Phase
<1>6. CASE edge /\ tima = TimaMax
  <2>1. reload' = 3 /\ tima' = 0 /\ age' = 0
    BY <1>5, <1>6 DEF Cycle, ReloadAfter, TimaAfter, Overflows, Counts,
       ReloadDelay
  <2>2. Phase(div', tac) = 0 /\ div' % 16 = 0
    <3>1. Phase(div', tac) = 0
      BY <1>3, <1>4, <1>6
    <3>2. Phase(div', tac) % 16 = div' % 16
      BY <1>1, <1>3, PhaseDistance
    <3> QED  BY <3>1, <3>2
  <2>3. ReloadWindow'
    BY <2>1, <2>2, <1>2, <1>3 DEF ReloadWindow, Phase
  <2>4. Settled'
    BY <2>1, <2>2, <1>2, <1>6 DEF Settled, Edge
  <2>5. AgeEnabled' /\ AgeLinear'
    BY <2>1, <2>2, <1>2, <1>3, <1>4, <1>6
    DEF AgeEnabled, AgeLinear, Phase
  <2> QED  BY <2>3, <2>4, <2>5, <1>2, <1>5
<1>7. CASE edge /\ tima # TimaMax
  <2>1. /\ reload' = 0 /\ tima' = tima + 1
        /\ age' = IF age = -1 THEN -1 ELSE age + 1
    BY <1>5, <1>7 DEF Cycle, ReloadAfter, TimaAfter, Overflows, Counts, NoAge
  <2>2. age # -1 => age' = ((tima' - tma') * p) + Phase(div', tac)
    BY <2>1, <1>1, <1>2, <1>3, <1>4, <1>5, <1>7
    DEF AgeLinear, Phase, NoAge
  <2> QED  BY <2>1, <2>2, <1>1, <1>2, <1>5
           DEF ReloadWindow, Settled, AgeEnabled, AgeLinear, NoAge, Phase
<1>8. CASE ~edge
  <2>1. /\ reload' = IF reload > 0 THEN reload - 1 ELSE 0
        /\ tima' = IF reload = 1 THEN tma ELSE tima
        /\ age' = IF age = -1 THEN -1 ELSE age + 1
    BY <1>8 DEF Cycle, ReloadAfter, TimaAfter, Overflows, Counts, NoAge
  <2>2. Enabled(tac) => Phase(div', tac) = f + 1
    BY <1>3, <1>4, <1>8
  <2>3. ReloadWindow'
    BY <2>1, <2>2, <1>1, <1>2, <1>3 DEF ReloadWindow, Phase
  <2>4. Settled'
    <3> SUFFICES ASSUME reload' > 0 PROVE Settled'
      BY DEF Settled
    <3>1. reload' = reload - 1 /\ reload > 1
      BY <2>1, <1>1
    <3>2. CASE (div % 16) + reload <= 4 /\ ~Signal(div, tac)
      <4>1. div % 16 <= 3 /\ div % 16 \in Nat
        BY <3>1, <3>2, <1>1
      <4>2. div' % 16 = (div % 16) + 1 /\ ~Signal(div', tac)
        BY <4>1, <3>2, <1>1, <1>2, StaysLow
      <4> QED  BY <4>1, <4>2, <3>1, <3>2, <1>1, <1>2 DEF Settled
    <3>3. CASE owed >= reload
      BY <3>1, <3>3, <1>1, <1>2 DEF Settled
    <3> QED  BY <3>1, <3>2, <3>3, <1>1, <1>2 DEF Settled
  <2>5. AgeEnabled'
    BY <2>1, <1>2 DEF AgeEnabled, NoAge
  <2>6. AgeLinear'
    <3> SUFFICES ASSUME age # -1 PROVE AgeLinear'
      BY <2>1 DEF AgeLinear, NoAge
    <3>1. Phase(div', tac) = f + 1 /\ age' = age + 1 /\ age \in Nat
      BY <2>1, <2>2, <1>1 DEF AgeEnabled, NoAge
    <3>2. age = ((IF reload > 0 THEN 0 ELSE tima - tma) * p) + f
      BY DEF AgeLinear, Phase, NoAge
    <3>3. (IF reload' > 0 THEN 0 ELSE tima' - tma')
            = (IF reload > 0 THEN 0 ELSE tima - tma)
      BY <2>1, <1>1, <1>2
    <3>4. age' = ((IF reload' > 0 THEN 0 ELSE tima' - tma') * p)
                      + Phase(div', tac)
      BY <3>1, <3>2, <3>3, <1>1, <1>3
    <3> QED  BY <3>4, <1>2 DEF AgeLinear, Phase
  <2> QED  BY <2>3, <2>4, <2>5, <2>6, <1>2, <1>5
<1> QED  BY <1>6, <1>7, <1>8

(* A write by the CPU keeps the invariant, and the tick it may cause is    *)
(* never one that a pending reload drops.                                  *)
LEMMA WriteKeeps ==
    ASSUME IInv, owed = 0,
           \/ WriteDiv
           \/ \E v \in 0..TimaMax : WriteTima(v) \/ WriteTma(v)
           \/ \E k \in Tacs : WriteTac(k)
    PROVE  /\ Signal(div, tac) /\ ~Signal(div', tac') => reload = 0
           /\ (ReloadWindow /\ Settled /\ AgeEnabled /\ AgeLinear)'
<1> USE DEF IInv
<1>1. /\ div \in 0..(DivModulus - 1) /\ div \in Nat /\ tac \in Tacs
      /\ tima \in 0..TimaMax /\ reload \in 0..4
  BY DivAssumption DEF TypeOK, ReloadDelay
<1>2. reload > 0 =>
        \/ (div % 16) + reload <= 4 /\ ~Signal(div, tac)
        \/ 7 \in wrote
  BY <1>1 DEF Settled
<1>3. (AgeEnabled /\ AgeLinear)'
  BY DEF WriteDiv, WriteTima, WriteTma, WriteTac, Writes,
         AgeEnabled, AgeLinear
<1>4. CASE WriteDiv
  <2>1. ~(7 \in wrote) /\ div' = 0 /\ tac' = tac /\ owed' = 0
    BY <1>4 DEF WriteDiv, Writes
  <2>2. Phase(0, tac) = 0 /\ Period(tac) >= 16 /\ 0 % 16 = 0
    BY <1>1, PhaseBounds
  <2>3. ~Signal(0, tac)
    BY <2>2, <1>1, PhaseBounds DEF Signal, Phase
  <2>4. Signal(div, tac) => reload = 0
    BY <1>1, <1>2, <2>1
  <2>5. reload' \in 0..4 /\ (reload' > 0 => tima' = 0)
    BY <1>1, <1>4 DEF WriteDiv, ReloadAfter, TimaAfter, Overflows, Counts,
       ReloadDelay, ReloadWindow
  <2>6. div' % 16 = 0 /\ ~Signal(div', tac') /\ Phase(div', tac') = 0
    BY <2>1, <2>2, <2>3
  <2>7. ReloadWindow'
    BY <2>1, <2>2, <2>5, <2>6, <1>1, PhaseBounds DEF ReloadWindow, Phase
  <2>8. Settled'
    BY <2>5, <2>6 DEF Settled
  <2> QED  BY <2>4, <2>7, <2>8, <1>3
<1>5. ASSUME NEW v \in 0..TimaMax, WriteTima(v)
      PROVE  (ReloadWindow /\ Settled)' /\ tac' = tac /\ div' = div
  BY <1>5 DEF WriteTima, ReloadWindow, Settled
<1>6. ASSUME NEW v \in 0..TimaMax, WriteTma(v)
      PROVE  (ReloadWindow /\ Settled)' /\ tac' = tac /\ div' = div
  BY <1>6 DEF WriteTma, Writes, ReloadWindow, Settled
<1>7. ASSUME NEW k \in Tacs, WriteTac(k)
      PROVE  /\ (ReloadWindow /\ Settled)'
             /\ Signal(div, tac) => reload = 0
  <2>1. /\ ~(7 \in wrote) /\ 7 \in wrote' /\ div' = div /\ tac' = k
        /\ owed' = 0
    BY <1>7 DEF WriteTac, Writes
  <2>2. Signal(div, tac) => reload = 0
    BY <1>1, <1>2, <2>1
  <2>3. Settled'
    BY <2>1 DEF Settled
  <2>4. PICK e \in BOOLEAN : /\ e = Edge(div, tac, div, k)
                             /\ reload' = ReloadAfter(e)
                             /\ tima' = TimaAfter(e)
    BY <1>7 DEF WriteTac, Edge, Signal, Enabled
  <2>5. CASE Overflows(e)
    <3>1. reload' = 4 /\ tima' = 0 /\ ~Signal(div, k)
      BY <2>4, <2>5 DEF ReloadAfter, TimaAfter, ReloadDelay, Edge,
         Overflows, Counts
    <3>2. Enabled(k) => 2 * Phase(div, k) < Period(k)
      BY <3>1, <1>1, <1>7, PhaseBounds DEF Signal, Phase
    <3> QED  BY <3>1, <3>2, <2>1, <2>2, <2>3, <1>1, <1>7, PhaseBounds
             DEF ReloadWindow, Phase
  <2>6. CASE ~Overflows(e)
    <3>1. reload' = reload /\ (reload > 0 => tima' = tima)
      BY <2>4, <2>6 DEF ReloadAfter, TimaAfter, Counts
    <3>2. reload > 0 => (div % 16) + reload <= 4
      BY <1>2, <2>1
    <3>3. Period(k) - Phase(div, k) >= 16 - (div % 16)
      BY <1>1, <1>7, PhaseDistance
    <3>4. div % 16 \in Nat /\ Period(k) \in Nat /\ Phase(div, k) \in Nat
      BY <1>1, <1>7, PhaseBounds
    <3>5. reload > 0 => reload < Period(k) - Phase(div, k)
      BY <3>2, <3>3, <3>4, <1>1
    <3> QED  BY <3>1, <3>5, <2>1, <2>2, <2>3 DEF ReloadWindow, Phase
  <2> QED  BY <2>5, <2>6
<1> QED  BY <1>3, <1>4, <1>5, <1>6, <1>7

-----------------------------------------------------------------------------
LEMMA Initially == Init => IInv
<1> SUFFICES ASSUME Init PROVE IInv
  OBVIOUS
<1>1. TypeOK
  BY InitTypeOK
<1>2. reload = 0 /\ age = NoAge
  BY DEF Init
<1> QED  BY <1>1, <1>2
         DEF IInv, ReloadWindow, Settled, AgeEnabled, AgeLinear

(* Every step keeps the invariant and drops no tick.                       *)
LEMMA StepKeeps ==
    ASSUME IInv, [Next]_vars
    PROVE  /\ IInv'
           /\ Signal(div, tac) /\ ~Signal(div', tac') => reload = 0
<1>1. TypeOK'
  BY StepTypeOK DEF IInv
<1>2. CASE Cycle
  BY <1>1, <1>2, CycleKeeps DEF IInv, Edge
<1>3. CASE \/ WriteDiv
           \/ \E v \in 0..TimaMax : WriteTima(v) \/ WriteTma(v)
           \/ \E k \in Tacs : WriteTac(k)
  <2>1. owed = 0
    BY <1>3 DEF WriteDiv, WriteTima, WriteTma, WriteTac, Writes
  <2> QED  BY <1>1, <1>3, <2>1, WriteKeeps DEF IInv
<1>4. CASE Acknowledge \/ UNCHANGED vars
  BY <1>1, <1>4 DEF Acknowledge, vars, IInv,
     ReloadWindow, Settled, AgeEnabled, AgeLinear
<1>5. ASSUME NEW n \in InstrCycles, Retire(n)
      PROVE  /\ IInv'
             /\ Signal(div, tac) /\ ~Signal(div', tac') => reload = 0
  <2>1. /\ UNCHANGED <<div, tima, tma, tac, reload, age>>
        /\ owed = 0 /\ owed' = n /\ (wrote # {} => n >= 8)
    BY <1>5 DEF Retire
  <2>2. reload \in 0..4 /\ n \in Nat
    BY CyclesAssumption DEF IInv, TypeOK, ReloadDelay
  <2>3. Settled'
    BY <2>1, <2>2 DEF Settled, IInv
  <2> QED  BY <1>1, <2>1, <2>3
           DEF IInv, ReloadWindow, AgeEnabled, AgeLinear
<1> QED  BY <1>2, <1>3, <1>4, <1>5 DEF Next

THEOREM Invariance == Spec => []IInv
BY Initially, StepKeeps, PTL DEF Spec

(* The reload window is clean: TIMA reads 0 in it and it closes before the *)
(* next falling edge.                                                      *)
THEOREM WindowClean == Spec => []ReloadWindow
BY Invariance, PTL DEF IInv

(* Every falling edge of the selected bit is counted.                      *)
THEOREM TicksKept == Spec => NoTickDropped
<1>1. IInv /\ [Next]_vars =>
        [Signal(div, tac) /\ ~Signal(div', tac') => reload = 0]_vars
  BY StepKeeps
<1> QED  BY <1>1, Invariance, PTL DEF Spec, NoTickDropped

(* Between writes the overflows are exactly periodic.                      *)
THEOREM PeriodExact == Spec => ExactPeriod
<1>1. ASSUME IInv, [Next]_vars, age > 0, age' = 0
      PROVE  age + 1 = (TimaMax + 1 - tma) * Period(tac)
  <2>1. age \in Nat /\ TimaMax \in Nat /\ tma \in 0..TimaMax /\ tac \in Tacs
        /\ div \in 0..(DivModulus - 1) /\ div \in Nat
    BY <1>1, TimaAssumption, DivAssumption DEF IInv, TypeOK
  <2>2. CASE Cycle
    <3>1. Overflows(Edge(div, tac, div', tac))
      BY <1>1, <2>1, <2>2 DEF Cycle, NoAge
    <3>2. reload = 0 /\ tima = TimaMax /\ Edge(div, tac, div', tac)
      BY <3>1 DEF Overflows, Counts
    <3>3. div % Period(tac) = Period(tac) - 1
      BY <2>1, <2>2, <3>2, EdgeAtWrap DEF Cycle, Phase
    <3>4. Period(tac) \in {16, 64, 256, 1024}
      BY <2>1, PhaseBounds
    <3>5. age = ((TimaMax - tma) * Period(tac)) + (Period(tac) - 1)
      <4>1. age # NoAge
        BY <2>1 DEF NoAge
      <4>2. age = ((tima - tma) * Period(tac)) + (div % Period(tac))
        BY <1>1, <3>2, <4>1 DEF IInv, AgeLinear
      <4> QED  BY <3>2, <3>3, <4>2
    <3> QED  BY <2>1, <3>4, <3>5
  <2>3. age' # age
    BY <1>1, <2>1
  <2>4. age' # NoAge
    BY <1>1 DEF NoAge
  <2> QED
    BY <1>1, <2>2, <2>3, <2>4
    DEF Next, vars, WriteDiv, WriteTima, WriteTma, WriteTac, Writes,
        Acknowledge, Retire
<1>2. IInv /\ [Next]_vars =>
        [age > 0 /\ age' = 0 =>
           age + 1 = (TimaMax + 1 - tma) * Period(tac)]_vars
  BY <1>1
<1> QED  BY <1>2, Invariance, PTL DEF Spec, ExactPeriod

(* The interrupt is requested with the reload, and with every reload that  *)
(* a write to TIMA has not cancelled.                                      *)
THEOREM RequestsMatchReloads == Spec => RequestIffReload
<1> DEFINE A == /\ ~irq /\ irq' => reload = 1 /\ tima' = tma
                /\ reload > 0 /\ reload' = 0 => irq' \/ 5 \in wrote'
<1>1. ASSUME IInv, [Next]_vars PROVE A
  <2>1. reload \in 0..4 /\ irq \in BOOLEAN
    BY <1>1 DEF IInv, TypeOK, ReloadDelay
  <2>2. CASE Cycle
    <3>1. PICK e \in BOOLEAN :
            /\ reload' = IF ReloadAfter(e) > 0 THEN ReloadAfter(e) - 1 ELSE 0
            /\ tima' = IF ReloadAfter(e) = 1 THEN tma ELSE TimaAfter(e)
            /\ irq' = (irq \/ ReloadAfter(e) = 1)
      BY <2>2 DEF Cycle, Edge, Signal, Enabled
    <3>2. ReloadAfter(e) \in {4, reload} /\ (reload > 0 => ReloadAfter(e) = reload)
      BY <2>1 DEF ReloadAfter, Overflows, Counts, ReloadDelay
    <3>3. /\ ReloadAfter(e) = 1 => reload = 1 /\ tima' = tma
          /\ reload > 0 /\ reload' = 0 => ReloadAfter(e) = 1
      BY <2>1, <3>1, <3>2
    <3>4. irq' = (irq \/ ReloadAfter(e) = 1)
      BY <3>1
    <3> QED  BY <3>3, <3>4, Zenon
  <2>3. CASE WriteDiv \/ \E k \in Tacs : WriteTac(k)
    BY <2>1, <2>3
    DEF WriteDiv, WriteTac, ReloadAfter, Overflows, Counts, ReloadDelay
  <2>4. CASE \E v \in 0..TimaMax : WriteTima(v) \/ WriteTma(v)
    BY <2>4 DEF WriteTima, WriteTma, Writes
  <2>5. CASE Acknowledge \/ UNCHANGED vars
    BY <2>5 DEF Acknowledge, vars
  <2>6. CASE \E n \in InstrCycles : Retire(n)
    BY <2>6 DEF Retire
  <2> QED  BY <1>1, <2>2, <2>3, <2>4, <2>5, <2>6 DEF Next
<1>2. IInv /\ [Next]_vars => [A]_vars
  BY <1>1
<1> QED  BY <1>2, Invariance, PTL DEF Spec, RequestIffReload
=============================================================================

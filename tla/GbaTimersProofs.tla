--------------------------- MODULE GbaTimersProofs ---------------------------
(***************************************************************************)
(* Proofs about GbaTimers for every number of timers, every width, every   *)
(* set of prescalers and batches of any length: the types; that a batch of *)
(* cycles is its cycles one by one (BatchExact); and that the cell shared  *)
(* by counter and reload never confuses the two (MirrorNotReload,          *)
(* StartsFresh).                                                           *)
(*                                                                         *)
(* Ticks and Tick are recursions over the timers, CycleByCycle one over    *)
(* the cycles.  What they compute is proved by induction, on a set of      *)
(* numbers (SetInduction), which a least counterexample gives; that a      *)
(* recursion has a solution at all is proved first (TicksRule, TickIsMore, *)
(* CyclesAreBatch).                                                        *)
(***************************************************************************)
EXTENDS GbaTimers, WellFoundedInduction, TLAPS

(***************************************************************************)
(* Numbers.                                                                *)
(***************************************************************************)
LEMMA LeastNatural ==
    ASSUME NEW S \in SUBSET Nat, S # {}
    PROVE  \E m \in S : \A k \in S : m <= k
<1> DEFINE R == OpToRel(<, Nat)
<1>1. IsWellFoundedOn(R, Nat)
  BY NatLessThanWellFounded
<1>2. R = {p \in Nat \X Nat : p[1] < p[2]}
  BY DEF OpToRel
<1> HIDE DEF R
<1>3. PICK m \in S : \A k \in S : ~ (<<k, m>> \in R)
  BY <1>1, WFMin
<1>4. ASSUME NEW k \in S PROVE m <= k
  <2>1. k \in Nat /\ m \in Nat /\ <<k, m>> \in Nat \X Nat
    OBVIOUS
  <2>2. ~ (k < m)
    BY <1>2, <1>3, <2>1
  <2> QED  BY <2>1, <2>2
<1> QED  BY <1>4

(* A set that holds 0 and with every number the next holds them all.       *)
LEMMA SetInduction ==
    ASSUME NEW S, 0 \in S, \A n \in Nat : n \in S => n + 1 \in S
    PROVE  Nat \subseteq S
<1> DEFINE T == Nat \ S
<1>1. SUFFICES ASSUME T # {} PROVE FALSE
  OBVIOUS
<1>2. PICK m \in T : \A k \in T : m <= k
  BY <1>1, LeastNatural
<1>3. m - 1 \in Nat /\ m - 1 \in S
  BY <1>2
<1> QED  BY <1>2, <1>3

LEMMA DivIs ==
    ASSUME NEW q \in Nat \ {0}, NEW x \in Int
    PROVE  x \div q \in Int /\ x % q \in 0..(q - 1) /\ x = q * (x \div q) + (x % q)
OBVIOUS

LEMMA Multiple ==
    ASSUME NEW q \in Nat \ {0}, NEW z \in Int, NEW e \in Int, e = q * z, -q < e, e < q
    PROVE  z = 0
<1>1. CASE z >= 1
  <2>1. q * (z - 1) >= 0
    BY <1>1
  <2>2. q * (z - 1) = q * z - q
    OBVIOUS
  <2> QED  BY <2>1, <2>2
<1>2. CASE z <= -1
  <2>1. q * (-1 - z) >= 0
    BY <1>2
  <2>2. q * (-1 - z) = -q - q * z
    OBVIOUS
  <2> QED  BY <2>1, <2>2
<1> QED  BY <1>1, <1>2

(* Quotient and remainder of the next number.                              *)
LEMMA DivNext ==
    ASSUME NEW q \in Nat \ {0}, NEW x \in Nat
    PROVE  /\ x \div q \in Nat /\ x % q \in 0..(q - 1)
           /\ (x + 1) \div q = (x \div q) + (IF x % q = q - 1 THEN 1 ELSE 0)
           /\ (x + 1) % q = IF x % q = q - 1 THEN 0 ELSE (x % q) + 1
<1> DEFINE a == x \div q
           r == x % q
           k == (x + 1) \div q
           m == (x + 1) % q
           b == IF r = q - 1 THEN a + 1 ELSE a
           s == IF r = q - 1 THEN 0 ELSE r + 1
<1>1. a \in Int /\ r \in 0..(q - 1) /\ x = q * a + r
  BY DivIs
<1>2. k \in Int /\ m \in 0..(q - 1) /\ x + 1 = q * k + m
  <2>1. x + 1 \in Int
    OBVIOUS
  <2> QED  BY <2>1, DivIs
<1>3. a \in Nat
  <2> HIDE DEF a, r
  <2>1. CASE a <= -1
    <3>1. q * (-1 - a) >= 0
      BY <1>1, <2>1
    <3>2. q * (-1 - a) = -q - q * a
      BY <1>1
    <3> QED  BY <1>1, <3>1, <3>2
  <2> QED  BY <1>1, <2>1
<1> HIDE DEF a, r, k, m
<1>4. b \in Int /\ s \in 0..(q - 1) /\ x + 1 = q * b + s
  <2>1. CASE r = q - 1
    <3>1. q * (a + 1) = q * a + q
      BY <1>1
    <3> QED  BY <1>1, <2>1, <3>1
  <2>2. CASE r # q - 1
    BY <1>1, <2>2
  <2> QED  BY <2>1, <2>2
<1> HIDE DEF b, s
<1>5. q * (b - k) = m - s
  <2>1. q * (b - k) = q * b - q * k
    BY <1>2, <1>4
  <2>2. q * b \in Int /\ q * k \in Int
    BY <1>2, <1>4
  <2> QED  BY <1>2, <1>4, <2>1, <2>2
<1>6. b - k = 0
  <2>1. b - k \in Int /\ m - s \in Int /\ -q < m - s /\ m - s < q
    BY <1>2, <1>4
  <2> HIDE DEF b
  <2> QED  BY <1>5, <2>1, Multiple
<1>7. k = b /\ m = s
  BY <1>2, <1>4, <1>5, <1>6
<1> QED  BY <1>1, <1>3, <1>7 DEF a, r, k, m, b, s

(***************************************************************************)
(* One timer: its counter and overflows, tick by tick.                     *)
(***************************************************************************)
LEMMA Shapes ==
    ASSUME TypeOK, NEW i \in Timers
    PROVE  /\ counter[i] \in Values /\ reload[i] \in Values /\ accum[i] \in Nat
           /\ Span(i) \in Nat \ {0} /\ Scale(i) \in Nat \ {0}
           /\ control[i].enable \in BOOLEAN /\ control[i].up \in BOOLEAN
           /\ control[i].irq \in BOOLEAN
           /\ i \in Nat
<1>1. counter[i] \in Values /\ reload[i] \in Values /\ accum[i] \in Nat
  BY DEF TypeOK
<1>2. Span(i) \in Nat \ {0}
  BY <1>1, ShapeAssumption DEF Span, Values
<1>3. control[i] \in Controls \cup {Stopped}
  BY DEF TypeOK
<1>4. (CHOOSE s \in DOMAIN Prescale : TRUE) \in DOMAIN Prescale
  BY ShapeAssumption
<1>5. Stopped \in [enable : BOOLEAN, up : BOOLEAN, irq : BOOLEAN,
                   scale : DOMAIN Prescale]
  BY <1>4 DEF Stopped
<1>6. control[i] \in [enable : BOOLEAN, up : BOOLEAN, irq : BOOLEAN,
                      scale : DOMAIN Prescale]
  BY <1>3, <1>5, ShapeAssumption
<1>7. Scale(i) \in Nat \ {0}
  BY <1>6, ShapeAssumption DEF Scale
<1>8. i \in Nat
  BY ShapeAssumption DEF Timers
<1> QED  BY <1>1, <1>2, <1>6, <1>7, <1>8

LEMMA NoTicks ==
    ASSUME TypeOK, NEW i \in Timers
    PROVE  OverflowsIn(i, 0) = 0 /\ CounterAfter(i, 0) = counter[i]
BY Shapes, ShapeAssumption DEF OverflowsIn, CounterAfter, Excess, Values

(* One more tick: an overflow and a reload from the last value, else one   *)
(* more on the counter.                                                    *)
LEMMA OneTick ==
    ASSUME TypeOK, NEW i \in Timers, NEW t \in Nat
    PROVE  /\ OverflowsIn(i, t) \in Nat /\ CounterAfter(i, t) \in Values
           /\ OverflowsIn(i, t + 1) =
                OverflowsIn(i, t)
                  + (IF CounterAfter(i, t) = Modulus - 1 THEN 1 ELSE 0)
           /\ CounterAfter(i, t + 1) =
                IF CounterAfter(i, t) = Modulus - 1 THEN reload[i]
                ELSE CounterAfter(i, t) + 1
<1> DEFINE e == Excess(i, t)
           q == Span(i)
<1>1. /\ counter[i] \in 0..(Modulus - 1) /\ reload[i] \in 0..(Modulus - 1)
      /\ q \in Nat \ {0} /\ q = Modulus - reload[i] /\ Modulus \in Nat
  BY Shapes, ShapeAssumption DEF Values, Span
<1>2. e \in Int /\ e = t - (Modulus - counter[i]) /\ Excess(i, t + 1) = e + 1
  BY <1>1 DEF Excess
<1> HIDE DEF e, q
<1>3. ASSUME e < 0
      PROVE  OverflowsIn(i, t) = 0 /\ CounterAfter(i, t) = counter[i] + t
  BY <1>3 DEF OverflowsIn, CounterAfter, e
<1>4. ASSUME e >= 0
      PROVE  /\ OverflowsIn(i, t) = 1 + (e \div q)
             /\ CounterAfter(i, t) = reload[i] + (e % q)
  BY <1>2, <1>4 DEF OverflowsIn, CounterAfter, e, q
<1>5. ASSUME e + 1 < 0
      PROVE  /\ OverflowsIn(i, t + 1) = 0
             /\ CounterAfter(i, t + 1) = counter[i] + (t + 1)
  BY <1>2, <1>5 DEF OverflowsIn, CounterAfter
<1>6. ASSUME e + 1 >= 0
      PROVE  /\ OverflowsIn(i, t + 1) = 1 + ((e + 1) \div q)
             /\ CounterAfter(i, t + 1) = reload[i] + ((e + 1) % q)
  BY <1>2, <1>6 DEF OverflowsIn, CounterAfter, q
<1>7. CASE e + 1 < 0
  BY <1>1, <1>2, <1>3, <1>5, <1>7 DEF Values
<1>8. CASE e = -1
  <2>1. (e + 1) \div q = 0 /\ (e + 1) % q = 0
    BY <1>1, <1>8
  <2>2. e < 0 /\ e + 1 >= 0
    BY <1>8
  <2> QED  BY <1>1, <1>2, <1>3, <1>6, <1>8, <2>1, <2>2 DEF Values
<1>9. CASE e >= 0
  <2>1. e \in Nat /\ e + 1 >= 0
    BY <1>2, <1>9
  <2>2. /\ e \div q \in Nat /\ e % q \in 0..(q - 1)
        /\ (e + 1) \div q = (e \div q) + (IF e % q = q - 1 THEN 1 ELSE 0)
        /\ (e + 1) % q = IF e % q = q - 1 THEN 0 ELSE (e % q) + 1
    BY <1>1, <2>1, DivNext
  <2> DEFINE a == e \div q
             r == e % q
             k == (e + 1) \div q
             m == (e + 1) % q
  <2> HIDE DEF a, r, k, m
  <2>3. /\ a \in Nat /\ r \in 0..(q - 1)
        /\ k = a + (IF r = q - 1 THEN 1 ELSE 0)
        /\ m = IF r = q - 1 THEN 0 ELSE r + 1
    BY <2>2 DEF a, r, k, m
  <2>4. /\ OverflowsIn(i, t) = 1 + a /\ CounterAfter(i, t) = reload[i] + r
        /\ OverflowsIn(i, t + 1) = 1 + k /\ CounterAfter(i, t + 1) = reload[i] + m
    BY <1>4, <1>6, <1>9, <2>1 DEF a, r, k, m
  <2> QED  BY <1>1, <2>3, <2>4 DEF Values
<1> QED  BY <1>2, <1>7, <1>8, <1>9

(***************************************************************************)
(* Ticks: a recursion over the timers.                                     *)
(***************************************************************************)
TicksBy(t, n, i) ==
    IF ~Runs(i) THEN 0
    ELSE IF control[i].up THEN OverflowsIn(i - 1, t[i - 1])
    ELSE (accum[i] + n) \div Scale(i)

(* What timer i gets depends on the timer below alone.                     *)
LEMMA Below ==
    ASSUME TypeOK, NEW n, NEW i \in Timers, NEW t, NEW u,
           i > 0 => t[i - 1] = u[i - 1]
    PROVE  TicksBy(t, n, i) = TicksBy(u, n, i)
<1>1. CASE i > 0
  BY <1>1 DEF TicksBy
<1>2. CASE ~ (i > 0)
  BY <1>2, Shapes DEF TicksBy, Runs
<1> QED  BY <1>1, <1>2

LEMMA TicksRule ==
    ASSUME TypeOK, NEW n
    PROVE  Ticks(n) = [i \in Timers |-> TicksBy(Ticks(n), n, i)]
<1> DEFINE Is(t, m) == t = [i \in 0..(m - 1) |-> TicksBy(t, n, i)]
           S == {m \in Nat : m <= N => \E t : Is(t, m)}
<1>1. 0 \in S
  <2>1. Is([i \in 0..(0 - 1) |-> 0], 0)
    OBVIOUS
  <2> QED  BY <2>1
<1>2. ASSUME NEW m \in Nat, m \in S PROVE m + 1 \in S
  <2>1. SUFFICES ASSUME m + 1 <= N PROVE \E t : Is(t, m + 1)
    BY <1>2
  <2>2. m <= N /\ m \in Timers
    BY <2>1, ShapeAssumption DEF Timers
  <2>3. PICK t : Is(t, m)
    BY <1>2, <2>2
  <2> DEFINE u == [i \in 0..(m + 1 - 1) |->
                     IF i < m THEN t[i] ELSE TicksBy(t, n, m)]
  <2>4. ASSUME NEW i \in 0..(m + 1 - 1)
        PROVE  u[i] = TicksBy(u, n, i)
    <3>1. i \in Timers /\ i \in 0..m
      BY <2>2, <2>4, ShapeAssumption DEF Timers
    <3>2. i > 0 => u[i - 1] = t[i - 1]
      BY <3>1
    <3>3. TicksBy(u, n, i) = TicksBy(t, n, i)
      <4> HIDE DEF u
      <4> QED  BY <3>1, <3>2, Below
    <3>4. CASE i < m
      <4>1. i \in 0..(m - 1)
        BY <3>1, <3>4
      <4>2. t[i] = TicksBy(t, n, i)
        BY <2>3, <4>1
      <4>3. u[i] = t[i]
        BY <3>4
      <4> QED  BY <3>3, <4>2, <4>3
    <3>5. CASE i = m
      <4>1. u[i] = TicksBy(t, n, i)
        BY <3>5
      <4> QED  BY <3>3, <4>1
    <3> QED  BY <3>1, <3>4, <3>5
  <2>5. u = [i \in 0..(m + 1 - 1) |-> u[i]]
    OBVIOUS
  <2> HIDE DEF u
  <2>6. Is(u, m + 1)
    BY <2>4, <2>5
  <2> QED  BY <2>6
<1>3. N \in S
  <2> HIDE DEF S
  <2> QED  BY <1>1, <1>2, SetInduction, ShapeAssumption
<1>4. PICK t : Is(t, N)
  BY <1>3, ShapeAssumption
<1> DEFINE Rec(f) == f = [i \in Timers |->
                            IF ~Runs(i) THEN 0
                            ELSE IF control[i].up THEN OverflowsIn(i - 1, f[i - 1])
                            ELSE (accum[i] + n) \div Scale(i)]
<1>5. Ticks(n) = CHOOSE f : Rec(f)
  BY DEF Ticks
<1>6. Rec(t)
  BY <1>4 DEF Timers, TicksBy
<1> HIDE DEF Rec
<1>7. Rec(CHOOSE f : Rec(f))
  BY <1>6
<1>8. Rec(Ticks(n))
  BY <1>5, <1>7
<1> QED  BY <1>8 DEF Rec, TicksBy

LEMMA TicksAt ==
    ASSUME TypeOK, NEW n, NEW i \in Timers
    PROVE  Ticks(n)[i] = TicksBy(Ticks(n), n, i)
<1>1. Ticks(n) = [j \in Timers |-> TicksBy(Ticks(n), n, j)]
  BY TicksRule
<1> DEFINE t == Ticks(n)
<1> HIDE DEF t
<1>2. t = [j \in Timers |-> TicksBy(t, n, j)]
  BY <1>1 DEF t
<1>3. t[i] = TicksBy(t, n, i)
  BY <1>2
<1> QED  BY <1>3 DEF t

LEMMA TicksAreNatural ==
    ASSUME TypeOK, NEW n \in Nat
    PROVE  \A i \in Timers : Ticks(n)[i] \in Nat
<1> DEFINE S == {i \in Nat : i \in Timers => Ticks(n)[i] \in Nat}
<1>1. ASSUME NEW i \in Timers, i > 0 => Ticks(n)[i - 1] \in Nat
      PROVE  Ticks(n)[i] \in Nat
  <2>1. Ticks(n)[i] = TicksBy(Ticks(n), n, i)
    BY TicksAt
  <2>2. CASE ~Runs(i)
    BY <2>1, <2>2 DEF TicksBy
  <2>3. CASE Runs(i) /\ control[i].up
    <3>1. i - 1 \in Timers /\ i > 0
      BY <2>3, ShapeAssumption DEF Timers, Runs
    <3>2. OverflowsIn(i - 1, Ticks(n)[i - 1]) \in Nat
      BY <1>1, <3>1, OneTick
    <3> QED  BY <2>1, <2>3, <3>2 DEF TicksBy
  <2>4. CASE Runs(i) /\ ~control[i].up
    <3>1. accum[i] + n \in Nat /\ Scale(i) \in Nat \ {0}
      BY Shapes
    <3>2. (accum[i] + n) \div Scale(i) \in Nat
      BY <3>1, DivNext
    <3> QED  BY <2>1, <2>4, <3>2 DEF TicksBy
  <2> QED  BY <2>2, <2>3, <2>4
<1>2. 0 \in S
  BY <1>1
<1>3. ASSUME NEW i \in Nat, i \in S PROVE i + 1 \in S
  <2>1. SUFFICES ASSUME i + 1 \in Timers PROVE Ticks(n)[i + 1] \in Nat
    OBVIOUS
  <2>2. i \in Timers
    BY <2>1, ShapeAssumption DEF Timers
  <2> QED  BY <1>1, <1>3, <2>1, <2>2
<1> HIDE DEF S
<1>4. Nat \subseteq S
  BY <1>2, <1>3, SetInduction
<1> QED  BY <1>4, ShapeAssumption DEF S, Timers

(***************************************************************************)
(* Types.                                                                  *)
(***************************************************************************)
LEMMA TypeInitially == Init => TypeOK
BY ShapeAssumption DEF Init, TypeOK, Values, Timers

LEMMA SyncTypes == ASSUME TypeOK, Sync PROVE TypeOK'
<1>1. \A i \in Timers : ReloadSynced(i) \in Values /\ CounterSynced(i) \in Values
  BY DEF TypeOK, ReloadSynced, CounterSynced
<1>2. /\ next' = "step" /\ raised' = {} /\ writes' = 0 /\ cycles' = 0
      /\ UNCHANGED <<ioControl, loads, written>>
      /\ control' = [i \in Timers |->
                       IF Switched(i) THEN ioControl[i] ELSE control[i]]
      /\ controlShadow' = ioControl
      /\ reload' = [i \in Timers |-> ReloadSynced(i)]
      /\ counter' = [i \in Timers |-> CounterSynced(i)]
      /\ accum' = [i \in Timers |->
                     IF Starts(i) \/ Stops(i) THEN 0 ELSE accum[i]]
      /\ ioData' = [i \in Timers |->
                      IF Starts(i) THEN CounterSynced(i) ELSE ioData[i]]
      /\ shadow' = ioData'
  BY DEF Sync
<1> QED  BY <1>1, <1>2, ShapeAssumption DEF TypeOK

LEMMA StepTimersTypes ==
    ASSUME TypeOK, NEW n \in Cycles, StepTimers(n)
    PROVE  TypeOK'
<1>1. n \in Nat
  BY ShapeAssumption
<1>2. \A i \in Timers : CounterAfter(i, Ticks(n)[i]) \in Values
  BY <1>1, TicksAreNatural, OneTick
<1>3. \A i \in Timers : (accum[i] + n) % Scale(i) \in Nat
  <2>1. SUFFICES ASSUME NEW i \in Timers PROVE (accum[i] + n) % Scale(i) \in Nat
    OBVIOUS
  <2> DEFINE q == Scale(i)
             x == accum[i] + n
  <2>2. x \in Nat /\ q \in Nat \ {0}
    BY <1>1, Shapes
  <2> HIDE DEF q, x
  <2>3. x % q \in 0..(q - 1)
    BY <2>2, DivNext
  <2>4. x % q \in Nat
    BY <2>2, <2>3
  <2> QED  BY <2>4 DEF q, x
<1>4. \A i \in Timers : CellAfter(i, n) \in Values /\ ShadowAfter(i, n) \in Values
  BY <1>2 DEF CellAfter, ShadowAfter, TypeOK
<1>5. /\ next' = "sync" /\ writes' = 0 /\ cycles' = n
      /\ counter' = [i \in Timers |-> CounterAfter(i, Ticks(n)[i])]
      /\ accum' = [i \in Timers |->
                     IF Runs(i) /\ ~control[i].up THEN (accum[i] + n) % Scale(i)
                     ELSE accum[i]]
      /\ ioData' = [i \in Timers |-> CellAfter(i, n)]
      /\ shadow' = [i \in Timers |-> ShadowAfter(i, n)]
      /\ raised' \in SUBSET Timers
      /\ UNCHANGED <<ioControl, control, controlShadow, reload, loads, written>>
  BY DEF StepTimers
<1> QED  BY <1>2, <1>3, <1>4, <1>5, ShapeAssumption DEF TypeOK

LEMMA TypesKept == TypeOK /\ [Next]_vars => TypeOK'
<1> SUFFICES ASSUME TypeOK, [Next]_vars PROVE TypeOK'
  OBVIOUS
<1>1. ASSUME NEW i \in Timers, NEW v \in Data, WriteData(i, v) PROVE TypeOK'
  <2>1. v \in Values /\ writes + 1 \in 0..MaxWrites
    BY <1>1, ShapeAssumption DEF WriteData, Writes, TypeOK, Values
  <2> QED  BY <1>1, <2>1 DEF WriteData, Writes, TypeOK
<1>2. ASSUME NEW i \in Timers, NEW c \in Controls, WriteControl(i, c) PROVE TypeOK'
  <2>1. writes + 1 \in 0..MaxWrites
    BY <1>2, ShapeAssumption DEF WriteControl, Writes, TypeOK
  <2> QED  BY <1>2, <2>1 DEF WriteControl, Writes, TypeOK
<1>3. CASE LoadState
  <2>1. loads' \in 0..MaxLoads
    BY <1>3, ShapeAssumption DEF LoadState, TypeOK
  <2> QED  BY <1>3, <2>1 DEF LoadState, LoadedShadow, TypeOK
<1>4. CASE UNCHANGED vars
  BY <1>4 DEF vars, TypeOK
<1> QED  BY <1>1, <1>2, <1>3, <1>4, SyncTypes, StepTimersTypes DEF Next

(* Every counter, reload and register cell stays within the width of a     *)
(* timer (timer.counter, reload and the bus cells of TMxCNT_L), whatever   *)
(* number of ticks and overflows a batch of cycles brings, cascades        *)
(* included.                                                               *)
THEOREM TypeCorrect == Spec => []TypeOK
BY TypeInitially, TypesKept, PTL DEF Spec

(***************************************************************************)
(* A batch is its cycles one by one.  After is what step_timers makes of k *)
(* cycles at once; the reference counts k cycles with k Beats.             *)
(***************************************************************************)
After(k) ==
    [counter |-> [i \in Timers |-> CounterAfter(i, Ticks(k)[i])],
     accum |-> [i \in Timers |->
                  IF Runs(i) /\ ~control[i].up THEN (accum[i] + k) % Scale(i)
                  ELSE accum[i]],
     raised |-> {i \in Timers : control[i].irq /\ OverflowsIn(i, Ticks(k)[i]) > 0}]

(* The batch of k + 1 cycles gives timer i a tick more than that of k.     *)
More(k, i) == Ticks(k + 1)[i] = Ticks(k)[i] + 1

LEMMA AfterNone ==
    ASSUME TypeOK, Prescaled
    PROVE  After(0) = [counter |-> counter, accum |-> accum, raised |-> {}]
<1> DEFINE S == {i \in Nat : i \in Timers => Ticks(0)[i] = 0}
<1>1. ASSUME NEW i \in Timers, i > 0 => Ticks(0)[i - 1] = 0
      PROVE  Ticks(0)[i] = 0
  <2>1. Ticks(0)[i] = TicksBy(Ticks(0), 0, i)
    BY TicksAt
  <2>2. CASE ~Runs(i)
    BY <2>1, <2>2 DEF TicksBy
  <2>3. CASE Runs(i) /\ control[i].up
    <3>1. i - 1 \in Timers /\ i > 0
      BY <2>3, ShapeAssumption DEF Timers, Runs
    <3>2. OverflowsIn(i - 1, 0) = 0
      BY <3>1, NoTicks
    <3> QED  BY <1>1, <2>1, <2>3, <3>1, <3>2 DEF TicksBy
  <2>4. CASE Runs(i) /\ ~control[i].up
    <3>1. accum[i] \in Nat /\ Scale(i) \in Nat \ {0} /\ accum[i] < Scale(i)
      BY Shapes DEF Prescaled
    <3>2. (accum[i] + 0) \div Scale(i) = 0
      BY <3>1
    <3> QED  BY <2>1, <2>4, <3>2 DEF TicksBy
  <2> QED  BY <2>2, <2>3, <2>4
<1>2. 0 \in S
  BY <1>1
<1>3. ASSUME NEW i \in Nat, i \in S PROVE i + 1 \in S
  <2>1. SUFFICES ASSUME i + 1 \in Timers PROVE Ticks(0)[i + 1] = 0
    OBVIOUS
  <2>2. i \in Timers
    BY <2>1, ShapeAssumption DEF Timers
  <2> QED  BY <1>1, <1>3, <2>1, <2>2
<1> HIDE DEF S
<1>4. Nat \subseteq S
  BY <1>2, <1>3, SetInduction
<1>5. \A i \in Timers : Ticks(0)[i] = 0
  BY <1>4, ShapeAssumption DEF S, Timers
<1>6. \A i \in Timers : /\ CounterAfter(i, Ticks(0)[i]) = counter[i]
                        /\ OverflowsIn(i, Ticks(0)[i]) = 0
  BY <1>5, NoTicks
<1>7. \A i \in Timers : (accum[i] + 0) % Scale(i) = accum[i]
  <2>1. SUFFICES ASSUME NEW i \in Timers PROVE (accum[i] + 0) % Scale(i) = accum[i]
    OBVIOUS
  <2>2. accum[i] \in Nat /\ Scale(i) \in Nat \ {0} /\ accum[i] < Scale(i)
    BY Shapes DEF Prescaled
  <2> QED  BY <2>2
<1>8. counter = [i \in Timers |-> counter[i]] /\ accum = [i \in Timers |-> accum[i]]
  BY DEF TypeOK
<1>9. [i \in Timers |-> CounterAfter(i, Ticks(0)[i])] = counter
  BY <1>6, <1>8
<1>10. [i \in Timers |-> IF Runs(i) /\ ~control[i].up THEN (accum[i] + 0) % Scale(i)
                         ELSE accum[i]] = accum
  BY <1>7, <1>8
<1>11. {i \in Timers : control[i].irq /\ OverflowsIn(i, Ticks(0)[i]) > 0} = {}
  BY <1>6
<1> QED  BY <1>9, <1>10, <1>11 DEF After

(* A timer ticks in the cycle after k as the recursion of Tick says, and   *)
(* never more than once.                                                   *)
LEMMA MoreRule ==
    ASSUME TypeOK, NEW k \in Nat, NEW i \in Timers,
           i > 0 => Ticks(k + 1)[i - 1]
                      = Ticks(k)[i - 1] + (IF More(k, i - 1) THEN 1 ELSE 0)
    PROVE  /\ Ticks(k + 1)[i] = Ticks(k)[i] + (IF More(k, i) THEN 1 ELSE 0)
           /\ More(k, i) <=>
                /\ Runs(i)
                /\ IF control[i].up
                   THEN /\ More(k, i - 1)
                        /\ After(k).counter[i - 1] = Modulus - 1
                   ELSE After(k).accum[i] + 1 >= Scale(i)
<1>1. /\ Ticks(k + 1)[i] = TicksBy(Ticks(k + 1), k + 1, i)
      /\ Ticks(k)[i] = TicksBy(Ticks(k), k, i)
      /\ Ticks(k)[i] \in Nat /\ Ticks(k + 1)[i] \in Nat
  BY TicksAt, TicksAreNatural
<1>2. CASE ~Runs(i)
  <2>1. Ticks(k + 1)[i] = 0 /\ Ticks(k)[i] = 0
    BY <1>1, <1>2 DEF TicksBy
  <2> QED  BY <1>2, <2>1 DEF More
<1>3. CASE Runs(i) /\ control[i].up
  <2>1. i - 1 \in Timers /\ i > 0
    BY <1>3, ShapeAssumption DEF Timers, Runs
  <2> DEFINE t == Ticks(k)[i - 1]
             u == Ticks(k + 1)[i - 1]
             full == CounterAfter(i - 1, t) = Modulus - 1
  <2>2. t \in Nat
    BY <2>1, TicksAreNatural
  <2>3. Ticks(k)[i] = OverflowsIn(i - 1, t) /\ Ticks(k + 1)[i] = OverflowsIn(i - 1, u)
    BY <1>1, <1>3 DEF TicksBy
  <2>4. After(k).counter[i - 1] = CounterAfter(i - 1, t)
    BY <2>1 DEF After
  <2>5. u = t + (IF More(k, i - 1) THEN 1 ELSE 0)
    BY <2>1
  <2>6. More(k, i - 1) <=> u = t + 1
    BY DEF More
  <2> HIDE DEF t, u
  <2>7. OverflowsIn(i - 1, t) \in Nat
        /\ OverflowsIn(i - 1, t + 1) = OverflowsIn(i - 1, t) + (IF full THEN 1 ELSE 0)
    BY <2>1, <2>2, OneTick
  <2>8. OverflowsIn(i - 1, u)
          = OverflowsIn(i - 1, t) + (IF More(k, i - 1) /\ full THEN 1 ELSE 0)
    <3>1. CASE More(k, i - 1)
      BY <2>5, <2>7, <3>1
    <3>2. CASE ~More(k, i - 1)
      <4>1. u = t
        BY <2>2, <2>5, <3>2
      <4> QED  BY <2>7, <3>2, <4>1
    <3> QED  BY <3>1, <3>2
  <2>9. More(k, i) <=> Ticks(k + 1)[i] = Ticks(k)[i] + 1
    BY DEF More
  <2>10. More(k, i) <=> (More(k, i - 1) /\ full)
    BY <2>3, <2>7, <2>8, <2>9
  <2> QED  BY <1>3, <2>3, <2>4, <2>8, <2>10
<1>4. CASE Runs(i) /\ ~control[i].up
  <2> DEFINE q == Scale(i)
             x == accum[i] + k
             tick == x % q = q - 1
  <2>1. q \in Nat \ {0} /\ x \in Nat /\ accum[i] \in Nat
    BY Shapes
  <2>2. accum[i] + (k + 1) = x + 1
    BY <2>1
  <2>3. Ticks(k)[i] = x \div q /\ Ticks(k + 1)[i] = (x + 1) \div q
    BY <1>1, <1>4, <2>2 DEF TicksBy
  <2>4. After(k).accum[i] = x % q
    BY <1>4 DEF After
  <2> HIDE DEF q, x
  <2>5. /\ x \div q \in Nat /\ x % q \in 0..(q - 1)
        /\ (x + 1) \div q = (x \div q) + (IF tick THEN 1 ELSE 0)
    BY <2>1, DivNext
  <2>6. More(k, i) <=> Ticks(k + 1)[i] = Ticks(k)[i] + 1
    BY DEF More
  <2> DEFINE a == x \div q
             r == x % q
             b == (x + 1) \div q
  <2> HIDE DEF a, r, b
  <2>7. /\ a \in Nat /\ r \in 0..(q - 1) /\ b = a + (IF r = q - 1 THEN 1 ELSE 0)
        /\ Ticks(k)[i] = a /\ Ticks(k + 1)[i] = b /\ After(k).accum[i] = r
    BY <2>3, <2>4, <2>5 DEF a, r, b
  <2>8. More(k, i) <=> r = q - 1
    BY <2>6, <2>7
  <2>9. r = q - 1 <=> r + 1 >= q
    BY <2>1, <2>7
  <2>10. More(k, i) <=> After(k).accum[i] + 1 >= Scale(i)
    BY <2>7, <2>8, <2>9 DEF q
  <2> QED  BY <1>4, <2>7, <2>8, <2>10
<1> QED  BY <1>2, <1>3, <1>4

LEMMA MoreByOne ==
    ASSUME TypeOK, NEW k \in Nat
    PROVE  \A i \in Timers :
             Ticks(k + 1)[i] = Ticks(k)[i] + (IF More(k, i) THEN 1 ELSE 0)
<1> DEFINE P(i) == Ticks(k + 1)[i] = Ticks(k)[i] + (IF More(k, i) THEN 1 ELSE 0)
           S == {i \in Nat : i \in Timers => P(i)}
<1>1. ASSUME NEW i \in Timers, i > 0 => P(i - 1) PROVE P(i)
  BY <1>1, MoreRule
<1> HIDE DEF P
<1>2. 0 \in S
  BY <1>1
<1>3. ASSUME NEW i \in Nat, i \in S PROVE i + 1 \in S
  <2>1. SUFFICES ASSUME i + 1 \in Timers PROVE P(i + 1)
    OBVIOUS
  <2>2. i \in Timers /\ i + 1 - 1 = i
    BY <2>1, ShapeAssumption DEF Timers
  <2> QED  BY <1>1, <1>3, <2>1, <2>2
<1> HIDE DEF S
<1>4. Nat \subseteq S
  BY <1>2, <1>3, SetInduction
<1>5. \A i \in Timers : P(i)
  BY <1>4, ShapeAssumption DEF S, Timers
<1> QED  BY <1>5 DEF P

TickBy(f, s, i) ==
    /\ Runs(i)
    /\ IF control[i].up THEN f[i - 1] /\ s.counter[i - 1] = Modulus - 1
       ELSE s.accum[i] + 1 >= Scale(i)

(* The cycle's own recursion finds the timers that tick once more.         *)
LEMMA TickIsMore ==
    ASSUME TypeOK, NEW k \in Nat
    PROVE  \A i \in Timers : Tick(After(k))[i] <=> More(k, i)
<1> DEFINE s == After(k)
<1>1. \A i \in Timers : i > 0 => i - 1 \in Timers
  BY ShapeAssumption DEF Timers
<1>2. ASSUME NEW i \in Timers
      PROVE  More(k, i) <=>
               /\ Runs(i)
               /\ IF control[i].up
                  THEN More(k, i - 1) /\ s.counter[i - 1] = Modulus - 1
                  ELSE s.accum[i] + 1 >= Scale(i)
  <2>1. i > 0 => Ticks(k + 1)[i - 1]
                   = Ticks(k)[i - 1] + (IF More(k, i - 1) THEN 1 ELSE 0)
    BY <1>1, MoreByOne
  <2> QED  BY <2>1, MoreRule
<1> HIDE DEF s
<1> DEFINE m == [i \in Timers |-> More(k, i)]
           Rec(f) == f = [i \in Timers |->
                            /\ Runs(i)
                            /\ IF control[i].up
                               THEN f[i - 1] /\ s.counter[i - 1] = Modulus - 1
                               ELSE s.accum[i] + 1 >= Scale(i)]
<1>3. \A i \in Timers : m[i] = TickBy(m, s, i)
  <2>1. SUFFICES ASSUME NEW i \in Timers PROVE m[i] = TickBy(m, s, i)
    OBVIOUS
  <2>2. m[i] = More(k, i) /\ More(k, i) \in BOOLEAN /\ TickBy(m, s, i) \in BOOLEAN
    BY DEF More, TickBy
  <2>3. CASE i > 0
    <3>1. m[i - 1] = More(k, i - 1)
      BY <1>1, <2>3
    <3> HIDE DEF m
    <3> QED  BY <1>2, <2>2, <3>1 DEF TickBy
  <2>4. CASE ~ (i > 0)
    <3>1. Runs(i) => ~control[i].up
      BY <2>4, Shapes DEF Runs
    <3> HIDE DEF m
    <3> QED  BY <1>2, <2>2, <3>1 DEF TickBy
  <2> QED  BY <2>3, <2>4
<1>4. m = [i \in Timers |-> m[i]]
  OBVIOUS
<1> HIDE DEF m
<1>5. m = [i \in Timers |-> TickBy(m, s, i)]
  BY <1>3, <1>4
<1>6. Rec(m)
  BY <1>5 DEF TickBy
<1>7. Tick(s) = CHOOSE f : Rec(f)
  BY DEF Tick
<1> HIDE DEF Rec
<1>8. Rec(CHOOSE f : Rec(f))
  BY <1>6
<1>9. Rec(Tick(s))
  BY <1>7, <1>8
<1> DEFINE t == Tick(s)
<1> HIDE DEF t
<1>10. t = [i \in Timers |-> TickBy(t, s, i)]
  BY <1>9 DEF Rec, TickBy, t
<1> DEFINE P(i) == t[i] <=> More(k, i)
           S == {i \in Nat : i \in Timers => P(i)}
<1>11. ASSUME NEW i \in Timers, i > 0 => P(i - 1) PROVE P(i)
  <2>1. t[i] = TickBy(t, s, i)
    BY <1>10
  <2>2. Runs(i) => (control[i].up => i > 0)
    BY DEF Runs
  <2> QED  BY <1>2, <1>11, <2>1, <2>2 DEF TickBy
<1> HIDE DEF P
<1>12. 0 \in S
  BY <1>11
<1>13. ASSUME NEW i \in Nat, i \in S PROVE i + 1 \in S
  <2>1. SUFFICES ASSUME i + 1 \in Timers PROVE P(i + 1)
    OBVIOUS
  <2>2. i \in Timers /\ i + 1 - 1 = i
    BY <2>1, ShapeAssumption DEF Timers
  <2> QED  BY <1>11, <1>13, <2>1, <2>2
<1> HIDE DEF S
<1>14. Nat \subseteq S
  BY <1>12, <1>13, SetInduction
<1>15. \A i \in Timers : P(i)
  BY <1>14, ShapeAssumption DEF S, Timers
<1> QED  BY <1>15 DEF P, s, t

(* One Beat takes the batch of k cycles to that of k + 1.                  *)
LEMMA BeatIsNext ==
    ASSUME TypeOK, NEW k \in Nat
    PROVE  Beat(After(k)) = After(k + 1)
<1> DEFINE full(i) == After(k).counter[i] = Modulus - 1
<1>1. ASSUME NEW i \in Timers
      PROVE  /\ Over(After(k), i) <=> (More(k, i) /\ full(i))
             /\ Tick(After(k))[i] <=> More(k, i)
             /\ CounterAfter(i, Ticks(k + 1)[i]) =
                  IF More(k, i) /\ full(i) THEN reload[i]
                  ELSE IF More(k, i) THEN After(k).counter[i] + 1
                  ELSE After(k).counter[i]
             /\ OverflowsIn(i, Ticks(k + 1)[i]) > 0 <=>
                  OverflowsIn(i, Ticks(k)[i]) > 0 \/ (More(k, i) /\ full(i))
  <2>1. Tick(After(k))[i] <=> More(k, i)
    BY TickIsMore
  <2>2. Over(After(k), i) <=> (More(k, i) /\ full(i))
    BY <2>1 DEF Over
  <2> DEFINE t == Ticks(k)[i]
             u == Ticks(k + 1)[i]
  <2>3. After(k).counter[i] = CounterAfter(i, t)
    BY DEF After
  <2>4. t \in Nat /\ u = t + (IF More(k, i) THEN 1 ELSE 0)
    BY TicksAreNatural, MoreByOne
  <2> HIDE DEF t, u
  <2>5. /\ OverflowsIn(i, t) \in Nat
        /\ OverflowsIn(i, t + 1) = OverflowsIn(i, t) + (IF full(i) THEN 1 ELSE 0)
        /\ CounterAfter(i, t + 1) =
             IF full(i) THEN reload[i] ELSE CounterAfter(i, t) + 1
    BY <2>3, <2>4, OneTick
  <2>6. CASE More(k, i)
    <3>1. u = t + 1
      BY <2>4, <2>6
    <3>2. CounterAfter(i, u) = IF full(i) THEN reload[i] ELSE CounterAfter(i, t) + 1
      BY <2>5, <3>1
    <3>3. OverflowsIn(i, u) > 0 <=> OverflowsIn(i, t) > 0 \/ full(i)
      BY <2>5, <3>1
    <3> QED  BY <2>1, <2>2, <2>3, <2>6, <3>2, <3>3 DEF t, u
  <2>7. CASE ~More(k, i)
    <3>1. u = t
      BY <2>4, <2>7
    <3> QED  BY <2>1, <2>2, <2>3, <2>7, <3>1 DEF t, u
  <2> QED  BY <2>6, <2>7
<1>2. ASSUME NEW i \in Timers, Runs(i), ~control[i].up
      PROVE  (accum[i] + (k + 1)) % Scale(i) =
               IF More(k, i) THEN 0 ELSE After(k).accum[i] + 1
  <2> DEFINE q == Scale(i)
             x == accum[i] + k
  <2>1. q \in Nat \ {0} /\ x \in Nat /\ accum[i] + (k + 1) = x + 1
    BY Shapes
  <2>2. After(k).accum[i] = x % q
    BY <1>2 DEF After
  <2>3. i > 0 => Ticks(k + 1)[i - 1]
                   = Ticks(k)[i - 1] + (IF More(k, i - 1) THEN 1 ELSE 0)
    BY MoreByOne, ShapeAssumption DEF Timers
  <2>4. More(k, i) <=> After(k).accum[i] + 1 >= Scale(i)
    BY <1>2, <2>3, MoreRule
  <2> HIDE DEF q, x
  <2>5. x % q \in 0..(q - 1) /\ (x + 1) % q = IF x % q = q - 1 THEN 0 ELSE (x % q) + 1
    BY <2>1, DivNext
  <2> DEFINE r == x % q
             m == (x + 1) % q
  <2> HIDE DEF r, m
  <2>6. /\ r \in 0..(q - 1) /\ m = IF r = q - 1 THEN 0 ELSE r + 1
        /\ After(k).accum[i] = r /\ (accum[i] + (k + 1)) % Scale(i) = m
    BY <2>1, <2>2, <2>5 DEF r, m, q
  <2>7. More(k, i) <=> r + 1 >= q
    BY <2>4, <2>6 DEF q
  <2>8. r + 1 >= q <=> r = q - 1
    BY <2>1, <2>6
  <2> QED  BY <2>6, <2>7, <2>8
<1>3. Beat(After(k)).counter = After(k + 1).counter
  <2>1. \A i \in Timers :
          CounterAfter(i, Ticks(k + 1)[i]) =
            IF Over(After(k), i) THEN reload[i]
            ELSE IF Tick(After(k))[i] THEN After(k).counter[i] + 1
            ELSE After(k).counter[i]
    BY <1>1
  <2>2. After(k + 1).counter = [i \in Timers |-> CounterAfter(i, Ticks(k + 1)[i])]
    BY DEF After
  <2>3. Beat(After(k)).counter =
          [i \in Timers |->
             IF Over(After(k), i) THEN reload[i]
             ELSE IF Tick(After(k))[i] THEN After(k).counter[i] + 1
             ELSE After(k).counter[i]]
    BY DEF Beat
  <2> QED  BY <2>1, <2>2, <2>3
<1>4. Beat(After(k)).accum = After(k + 1).accum
  <2>1. \A i \in Timers :
          (IF Runs(i) /\ ~control[i].up THEN (accum[i] + (k + 1)) % Scale(i)
           ELSE accum[i]) =
            IF ~Runs(i) \/ control[i].up THEN After(k).accum[i]
            ELSE IF Tick(After(k))[i] THEN 0 ELSE After(k).accum[i] + 1
    <3>1. SUFFICES ASSUME NEW i \in Timers
                   PROVE  (IF Runs(i) /\ ~control[i].up
                           THEN (accum[i] + (k + 1)) % Scale(i) ELSE accum[i]) =
                            IF ~Runs(i) \/ control[i].up THEN After(k).accum[i]
                            ELSE IF Tick(After(k))[i] THEN 0
                            ELSE After(k).accum[i] + 1
      OBVIOUS
    <3>2. CASE Runs(i) /\ ~control[i].up
      BY <1>1, <1>2, <3>2
    <3>3. CASE ~ (Runs(i) /\ ~control[i].up)
      <4>1. After(k).accum[i] = accum[i]
        BY <3>3 DEF After
      <4> QED  BY <3>3, <4>1
    <3> QED  BY <3>2, <3>3
  <2>2. After(k + 1).accum =
          [i \in Timers |-> IF Runs(i) /\ ~control[i].up
                            THEN (accum[i] + (k + 1)) % Scale(i) ELSE accum[i]]
    BY DEF After
  <2>3. Beat(After(k)).accum =
          [i \in Timers |-> IF ~Runs(i) \/ control[i].up THEN After(k).accum[i]
                            ELSE IF Tick(After(k))[i] THEN 0
                            ELSE After(k).accum[i] + 1]
    BY DEF Beat
  <2> QED  BY <2>1, <2>2, <2>3
<1>5. Beat(After(k)).raised = After(k + 1).raised
  <2>1. After(k).raised =
          {i \in Timers : control[i].irq /\ OverflowsIn(i, Ticks(k)[i]) > 0}
    BY DEF After
  <2>2. After(k + 1).raised =
          {i \in Timers : control[i].irq /\ OverflowsIn(i, Ticks(k + 1)[i]) > 0}
    BY DEF After
  <2>3. Beat(After(k)).raised =
          After(k).raised \cup {i \in Timers : Over(After(k), i) /\ control[i].irq}
    BY DEF Beat
  <2>4. \A i \in Timers :
          OverflowsIn(i, Ticks(k + 1)[i]) > 0 <=>
            OverflowsIn(i, Ticks(k)[i]) > 0 \/ Over(After(k), i)
    BY <1>1
  <2> QED  BY <2>1, <2>2, <2>3, <2>4
<1>6. /\ Beat(After(k)) = [counter |-> Beat(After(k)).counter,
                           accum |-> Beat(After(k)).accum,
                           raised |-> Beat(After(k)).raised]
      /\ After(k + 1) = [counter |-> After(k + 1).counter,
                         accum |-> After(k + 1).accum,
                         raised |-> After(k + 1).raised]
  BY DEF Beat, After
<1> QED  BY <1>3, <1>4, <1>5, <1>6

(* As many Beats as cycles: the whole batch.                               *)
LEMMA CyclesAreBatch ==
    ASSUME TypeOK, Prescaled, NEW n \in Nat
    PROVE  CycleByCycle(n) = After(n)
<1> DEFINE start == [counter |-> counter, accum |-> accum, raised |-> {}]
           Rec(f) == f = [k \in 0..n |-> IF k = 0 THEN start ELSE Beat(f[k - 1])]
           g == [k \in 0..n |-> After(k)]
           r == CHOOSE f : Rec(f)
<1>1. CycleByCycle(n) = r[n]
  BY DEF CycleByCycle
<1>2. \A k \in 0..n : g[k] = IF k = 0 THEN start ELSE Beat(g[k - 1])
  <2>1. SUFFICES ASSUME NEW k \in 0..n
                 PROVE  g[k] = IF k = 0 THEN start ELSE Beat(g[k - 1])
    OBVIOUS
  <2>2. CASE k = 0
    BY <2>2, AfterNone
  <2>3. CASE k # 0
    <3>1. k - 1 \in Nat /\ k - 1 \in 0..n /\ k - 1 + 1 = k
      BY <2>3
    <3>2. g[k - 1] = After(k - 1) /\ g[k] = After(k)
      BY <3>1
    <3>3. Beat(After(k - 1)) = After(k - 1 + 1)
      BY <3>1, BeatIsNext
    <3> QED  BY <2>3, <3>1, <3>2, <3>3
  <2> QED  BY <2>2, <2>3
<1>3. g = [k \in 0..n |-> g[k]]
  OBVIOUS
<1> HIDE DEF g, start
<1>4. Rec(g)
  BY <1>2, <1>3
<1> HIDE DEF Rec
<1>5. Rec(r)
  BY <1>4
<1> HIDE DEF r
<1>6. \A k \in 0..n : r[k] = IF k = 0 THEN start ELSE Beat(r[k - 1])
  BY <1>5 DEF Rec
<1> DEFINE S == {k \in Nat : k \in 0..n => r[k] = After(k)}
<1>7. 0 \in S
  BY <1>6, AfterNone DEF start
<1>8. ASSUME NEW k \in Nat, k \in S PROVE k + 1 \in S
  <2>1. SUFFICES ASSUME k + 1 \in 0..n PROVE r[k + 1] = After(k + 1)
    OBVIOUS
  <2>2. k \in 0..n /\ k + 1 # 0 /\ k + 1 - 1 = k
    BY <2>1
  <2>3. r[k + 1] = Beat(r[k])
    BY <1>6, <2>1, <2>2
  <2> QED  BY <1>8, <2>2, <2>3, BeatIsNext
<1> HIDE DEF S
<1>9. Nat \subseteq S
  BY <1>7, <1>8, SetInduction
<1> QED  BY <1>1, <1>9 DEF S

(* step_timers advances the four timers by all the cycles of an            *)
(* instruction at once: counters, prescaler phases and requested           *)
(* interrupts are what counting every cycle gives, for batches of any      *)
(* length, any reload, and cascades over any number of timers.             *)
THEOREM BatchesAreExact == Spec => BatchExact
<1> DEFINE A == next = "step" /\ next' = "sync" /\ Prescaled =>
                  LET ref == CycleByCycle(cycles')
                  IN  counter' = ref.counter /\ accum' = ref.accum
                      /\ raised' = ref.raised
<1>1. ASSUME TypeOK, Next PROVE A
  <2>1. SUFFICES ASSUME next = "step", next' = "sync", Prescaled
                 PROVE  /\ counter' = CycleByCycle(cycles').counter
                        /\ accum' = CycleByCycle(cycles').accum
                        /\ raised' = CycleByCycle(cycles').raised
    OBVIOUS
  <2>2. PICK n \in Cycles : StepTimers(n)
    BY <1>1, <2>1 DEF Next, WriteData, WriteControl, Sync, LoadState
  <2>3. n \in Nat /\ cycles' = n
    BY <2>2, ShapeAssumption DEF StepTimers
  <2>4. CycleByCycle(n) = After(n)
    BY <1>1, <2>1, <2>3, CyclesAreBatch
  <2>5. /\ counter' = [i \in Timers |-> CounterAfter(i, Ticks(n)[i])]
        /\ accum' = [i \in Timers |->
                       IF Runs(i) /\ ~control[i].up THEN (accum[i] + n) % Scale(i)
                       ELSE accum[i]]
        /\ raised' = {i \in Timers : control[i].irq
                                       /\ OverflowsIn(i, Ticks(n)[i]) > 0}
    BY <2>2 DEF StepTimers
  <2> QED  BY <2>3, <2>4, <2>5 DEF After
<1> HIDE DEF A
<1>2. TypeOK /\ [Next]_vars => [A]_vars
  BY <1>1
<1>3. Spec => [][A]_vars
  BY <1>2, TypeCorrect, PTL DEF Spec
<1> QED  BY <1>3 DEF A, BatchExact

(***************************************************************************)
(* The shared cell.                                                        *)
(***************************************************************************)
(* The arrays have one entry per timer.                                    *)
Shape ==
    /\ DOMAIN ioData = Timers /\ ioData = [i \in Timers |-> ioData[i]]
    /\ DOMAIN shadow = Timers /\ shadow = [i \in Timers |-> shadow[i]]
    /\ DOMAIN written = Timers /\ written = [i \in Timers |-> written[i]]
    /\ DOMAIN ioControl = Timers

(* A cell that differs from its shadow holds what the program last wrote.  *)
Marked == \A i \in Timers : Written(i) => ioData[i] = written[i]

IInv == Shape /\ Marked

LEMMA Initially == Init => IInv
BY DEF Init, IInv, Shape, Marked, Written

LEMMA WriteDataKeeps ==
    ASSUME IInv, NEW i \in Timers, NEW v \in Data, WriteData(i, v)
    PROVE  IInv'
<1>1. /\ ioData' = [ioData EXCEPT ![i] = v]
      /\ written' = [written EXCEPT ![i] = v]
      /\ shadow' = shadow /\ ioControl' = ioControl
  BY DEF WriteData
<1>2. Shape'
  BY <1>1 DEF IInv, Shape
<1>3. \A j \in Timers : j # i => ioData'[j] = ioData[j] /\ written'[j] = written[j]
  BY <1>1 DEF IInv, Shape
<1>4. ioData'[i] = v /\ written'[i] = v
  BY <1>1 DEF IInv, Shape
<1>5. Marked'
  BY <1>1, <1>3, <1>4 DEF IInv, Marked, Written
<1> QED  BY <1>2, <1>5 DEF IInv

LEMMA SyncKeeps == ASSUME IInv, Sync PROVE IInv'
<1>1. /\ ioData' = [i \in Timers |->
                      IF Starts(i) THEN CounterSynced(i) ELSE ioData[i]]
      /\ shadow' = ioData' /\ written' = written /\ ioControl' = ioControl
  BY DEF Sync
<1>2. Shape'
  BY <1>1 DEF IInv, Shape
<1>3. Marked'
  BY <1>1 DEF Marked, Written
<1> QED  BY <1>2, <1>3 DEF IInv

LEMMA StepTimersKeeps ==
    ASSUME IInv, NEW n \in Cycles, StepTimers(n)
    PROVE  IInv'
<1>1. /\ ioData' = [i \in Timers |-> CellAfter(i, n)]
      /\ shadow' = [i \in Timers |-> ShadowAfter(i, n)]
      /\ written' = written /\ ioControl' = ioControl
  BY DEF StepTimers
<1>2. Shape'
  BY <1>1 DEF IInv, Shape
<1>3. ASSUME NEW i \in Timers, ioData'[i] # shadow'[i]
      PROVE  ioData'[i] = written'[i]
  <2>1. ~Runs(i)
    BY <1>1, <1>3 DEF CellAfter, ShadowAfter
  <2>2. ioData'[i] = ioData[i] /\ shadow'[i] = shadow[i]
    BY <1>1, <2>1 DEF CellAfter, ShadowAfter
  <2> QED  BY <1>1, <1>3, <2>2 DEF IInv, Marked, Written
<1> QED  BY <1>2, <1>3 DEF IInv, Marked, Written

LEMMA WriteControlKeeps ==
    ASSUME IInv, NEW i \in Timers, NEW c \in Controls, WriteControl(i, c)
    PROVE  IInv'
BY DEF WriteControl, IInv, Shape, Marked, Written

LEMMA LoadStateKeeps == ASSUME IInv, LoadState PROVE IInv'
BY DEF LoadState, LoadedShadow, IInv, Shape, Marked, Written

LEMMA StepKeeps == IInv /\ [Next]_vars => IInv'
<1> SUFFICES ASSUME IInv, [Next]_vars PROVE IInv'
  OBVIOUS
<1>1. CASE UNCHANGED vars
  BY <1>1 DEF vars, IInv, Shape, Marked, Written
<1> QED  BY <1>1, WriteDataKeeps, WriteControlKeeps, SyncKeeps, StepTimersKeeps,
         LoadStateKeeps
         DEF Next

THEOREM Invariance == Spec => []IInv
BY Initially, StepKeeps, PTL DEF Spec

(* A reload only ever becomes the value last written to its register: no   *)
(* counter mirrored into the cell is taken for one.                        *)
THEOREM MirrorsAreNotReloads == Spec => MirrorNotReload
<1> DEFINE A == \A i \in Timers : reload'[i] # reload[i] => reload'[i] = written[i]
<1>1. ASSUME IInv, Next PROVE A
  <2>1. CASE Sync
    <3>1. ASSUME NEW i \in Timers, reload'[i] # reload[i]
          PROVE  reload'[i] = written[i]
      <4>1. reload'[i] = ReloadSynced(i)
        BY <2>1 DEF Sync
      <4>2. Written(i) /\ reload'[i] = ioData[i]
        BY <3>1, <4>1 DEF ReloadSynced
      <4> QED  BY <1>1, <4>2 DEF IInv, Marked
    <3> QED  BY <3>1
  <2>2. ASSUME ~Sync PROVE reload' = reload
    BY <1>1, <2>2 DEF Next, WriteData, WriteControl, StepTimers, LoadState
  <2> QED  BY <2>1, <2>2
<1>2. IInv /\ [Next]_vars => [A]_vars
  BY <1>1
<1> QED  BY <1>2, Invariance, PTL DEF Spec, MirrorNotReload

(* A timer that is switched on starts from its reload, with an empty       *)
(* prescaler, and its register shows that at once.                         *)
THEOREM StartsAreFresh == Spec => StartsFresh
<1> DEFINE A == \A i \in Timers : ~control[i].enable /\ control'[i].enable =>
                  /\ counter'[i] = reload'[i] /\ ioData'[i] = reload'[i]
                  /\ accum'[i] = 0
<1>1. ASSUME Next PROVE A
  <2>1. CASE Sync
    <3>1. ASSUME NEW i \in Timers, ~control[i].enable, control'[i].enable
          PROVE  /\ counter'[i] = reload'[i] /\ ioData'[i] = reload'[i]
                 /\ accum'[i] = 0
      <4>1. Starts(i)
        BY <2>1, <3>1 DEF Sync, Starts, Switched
      <4>2. /\ counter'[i] = CounterSynced(i) /\ reload'[i] = ReloadSynced(i)
            /\ ioData'[i] = CounterSynced(i) /\ accum'[i] = 0
        BY <2>1, <4>1 DEF Sync
      <4> QED  BY <4>1, <4>2 DEF CounterSynced
    <3> QED  BY <3>1
  <2>2. ASSUME ~Sync PROVE control' = control
    BY <1>1, <2>2 DEF Next, WriteData, WriteControl, StepTimers, LoadState
  <2> QED  BY <2>1, <2>2
<1>2. [Next]_vars => [A]_vars
  BY <1>1
<1> QED  BY <1>2, PTL DEF Spec, StartsFresh
==============================================================================

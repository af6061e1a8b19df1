-------------------------- MODULE GbaInterruptsProofs --------------------------
(***************************************************************************)
(* Proofs about what the core of the GBA answers in the place of its BIOS. *)
(* First the interrupts, with Halt and IntrWait, for every set of sources; *)
(* then the calls that compute (GbaBios), for every width of a register,   *)
(* memory, block and stream.  The loops of these calls are recursive       *)
(* functions: a rule for each says what it is turn by turn, and an         *)
(* invariant of its turns, by induction on a set of numbers, what it       *)
(* computes.                                                               *)
(***************************************************************************)
EXTENDS GbaInterrupts, GbaBios, SequenceTheorems, WellFoundedInduction, TLAPS

(* service_interrupts finds a bit: a set of sources has a lowest member.   *)
LEMMA LowestIsMember ==
    ASSUME NEW S, S \subseteq Sources, S # {}
    PROVE  Lowest(S) \in S
<1>1. S \subseteq Nat
  BY SourcesAssumption
<1>2. \E s \in S : \A t \in S : s <= t
  <2>1. IsWellFoundedOn(OpToRel(<, Nat), Nat)
    BY NatLessThanWellFounded
  <2>2. PICK s \in S : \A t \in S : ~(<<t, s>> \in OpToRel(<, Nat))
    BY <1>1, <2>1, WFMin
  <2>3. \A t \in S : ~(t < s)
    BY <1>1, <2>2 DEF OpToRel
  <2> QED  BY <1>1, <2>3
<1> QED  BY <1>2 DEF Lowest

-----------------------------------------------------------------------------
(* What service_interrupts leaves, whatever the instruction left in IF and *)
(* CPSR bit 7.                                                             *)
LEMMA AcknowledgeTypes ==
    ASSUME NEW flags, flags \subseteq Sources, NEW m \in BOOLEAN,
           Acknowledge(flags, m)
    PROVE  /\ iflags' \subseteq Sources /\ entered' \subseteq Sources
           /\ masked' \in BOOLEAN
           /\ flags \subseteq iflags' \cup entered'
<1> DEFINE taken == IF Serves(flags, m) THEN {Lowest(ie' \cap flags)} ELSE {}
<1>1. iflags' = flags \ taken /\ entered' = taken
      /\ masked' = (m \/ taken # {})
  BY DEF Acknowledge
<1>2. taken \subseteq Sources
  <2>1. CASE Serves(flags, m)
    <3>1. ie' \cap flags # {} /\ ie' \cap flags \subseteq Sources
      BY <2>1 DEF Serves
    <3>2. Lowest(ie' \cap flags) \in Sources
      BY <3>1, LowestIsMember
    <3> QED  BY <2>1, <3>2
  <2> QED  BY <2>1
<1>3. masked' \in BOOLEAN
  BY <1>1
<1> HIDE DEF taken
<1> QED  BY <1>1, <1>2, <1>3

(* The shape of the sleeping state after any of the five rounds.           *)
SleepOK == /\ halted \in BOOLEAN /\ waiting \in BOOLEAN
           /\ mask \subseteq Sources
           /\ waiting => halted
           /\ waiting <=> mask # {}

LEMMA AwakeOK == Awake => SleepOK'
BY DEF Awake, Sleep, SleepOK

LEMMA AwakeIfServedOK ==
    ASSUME NEW h \in BOOLEAN, NEW w \in BOOLEAN, NEW W, W \subseteq Sources,
           w => h, w <=> W # {}, AwakeIfServed(h, w, W)
    PROVE  SleepOK'
BY DEF AwakeIfServed, Awake, Sleep, SleepOK

LEMMA FlagsTypes ==
    ASSUME NEW C, NEW R, iflags \subseteq Sources, R \subseteq Sources
    PROVE  FlagsAfter(C, R) \subseteq Sources /\ R \subseteq FlagsAfter(C, R)
BY DEF FlagsAfter

-----------------------------------------------------------------------------
LEMMA Initially == Init => TypeOK
BY DEF Init, TypeOK

(* TypeOK is inductive as it stands, and no round loses its requests.      *)
Kept == raised' \subseteq iflags' \cup entered'

LEMMA RoundKeeps ==
    ASSUME TypeOK, NEW R \in SUBSET Sources, Instruction(R) \/ Idle(R)
    PROVE  TypeOK' /\ Kept
<1> USE DEF TypeOK, SleepOK, Kept
<1>1. ASSUME NEW S \in SUBSET Sources, NEW C \in SUBSET Sources,
             NEW b \in BOOLEAN, NEW m \in BOOLEAN, Execute(S, b, m, C, R)
      PROVE  TypeOK' /\ Kept
  <2>1. ie' = S /\ ime' = b /\ raised' = R
        /\ Acknowledge(FlagsAfter(C, R), m) /\ Awake
    BY <1>1 DEF Execute
  <2> QED  BY <2>1, FlagsTypes, AcknowledgeTypes, AwakeOK
<1>2. CASE StoreHaltcnt(R)
  <2>1. ie' = ie /\ ime' = ime /\ raised' = R
        /\ Acknowledge(FlagsAfter({}, R), masked)
    BY <1>2 DEF StoreHaltcnt
  <2>2. SleepOK'
    BY <1>2 DEF StoreHaltcnt, Sleep
  <2> QED  BY <2>1, <2>2, FlagsTypes, AcknowledgeTypes
<1>3. CASE SwiHalt(R)
  <2>1. ie' = ie /\ ime' = ime /\ raised' = R
        /\ Acknowledge(FlagsAfter({}, R), masked)
    BY <1>3 DEF SwiHalt
  <2>2. SleepOK'
    BY <1>3 DEF SwiHalt, AwakeIfServed, Awake, Sleep
  <2> QED  BY <2>1, <2>2, FlagsTypes, AcknowledgeTypes
<1>4. ASSUME NEW W \in SUBSET Sources, NEW clear \in BOOLEAN,
             IntrWait(W, clear, R)
      PROVE  TypeOK' /\ Kept
  <2> DEFINE C == IF clear THEN W ELSE {}
             missing == ie \cap (iflags \ C) \cap W = {}
  <2>1. /\ W # {} /\ ie' = ie /\ ime' = ime /\ raised' = R
        /\ Acknowledge(FlagsAfter(C, R), masked)
        /\ AwakeIfServed(missing, missing, IF missing THEN W ELSE {})
    BY <1>4 DEF IntrWait
  <2> HIDE DEF C
  <2>2. SleepOK'
    <3> HIDE DEF missing, SleepOK
    <3>1. missing \in BOOLEAN
      BY DEF missing
    <3> QED  BY <2>1, <3>1, AwakeIfServedOK
  <2> QED  BY <2>1, <2>2, FlagsTypes, AcknowledgeTypes
<1>5. CASE Idle(R)
  <2>1. ie' = ie /\ ime' = ime /\ raised' = R
        /\ Acknowledge(FlagsAfter({}, R), masked)
    BY <1>5 DEF Idle
  <2>2. SleepOK'
    <3>1. Awake \/ AwakeIfServed(halted, waiting, mask)
      BY <1>5 DEF Idle
    <3> QED  BY <3>1, AwakeOK, AwakeIfServedOK
  <2> QED  BY <2>1, <2>2, FlagsTypes, AcknowledgeTypes
<1> QED  BY <1>1, <1>2, <1>3, <1>4, <1>5 DEF Instruction

(* Type correctness: a core that waits is halted, and only it has a mask.  *)
THEOREM TypeCorrect == Spec => []TypeOK
<1>1. TypeOK /\ [Next]_vars => TypeOK'
  <2>1. CASE Next
    BY <2>1, RoundKeeps DEF Next
  <2>2. CASE UNCHANGED vars
    BY <2>2 DEF vars, TypeOK
  <2> QED  BY <2>1, <2>2
<1> QED  BY Initially, <1>1, PTL DEF Spec

(* A request made in the round in which IF is acknowledged is not lost.    *)
THEOREM RequestsKept == Spec => RaisedKept
<1>1. TypeOK /\ [Next]_vars => [Kept]_vars
  BY RoundKeeps DEF Next
<1> QED  BY <1>1, TypeCorrect, PTL DEF Spec, RaisedKept, Kept

(* No halted round ends asleep with one of the sources it sleeps for both  *)
(* enabled and requested: a wake-up is noticed in the round it comes.      *)
THEOREM WakesInOneRound == Spec => NeverSleepsThrough
<1> DEFINE Cause == ie' \cap iflags' \cap (IF waiting THEN mask ELSE Sources)
           A == halted /\ halted' => Cause = {}
<1>1. ASSUME TypeOK, Next, halted, halted' PROVE Cause = {}
  <2>1. PICK R \in SUBSET Sources : Idle(R)
    BY <1>1 DEF Next, Instruction, Execute, StoreHaltcnt, SwiHalt, IntrWait
  <2>2. ~Wakes(iflags') /\ ie' = ie
    BY <1>1, <2>1 DEF Idle, Awake, Sleep
  <2> QED  BY <2>2 DEF Wakes
<1>2. TypeOK /\ [Next]_vars => [A]_vars
  BY <1>1
<1> QED  BY <1>2, TypeCorrect, PTL DEF Spec, NeverSleepsThrough

(***************************************************************************)
(* Numbers, and what a recursive function is.                              *)
(***************************************************************************)
(* A set of numbers that is not empty has a least one.                     *)
LEMMA LeastNatural ==
    ASSUME NEW S \in SUBSET Nat, S # {}
    PROVE  \E m \in S : \A k \in S : m <= k
<1> DEFINE R == OpToRel(<, Nat)
<1>1. IsWellFoundedOn(R, Nat)
  BY NatLessThanWellFounded
<1>2. R = {p \in Nat \X Nat : p[1] < p[2]}
  BY DEF OpToRel
<1> HIDE DEF R
<1>3. PICK m \in S : \A k \in S : ~ (<<k, m>> \in R)
  BY <1>1, WFMin
<1>4. ASSUME NEW k \in S PROVE m <= k
  <2>1. k \in Nat /\ m \in Nat /\ <<k, m>> \in Nat \X Nat
    OBVIOUS
  <2>2. ~ (k < m)
    BY <1>2, <1>3, <2>1
  <2> QED  BY <2>1, <2>2
<1> QED  BY <1>4

(* Induction on a set of numbers, which needs no operator as parameter.    *)
LEMMA SetInduction ==
    ASSUME NEW S, 0 \in S, \A n \in Nat : n \in S => n + 1 \in S
    PROVE  Nat \subseteq S
<1> DEFINE T == Nat \ S
<1>1. SUFFICES ASSUME T # {} PROVE FALSE
  OBVIOUS
<1>2. PICK m \in T : \A k \in T : m <= k
  BY <1>1, LeastNatural
<1>3. m - 1 \in Nat /\ m - 1 \in S
  BY <1>2
<1> QED  BY <1>2, <1>3

(* Division with remainder, its uniqueness and its next step.              *)
LEMMA DivIs ==
    ASSUME NEW q \in Nat \ {0}, NEW x \in Int
    PROVE  x \div q \in Int /\ x % q \in 0..(q - 1) /\ x = q * (x \div q) + (x % q)
OBVIOUS

(* A multiple smaller than the divisor is zero.                            *)
LEMMA Multiple ==
    ASSUME NEW q \in Nat \ {0}, NEW z \in Int, NEW e \in Int, e = q * z, -q < e, e < q
    PROVE  z = 0
<1>1. CASE z >= 1
  <2>1. q * (z - 1) >= 0
    BY <1>1
  <2>2. q * (z - 1) = q * z - q
    OBVIOUS
  <2> QED  BY <2>1, <2>2
<1>2. CASE z <= -1
  <2>1. q * (-1 - z) >= 0
    BY <1>2
  <2>2. q * (-1 - z) = -q - q * z
    OBVIOUS
  <2> QED  BY <2>1, <2>2
<1> QED  BY <1>1, <1>2

(* What the next number gives.                                             *)
LEMMA DivNext ==
    ASSUME NEW q \in Nat \ {0}, NEW x \in Nat
    PROVE  /\ x \div q \in Nat /\ x % q \in 0..(q - 1)
           /\ (x + 1) \div q = (x \div q) + (IF x % q = q - 1 THEN 1 ELSE 0)
           /\ (x + 1) % q = IF x % q = q - 1 THEN 0 ELSE (x % q) + 1
<1> DEFINE a == x \div q
           r == x % q
           k == (x + 1) \div q
           m == (x + 1) % q
           b == IF r = q - 1 THEN a + 1 ELSE a
           s == IF r = q - 1 THEN 0 ELSE r + 1
<1>1. a \in Int /\ r \in 0..(q - 1) /\ x = q * a + r
  BY DivIs
<1>2. k \in Int /\ m \in 0..(q - 1) /\ x + 1 = q * k + m
  <2>1. x + 1 \in Int
    OBVIOUS
  <2> QED  BY <2>1, DivIs
<1>3. a \in Nat
  <2> HIDE DEF a, r
  <2>1. CASE a <= -1
    <3>1. q * (-1 - a) >= 0
      BY <1>1, <2>1
    <3>2. q * (-1 - a) = -q - q * a
      BY <1>1
    <3> QED  BY <1>1, <3>1, <3>2
  <2> QED  BY <1>1, <2>1
<1> HIDE DEF a, r, k, m
<1>4. b \in Int /\ s \in 0..(q - 1) /\ x + 1 = q * b + s
  <2>1. CASE r = q - 1
    <3>1. q * (a + 1) = q * a + q
      BY <1>1
    <3> QED  BY <1>1, <2>1, <3>1
  <2>2. CASE r # q - 1
    BY <1>1, <2>2
  <2> QED  BY <2>1, <2>2
<1> HIDE DEF b, s
<1>5. q * (b - k) = m - s
  <2>1. q * (b - k) = q * b - q * k
    BY <1>2, <1>4
  <2>2. q * b \in Int /\ q * k \in Int
    BY <1>2, <1>4
  <2> QED  BY <1>2, <1>4, <2>1, <2>2
<1>6. b - k = 0
  <2>1. b - k \in Int /\ m - s \in Int /\ -q < m - s /\ m - s < q
    BY <1>2, <1>4
  <2> HIDE DEF b
  <2> QED  BY <1>5, <2>1, Multiple
<1>7. k = b /\ m = s
  BY <1>2, <1>4, <1>5, <1>6
<1> QED  BY <1>1, <1>3, <1>7 DEF a, r, k, m, b, s

(* Quotient and remainder are known by what they add up to.                *)
LEMMA DivMod ==
  ASSUME NEW q \in Nat \ {0}, NEW a \in Int, NEW r \in 0..(q - 1)
  PROVE  (q * a + r) \div q = a /\ (q * a + r) % q = r
<1> DEFINE x == q * a + r
           k == x \div q
           m == x % q
<1>1. x \in Int
  OBVIOUS
<1> HIDE DEF x
<1>2. k \in Int /\ m \in 0..(q - 1) /\ x = q * k + m
  BY <1>1, DivIs
<1> HIDE DEF k, m
<1>3. q * (a - k) = m - r
  <2>1. q * (a - k) = q * a - q * k
    BY <1>2
  <2> QED  BY <1>2, <2>1 DEF x
<1>4. a - k = 0
  BY <1>2, <1>3, Multiple
<1>5. k = a /\ m = r
  BY <1>2, <1>3, <1>4
<1> QED  BY <1>5 DEF k, m, x

(* Powers of two, up to the width of a register.                           *)
LEMMA PowerRule ==
  ASSUME WordBits \in Nat
  PROVE  \E run : /\ run[0] = 1
                  /\ \A k \in 1..WordBits : run[k] = 2 * run[k - 1]
                  /\ Power = run
<1> DEFINE total == WordBits
           Rec(g) == g = [k \in 0..WordBits |-> IF k = 0 THEN 1 ELSE 2 * g[k - 1]]
           Is(g, j) == g = [k \in 0..j |-> IF k = 0 THEN 1 ELSE 2 * g[k - 1]]
           U == {j \in Nat : j =< total => \E g : Is(g, j)}
<1>1. Power = (CHOOSE g : Rec(g))
  BY DEF Power
<1>t. total \in Nat
  OBVIOUS
<1>2. 0 \in U
  <2>1. Is([k \in 0..0 |-> 1], 0)
    OBVIOUS
  <2> QED  BY <2>1
<1>3. ASSUME NEW j \in Nat, j \in U PROVE j + 1 \in U
  <2>1. SUFFICES ASSUME j + 1 =< total PROVE \E g : Is(g, j + 1)
    <3> HIDE DEF Is
    <3> QED  OBVIOUS
  <2> HIDE DEF total
  <2>2. PICK h : Is(h, j)
    BY <1>t, <1>3, <2>1
  <2> DEFINE more == 2 * h[j]
             g == [k \in 0..(j + 1) |-> IF k =< j THEN h[k] ELSE more]
  <2> HIDE DEF more
  <2>3. /\ \A k \in 0..j : g[k] = h[k]
        /\ g[j + 1] = more
        /\ g = [k \in 0..(j + 1) |-> g[k]]
    OBVIOUS
  <2> HIDE DEF g
  <2>4. ASSUME NEW k \in 0..(j + 1)
        PROVE  g[k] = IF k = 0 THEN 1 ELSE 2 * g[k - 1]
    <3>1. CASE k = 0
      <4>1. 0 \in 0..j
        OBVIOUS
      <4>2. h[0] = 1 /\ g[0] = h[0]
        BY <2>2, <2>3, <4>1
      <4> QED  BY <3>1, <4>2
    <3>2. CASE k \in 1..j
      <4>1. k \in 0..j /\ k - 1 \in 0..j /\ k # 0
        BY <3>2
      <4>2. /\ g[k] = h[k] /\ g[k - 1] = h[k - 1]
            /\ h[k] = 2 * h[k - 1]
        BY <2>2, <2>3, <4>1
      <4> QED  BY <4>1, <4>2
    <3>3. CASE k = j + 1
      <4>1. k # 0 /\ k - 1 = j /\ j \in 0..j
        BY <3>3
      <4>2. g[j] = h[j]
        BY <2>3, <4>1
      <4> QED  BY <2>3, <3>3, <4>1, <4>2 DEF more
    <3> QED  BY <3>1, <3>2, <3>3
  <2>5. Is(g, j + 1)
    BY <2>3, <2>4
  <2> QED  BY <2>5
<1>4. total \in U
  <2> HIDE DEF U, total
  <2>1. Nat \subseteq U
    BY <1>2, <1>3, SetInduction
  <2> QED  BY <1>t, <2>1
<1>5. PICK found : Rec(found)
  BY <1>4
<1> DEFINE run == CHOOSE g : Rec(g)
<1>6. Rec(run)
  BY <1>5
<1> HIDE DEF run
<1>7. /\ run[0] = 1
      /\ \A k \in 1..WordBits : run[k] = 2 * run[k - 1]
  <2> HIDE DEF total
  <2>1. 0 \in 0..WordBits /\ \A k \in 1..WordBits : k \in 0..WordBits /\ k # 0
    BY <1>t DEF total
  <2> QED  BY <1>6, <2>1
<1>8. Power = run
  BY <1>1 DEF run
<1> QED  BY <1>7, <1>8

(* Sums of the first numbers.                                              *)
LEMMA SumsRule ==
  ASSUME NEW numbers, Len(numbers) \in Nat
  PROVE  \E run : /\ run[0] = 0
                  /\ \A k \in 1..Len(numbers) : run[k] = run[k - 1] + numbers[k]
                  /\ Sums(numbers) = run
<1> DEFINE total == Len(numbers)
           Rec(g) == g = [k \in 0..Len(numbers) |-> IF k = 0 THEN 0 ELSE g[k - 1] + numbers[k]]
           Is(g, j) == g = [k \in 0..j |-> IF k = 0 THEN 0 ELSE g[k - 1] + numbers[k]]
           U == {j \in Nat : j =< total => \E g : Is(g, j)}
<1>1. Sums(numbers) = (CHOOSE g : Rec(g))
  BY DEF Sums
<1>t. total \in Nat
  OBVIOUS
<1>2. 0 \in U
  <2>1. Is([k \in 0..0 |-> 0], 0)
    OBVIOUS
  <2> QED  BY <2>1
<1>3. ASSUME NEW j \in Nat, j \in U PROVE j + 1 \in U
  <2>1. SUFFICES ASSUME j + 1 =< total PROVE \E g : Is(g, j + 1)
    <3> HIDE DEF Is
    <3> QED  OBVIOUS
  <2> HIDE DEF total
  <2>2. PICK h : Is(h, j)
    BY <1>t, <1>3, <2>1
  <2> DEFINE more == h[j] + numbers[(j + 1)]
             g == [k \in 0..(j + 1) |-> IF k =< j THEN h[k] ELSE more]
  <2> HIDE DEF more
  <2>3. /\ \A k \in 0..j : g[k] = h[k]
        /\ g[j + 1] = more
        /\ g = [k \in 0..(j + 1) |-> g[k]]
    OBVIOUS
  <2> HIDE DEF g
  <2>4. ASSUME NEW k \in 0..(j + 1)
        PROVE  g[k] = IF k = 0 THEN 0 ELSE g[k - 1] + numbers[k]
    <3>1. CASE k = 0
      <4>1. 0 \in 0..j
        OBVIOUS
      <4>2. h[0] = 0 /\ g[0] = h[0]
        BY <2>2, <2>3, <4>1
      <4> QED  BY <3>1, <4>2
    <3>2. CASE k \in 1..j
      <4>1. k \in 0..j /\ k - 1 \in 0..j /\ k # 0
        BY <3>2
      <4>2. /\ g[k] = h[k] /\ g[k - 1] = h[k - 1]
            /\ h[k] = h[k - 1] + numbers[k]
        BY <2>2, <2>3, <4>1
      <4> QED  BY <4>1, <4>2
    <3>3. CASE k = j + 1
      <4>1. k # 0 /\ k - 1 = j /\ j \in 0..j
        BY <3>3
      <4>2. g[j] = h[j]
        BY <2>3, <4>1
      <4> QED  BY <2>3, <3>3, <4>1, <4>2 DEF more
    <3> QED  BY <3>1, <3>2, <3>3
  <2>5. Is(g, j + 1)
    BY <2>3, <2>4
  <2> QED  BY <2>5
<1>4. total \in U
  <2> HIDE DEF U, total
  <2>1. Nat \subseteq U
    BY <1>2, <1>3, SetInduction
  <2> QED  BY <1>t, <2>1
<1>5. PICK found : Rec(found)
  BY <1>4
<1> DEFINE run == CHOOSE g : Rec(g)
<1>6. Rec(run)
  BY <1>5
<1> HIDE DEF run
<1>7. /\ run[0] = 0
      /\ \A k \in 1..Len(numbers) : run[k] = run[k - 1] + numbers[k]
  <2> HIDE DEF total
  <2>1. 0 \in 0..Len(numbers) /\ \A k \in 1..Len(numbers) : k \in 0..Len(numbers) /\ k # 0
    BY <1>t DEF total
  <2> QED  BY <1>6, <2>1
<1>8. Sums(numbers) = run
  BY <1>1 DEF run
<1> QED  BY <1>7, <1>8

(* The turns of isqrt32.                                                   *)
LEMMA RootRule ==
  ASSUME NEW n, WordBits \div 2 \in Nat
  PROVE  \E run : /\ run[0] = [value |-> n, root |-> 0]
                  /\ \A k \in 1..(WordBits \div 2) : run[k] = RootStep(run[k - 1], Power[WordBits - 2 * k])
                  /\ Isqrt(n) = run[WordBits \div 2].root
<1> DEFINE total == (WordBits \div 2)
           Rec(g) == g = [k \in 0..(WordBits \div 2) |-> IF k = 0 THEN [value |-> n, root |-> 0] ELSE RootStep(g[k - 1], Power[WordBits - 2 * k])]
           Is(g, j) == g = [k \in 0..j |-> IF k = 0 THEN [value |-> n, root |-> 0] ELSE RootStep(g[k - 1], Power[WordBits - 2 * k])]
           U == {j \in Nat : j =< total => \E g : Is(g, j)}
<1>1. Isqrt(n) = (CHOOSE g : Rec(g))[WordBits \div 2].root
  BY DEF Isqrt
<1>t. total \in Nat
  OBVIOUS
<1>2. 0 \in U
  <2>1. Is([k \in 0..0 |-> [value |-> n, root |-> 0]], 0)
    OBVIOUS
  <2> QED  BY <2>1
<1>3. ASSUME NEW j \in Nat, j \in U PROVE j + 1 \in U
  <2>1. SUFFICES ASSUME j + 1 =< total PROVE \E g : Is(g, j + 1)
    <3> HIDE DEF Is
    <3> QED  OBVIOUS
  <2> HIDE DEF total
  <2>2. PICK h : Is(h, j)
    BY <1>t, <1>3, <2>1
  <2> DEFINE more == RootStep(h[j], Power[WordBits - 2 * (j + 1)])
             g == [k \in 0..(j + 1) |-> IF k =< j THEN h[k] ELSE more]
  <2> HIDE DEF more
  <2>3. /\ \A k \in 0..j : g[k] = h[k]
        /\ g[j + 1] = more
        /\ g = [k \in 0..(j + 1) |-> g[k]]
    OBVIOUS
  <2> HIDE DEF g
  <2>4. ASSUME NEW k \in 0..(j + 1)
        PROVE  g[k] = IF k = 0 THEN [value |-> n, root |-> 0] ELSE RootStep(g[k - 1], Power[WordBits - 2 * k])
    <3>1. CASE k = 0
      <4>1. 0 \in 0..j
        OBVIOUS
      <4>2. h[0] = [value |-> n, root |-> 0] /\ g[0] = h[0]
        BY <2>2, <2>3, <4>1
      <4> QED  BY <3>1, <4>2
    <3>2. CASE k \in 1..j
      <4>1. k \in 0..j /\ k - 1 \in 0..j /\ k # 0
        BY <3>2
      <4>2. /\ g[k] = h[k] /\ g[k - 1] = h[k - 1]
            /\ h[k] = RootStep(h[k - 1], Power[WordBits - 2 * k])
        BY <2>2, <2>3, <4>1
      <4> QED  BY <4>1, <4>2
    <3>3. CASE k = j + 1
      <4>1. k # 0 /\ k - 1 = j /\ j \in 0..j
        BY <3>3
      <4>2. g[j] = h[j]
        BY <2>3, <4>1
      <4> QED  BY <2>3, <3>3, <4>1, <4>2 DEF more
    <3> QED  BY <3>1, <3>2, <3>3
  <2>5. Is(g, j + 1)
    BY <2>3, <2>4
  <2> QED  BY <2>5
<1>4. total \in U
  <2> HIDE DEF U, total
  <2>1. Nat \subseteq U
    BY <1>2, <1>3, SetInduction
  <2> QED  BY <1>t, <2>1
<1>5. PICK found : Rec(found)
  BY <1>4
<1> DEFINE run == CHOOSE g : Rec(g)
<1>6. Rec(run)
  BY <1>5
<1> HIDE DEF run
<1>7. /\ run[0] = [value |-> n, root |-> 0]
      /\ \A k \in 1..(WordBits \div 2) : run[k] = RootStep(run[k - 1], Power[WordBits - 2 * k])
  <2> HIDE DEF total
  <2>1. 0 \in 0..(WordBits \div 2) /\ \A k \in 1..(WordBits \div 2) : k \in 0..(WordBits \div 2) /\ k # 0
    BY <1>t DEF total
  <2> QED  BY <1>6, <2>1
<1>8. Isqrt(n) = run[WordBits \div 2].root
  BY <1>1 DEF run
<1> QED  BY <1>7, <1>8

(* The turns of a copy.                                                    *)
LEMMA CopyRule ==
  ASSUME NEW m, NEW b, NEW fast, Units(b, fast).count \in Nat
  PROVE  \E run : /\ run[0] = m
                  /\ \A k \in 1..Units(b, fast).count : run[k] = MoveUnit(m, run[k - 1], Units(b, fast), b.fill, k - 1)
                  /\ CpuSet(m, b, fast) = run[Units(b, fast).count]
<1> DEFINE total == Units(b, fast).count
           Rec(g) == g = [k \in 0..Units(b, fast).count |-> IF k = 0 THEN m ELSE MoveUnit(m, g[k - 1], Units(b, fast), b.fill, k - 1)]
           Is(g, j) == g = [k \in 0..j |-> IF k = 0 THEN m ELSE MoveUnit(m, g[k - 1], Units(b, fast), b.fill, k - 1)]
           U == {j \in Nat : j =< total => \E g : Is(g, j)}
<1>1. CpuSet(m, b, fast) = (CHOOSE g : Rec(g))[Units(b, fast).count]
  BY DEF CpuSet
<1>t. total \in Nat
  OBVIOUS
<1>2. 0 \in U
  <2>1. Is([k \in 0..0 |-> m], 0)
    OBVIOUS
  <2> QED  BY <2>1
<1>3. ASSUME NEW j \in Nat, j \in U PROVE j + 1 \in U
  <2>1. SUFFICES ASSUME j + 1 =< total PROVE \E g : Is(g, j + 1)
    <3> HIDE DEF Is
    <3> QED  OBVIOUS
  <2> HIDE DEF total
  <2>2. PICK h : Is(h, j)
    BY <1>t, <1>3, <2>1
  <2> DEFINE more == MoveUnit(m, h[j], Units(b, fast), b.fill, (j + 1) - 1)
             g == [k \in 0..(j + 1) |-> IF k =< j THEN h[k] ELSE more]
  <2> HIDE DEF more
  <2>3. /\ \A k \in 0..j : g[k] = h[k]
        /\ g[j + 1] = more
        /\ g = [k \in 0..(j + 1) |-> g[k]]
    OBVIOUS
  <2> HIDE DEF g
  <2>4. ASSUME NEW k \in 0..(j + 1)
        PROVE  g[k] = IF k = 0 THEN m ELSE MoveUnit(m, g[k - 1], Units(b, fast), b.fill, k - 1)
    <3>1. CASE k = 0
      <4>1. 0 \in 0..j
        OBVIOUS
      <4>2. h[0] = m /\ g[0] = h[0]
        BY <2>2, <2>3, <4>1
      <4> QED  BY <3>1, <4>2
    <3>2. CASE k \in 1..j
      <4>1. k \in 0..j /\ k - 1 \in 0..j /\ k # 0
        BY <3>2
      <4>2. /\ g[k] = h[k] /\ g[k - 1] = h[k - 1]
            /\ h[k] = MoveUnit(m, h[k - 1], Units(b, fast), b.fill, k - 1)
        BY <2>2, <2>3, <4>1
      <4> QED  BY <4>1, <4>2
    <3>3. CASE k = j + 1
      <4>1. k # 0 /\ k - 1 = j /\ j \in 0..j
        BY <3>3
      <4>2. g[j] = h[j]
        BY <2>3, <4>1
      <4> QED  BY <2>3, <3>3, <4>1, <4>2 DEF more
    <3> QED  BY <3>1, <3>2, <3>3
  <2>5. Is(g, j + 1)
    BY <2>3, <2>4
  <2> QED  BY <2>5
<1>4. total \in U
  <2> HIDE DEF U, total
  <2>1. Nat \subseteq U
    BY <1>2, <1>3, SetInduction
  <2> QED  BY <1>t, <2>1
<1>5. PICK found : Rec(found)
  BY <1>4
<1> DEFINE run == CHOOSE g : Rec(g)
<1>6. Rec(run)
  BY <1>5
<1> HIDE DEF run
<1>7. /\ run[0] = m
      /\ \A k \in 1..Units(b, fast).count : run[k] = MoveUnit(m, run[k - 1], Units(b, fast), b.fill, k - 1)
  <2> HIDE DEF total
  <2>1. 0 \in 0..Units(b, fast).count /\ \A k \in 1..Units(b, fast).count : k \in 0..Units(b, fast).count /\ k # 0
    BY <1>t DEF total
  <2> QED  BY <1>6, <2>1
<1>8. CpuSet(m, b, fast) = run[Units(b, fast).count]
  BY <1>1 DEF run
<1> QED  BY <1>7, <1>8

(* The turns of a reference.                                               *)
RepeatTurns(run, out, distance, n) ==
  /\ run[0] = out
  /\ \A k \in 1..n : run[k] = Append(run[k - 1], run[k - 1][Len(out) + k - distance])
  /\ Repeated(out, distance, n) = run[n]

(* The recursive function that Repeated is goes through these turns.       *)
LEMMA RepeatRule ==
  ASSUME NEW out, NEW distance, NEW n \in Nat
  PROVE  \E run : RepeatTurns(run, out, distance, n)
<1> DEFINE total == n
           Rec(g) == g = [k \in 0..n |-> IF k = 0 THEN out ELSE Append(g[k - 1], g[k - 1][Len(out) + k - distance])]
           Is(g, j) == g = [k \in 0..j |-> IF k = 0 THEN out ELSE Append(g[k - 1], g[k - 1][Len(out) + k - distance])]
           U == {j \in Nat : j =< total => \E g : Is(g, j)}
<1>1. Repeated(out, distance, n) = (CHOOSE g : Rec(g))[n]
  BY DEF Repeated
<1>t. total \in Nat
  OBVIOUS
<1>2. 0 \in U
  <2>1. Is([k \in 0..0 |-> out], 0)
    OBVIOUS
  <2> QED  BY <2>1
<1>3. ASSUME NEW j \in Nat, j \in U PROVE j + 1 \in U
  <2>1. SUFFICES ASSUME j + 1 =< total PROVE \E g : Is(g, j + 1)
    <3> HIDE DEF Is
    <3> QED  OBVIOUS
  <2> HIDE DEF total
  <2>2. PICK h : Is(h, j)
    <3>1. j =< total
      BY <1>t, <2>1
    <3> HIDE DEF Is
    <3> QED  BY <1>3, <3>1
  <2> DEFINE more == Append(h[j], h[j][Len(out) + (j + 1) - distance])
             g == [k \in 0..(j + 1) |-> IF k =< j THEN h[k] ELSE more]
  <2> HIDE DEF more
  <2>3. /\ \A k \in 0..j : g[k] = h[k]
        /\ g[j + 1] = more
        /\ g = [k \in 0..(j + 1) |-> g[k]]
    OBVIOUS
  <2> HIDE DEF g
  <2>4. ASSUME NEW k \in 0..(j + 1)
        PROVE  g[k] = IF k = 0 THEN out ELSE Append(g[k - 1], g[k - 1][Len(out) + k - distance])
    <3>1. CASE k = 0
      <4>1. 0 \in 0..j
        OBVIOUS
      <4>2. h[0] = out /\ g[0] = h[0]
        BY <2>2, <2>3, <4>1
      <4> QED  BY <3>1, <4>2
    <3>2. CASE k \in 1..j
      <4>1. k \in 0..j /\ k - 1 \in 0..j /\ k # 0
        BY <3>2
      <4>2. /\ g[k] = h[k] /\ g[k - 1] = h[k - 1]
            /\ h[k] = Append(h[k - 1], h[k - 1][Len(out) + k - distance])
        BY <2>2, <2>3, <4>1
      <4> QED  BY <4>1, <4>2
    <3>3. CASE k = j + 1
      <4>1. k # 0 /\ k - 1 = j /\ j \in 0..j
        BY <3>3
      <4>2. g[j] = h[j]
        BY <2>3, <4>1
      <4> QED  BY <2>3, <3>3, <4>1, <4>2 DEF more
    <3> QED  BY <3>1, <3>2, <3>3
  <2>5. Is(g, j + 1)
    BY <2>3, <2>4
  <2> QED  BY <2>5
<1>4. total \in U
  <2> HIDE DEF U, total
  <2>1. Nat \subseteq U
    BY <1>2, <1>3, SetInduction
  <2> QED  BY <1>t, <2>1
<1>5. PICK found : Rec(found)
  BY <1>4
<1> DEFINE run == CHOOSE g : Rec(g)
<1>6. Rec(run)
  BY <1>5
<1> HIDE DEF run
<1>7. /\ run[0] = out
      /\ \A k \in 1..n : run[k] = Append(run[k - 1], run[k - 1][Len(out) + k - distance])
  <2> HIDE DEF total
  <2>1. 0 \in 0..n /\ \A k \in 1..n : k \in 0..n /\ k # 0
    BY <1>t DEF total
  <2> QED  BY <1>6, <2>1
<1>8. Repeated(out, distance, n) = run[n]
  BY <1>1 DEF run
<1> HIDE DEF Rec
<1>9. RepeatTurns(run, out, distance, n)
  BY <1>7, <1>8 DEF RepeatTurns
<1> QED  BY <1>9

(* The turns of a decompressor.                                            *)
DecodeTurns(run, lz, s, size) ==
  /\ run[0] = Start
  /\ \A k \in 1..size : run[k] = (IF lz THEN LzTurn(s, size, run[k - 1], k) ELSE RlTurn(s, size, run[k - 1]))
  /\ Decoded(lz, s, size) = run[size]

(* The recursive function that Decoded is goes through these turns.        *)
LEMMA DecodeRule ==
  ASSUME NEW lz, NEW s, NEW size \in Nat
  PROVE  \E run : DecodeTurns(run, lz, s, size)
<1> DEFINE total == size
           Rec(g) == g = [k \in 0..size |-> IF k = 0 THEN Start ELSE (IF lz THEN LzTurn(s, size, g[k - 1], k) ELSE RlTurn(s, size, g[k - 1]))]
           Is(g, j) == g = [k \in 0..j |-> IF k = 0 THEN Start ELSE (IF lz THEN LzTurn(s, size, g[k - 1], k) ELSE RlTurn(s, size, g[k - 1]))]
           U == {j \in Nat : j =< total => \E g : Is(g, j)}
<1>1. Decoded(lz, s, size) = (CHOOSE g : Rec(g))[size]
  BY DEF Decoded
<1>t. total \in Nat
  OBVIOUS
<1>2. 0 \in U
  <2>1. Is([k \in 0..0 |-> Start], 0)
    OBVIOUS
  <2> QED  BY <2>1
<1>3. ASSUME NEW j \in Nat, j \in U PROVE j + 1 \in U
  <2>1. SUFFICES ASSUME j + 1 =< total PROVE \E g : Is(g, j + 1)
    <3> HIDE DEF Is
    <3> QED  OBVIOUS
  <2> HIDE DEF total
  <2>2. PICK h : Is(h, j)
    BY <1>t, <1>3, <2>1
  <2> DEFINE more == (IF lz THEN LzTurn(s, size, h[j], (j + 1)) ELSE RlTurn(s, size, h[j]))
             g == [k \in 0..(j + 1) |-> IF k =< j THEN h[k] ELSE more]
  <2> HIDE DEF more
  <2>3. /\ \A k \in 0..j : g[k] = h[k]
        /\ g[j + 1] = more
        /\ g = [k \in 0..(j + 1) |-> g[k]]
    OBVIOUS
  <2> HIDE DEF g
  <2>4. ASSUME NEW k \in 0..(j + 1)
        PROVE  g[k] = IF k = 0 THEN Start ELSE (IF lz THEN LzTurn(s, size, g[k - 1], k) ELSE RlTurn(s, size, g[k - 1]))
    <3>1. CASE k = 0
      <4>1. 0 \in 0..j
        OBVIOUS
      <4>2. h[0] = Start /\ g[0] = h[0]
        BY <2>2, <2>3, <4>1
      <4> QED  BY <3>1, <4>2
    <3>2. CASE k \in 1..j
      <4>1. k \in 0..j /\ k - 1 \in 0..j /\ k # 0
        BY <3>2
      <4>2. /\ g[k] = h[k] /\ g[k - 1] = h[k - 1]
            /\ h[k] = (IF lz THEN LzTurn(s, size, h[k - 1], k) ELSE RlTurn(s, size, h[k - 1]))
        BY <2>2, <2>3, <4>1
      <4> QED  BY <4>1, <4>2
    <3>3. CASE k = j + 1
      <4>1. k # 0 /\ k - 1 = j /\ j \in 0..j
        BY <3>3
      <4>2. g[j] = h[j]
        BY <2>3, <4>1
      <4> QED  BY <2>3, <3>3, <4>1, <4>2 DEF more
    <3> QED  BY <3>1, <3>2, <3>3
  <2>5. Is(g, j + 1)
    BY <2>3, <2>4
  <2> QED  BY <2>5
<1>4. total \in U
  <2> HIDE DEF U, total
  <2>1. Nat \subseteq U
    BY <1>2, <1>3, SetInduction
  <2> QED  BY <1>t, <2>1
<1>5. PICK found : Rec(found)
  BY <1>4
<1> DEFINE run == CHOOSE g : Rec(g)
<1>6. Rec(run)
  BY <1>5
<1> HIDE DEF run
<1>7. /\ run[0] = Start
      /\ \A k \in 1..size : run[k] = (IF lz THEN LzTurn(s, size, run[k - 1], k) ELSE RlTurn(s, size, run[k - 1]))
  <2> HIDE DEF total
  <2>1. 0 \in 0..size /\ \A k \in 1..size : k \in 0..size /\ k # 0
    BY <1>t DEF total
  <2> QED  BY <1>6, <2>1
<1>8. Decoded(lz, s, size) = run[size]
  BY <1>1 DEF run
<1> HIDE DEF Rec
<1>9. DecodeTurns(run, lz, s, size)
  BY <1>7, <1>8 DEF DecodeTurns
<1> QED  BY <1>9

(***************************************************************************)
(* Division and square root.                                               *)
(***************************************************************************)
(* Powers of two, one after the other.                                     *)
LEMMA PowerNext ==
  /\ Power[0] = 1
  /\ \A k \in 1..WordBits : Power[k] = 2 * Power[k - 1]
  /\ \A k \in 0..WordBits : Power[k] \in Nat /\ Power[k] >= 1
<1>0. WordBits \in Nat
  BY BiosAssumption
<1>1. Power[0] = 1 /\ \A k \in 1..WordBits : Power[k] = 2 * Power[k - 1]
  BY <1>0, PowerRule
<1> DEFINE U == {j \in Nat : j =< WordBits => Power[j] \in Nat /\ Power[j] >= 1}
<1>2. 0 \in U
  BY <1>1
<1>3. ASSUME NEW j \in Nat, j \in U PROVE j + 1 \in U
  <2>1. SUFFICES ASSUME j + 1 =< WordBits PROVE Power[j + 1] \in Nat /\ Power[j + 1] >= 1
    OBVIOUS
  <2>2. j + 1 \in 1..WordBits /\ (j + 1) - 1 = j
    BY <1>0, <2>1
  <2>3. Power[j + 1] = 2 * Power[j]
    BY <1>1, <2>2
  <2> QED  BY <1>3, <2>1, <2>2, <2>3, <1>0
<1>4. Nat \subseteq U
  <2> HIDE DEF U
  <2> QED  BY <1>2, <1>3, SetInduction
<1> QED  BY <1>0, <1>1, <1>4

(* The bits that isqrt32 goes through are squares.                         *)
LEMMA PowerSquare ==
  ASSUME NEW j \in Nat, 2 * j =< WordBits
  PROVE  Power[2 * j] = Power[j] * Power[j]
<1>0. WordBits \in Nat
  BY BiosAssumption
<1> DEFINE U == {i \in Nat : 2 * i =< WordBits => Power[2 * i] = Power[i] * Power[i]}
<1>1. 0 \in U
  BY PowerNext
<1>2. ASSUME NEW i \in Nat, i \in U PROVE i + 1 \in U
  <2>1. SUFFICES ASSUME 2 * (i + 1) =< WordBits PROVE Power[2 * (i + 1)] = Power[i + 1] * Power[i + 1]
    OBVIOUS
  <2>2. /\ i + 1 \in 1..WordBits /\ 2 * i + 1 \in 1..WordBits /\ 2 * i + 2 \in 1..WordBits
        /\ (i + 1) - 1 = i /\ (2 * i + 1) - 1 = 2 * i /\ (2 * i + 2) - 1 = 2 * i + 1
        /\ 2 * (i + 1) = 2 * i + 2 /\ 2 * i =< WordBits /\ i \in 0..WordBits
    BY <1>0, <2>1
  <2>3. Power[i + 1] = 2 * Power[i] /\ Power[2 * i + 1] = 2 * Power[2 * i] /\ Power[2 * i + 2] = 2 * Power[2 * i + 1]
    BY <2>2, PowerNext
  <2>4. Power[2 * i] = Power[i] * Power[i]
    BY <1>2, <2>2
  <2>5. Power[i] \in Nat
    BY <2>2, PowerNext
  <2> DEFINE p == Power[i]
  <2>6. 2 * (2 * (p * p)) = (2 * p) * (2 * p)
    <3> HIDE DEF p
    <3>1. p \in Nat
      BY <2>5 DEF p
    <3> QED  BY <3>1
  <2> QED  BY <2>2, <2>3, <2>4, <2>6
<1>3. Nat \subseteq U
  <2> HIDE DEF U
  <2> QED  BY <1>1, <1>2, SetInduction
<1> QED  BY <1>3

(* A turn of isqrt32: the root is found down to the bits of 2p, and value   *)
(* and root are what the square leaves and the root shifted by those left.  *)
LEMMA RootTurn ==
  ASSUME NEW n \in Nat, NEW r \in Nat, NEW p \in Nat, p >= 1, r * r =< n, n < (r + 2 * p) * (r + 2 * p)
  PROVE  \E q \in Nat : /\ RootStep([value |-> n - r * r, root |-> r * (2 * p)], p * p)
                           = [value |-> n - q * q, root |-> q * p]
                        /\ q * q =< n /\ n < (q + p) * (q + p)
<1> DEFINE rr == r * r
           rp == r * p
           pp == p * p
           d == [value |-> n - r * r, root |-> r * (2 * p)]
<1>1. rr \in Nat /\ rp \in Nat /\ pp \in Nat
  OBVIOUS
<1>2. r * (2 * p) = 2 * rp
  OBVIOUS
<1>3. (r + p) * (r + p) = rr + 2 * rp + pp
  OBVIOUS
<1>4. (r + p) * p = rp + pp
  OBVIOUS
<1>5. (2 * rp) \div 2 = rp
  <2> HIDE DEF rp
  <2> QED  BY <1>1
<1>6. (r + p) + p = r + 2 * p
  OBVIOUS
<1>7. RootStep(d, pp) = IF n - rr >= 2 * rp + pp
                        THEN [value |-> (n - rr) - (2 * rp + pp), root |-> rp + pp]
                        ELSE [value |-> n - rr, root |-> rp]
  <2>1. d.value = n - rr /\ d.root = 2 * rp
    BY <1>2
  <2> HIDE DEF d, rr, rp, pp
  <2> QED  BY <1>5, <2>1 DEF RootStep
<1>8. CASE n - rr >= 2 * rp + pp
  <2>1. (r + p) * (r + p) =< n /\ n - (r + p) * (r + p) = (n - rr) - (2 * rp + pp)
    <3> HIDE DEF rr, rp, pp
    <3> QED  BY <1>1, <1>3, <1>8
  <2>2. n < ((r + p) + p) * ((r + p) + p)
    BY <1>6
  <2>3. RootStep(d, pp) = [value |-> n - (r + p) * (r + p), root |-> (r + p) * p]
    <3> HIDE DEF d, rr, rp, pp
    <3> QED  BY <1>4, <1>7, <1>8, <2>1
  <2>4. r + p \in Nat
    OBVIOUS
  <2> QED  BY <2>1, <2>2, <2>3, <2>4
<1>9. CASE ~(n - rr >= 2 * rp + pp)
  <2>1. n < (r + p) * (r + p)
    <3> HIDE DEF rr, rp, pp
    <3> QED  BY <1>1, <1>3, <1>9
  <2>2. RootStep(d, pp) = [value |-> n - r * r, root |-> r * p]
    <3>1. RootStep(d, pp) = [value |-> n - rr, root |-> rp]
      <4> HIDE DEF d, rr, rp, pp
      <4> QED  BY <1>7, <1>9
    <3> QED  BY <3>1
  <2> QED  BY <2>1, <2>2
<1> QED  BY <1>8, <1>9

(* After the last turn the root is the greatest that fits.                 *)
LEMMA RootIs ==
  ASSUME NEW n \in Nat, n < Power[WordBits]
  PROVE  Isqrt(n) \in Nat /\ Isqrt(n) * Isqrt(n) =< n /\ (Isqrt(n) + 1) * (Isqrt(n) + 1) > n
<1> DEFINE T == WordBits \div 2
<1>0. T \in Nat /\ WordBits = 2 * T
  BY BiosAssumption
<1>1. PICK run : /\ run[0] = [value |-> n, root |-> 0]
                 /\ \A k \in 1..T : run[k] = RootStep(run[k - 1], Power[WordBits - 2 * k])
                 /\ Isqrt(n) = run[T].root
  BY <1>0, RootRule
<1> HIDE DEF T
<1> DEFINE RootAt(k, r) == /\ run[k] = [value |-> n - r * r, root |-> r * Power[T - k]]
                       /\ r * r =< n /\ n < (r + Power[T - k]) * (r + Power[T - k])
           U == {k \in Nat : k =< T => \E r \in Nat : RootAt(k, r)}
<1>2. 0 \in U
  <2>1. Power[T] \in Nat /\ Power[2 * T] = Power[T] * Power[T]
    <3>1. T \in 0..WordBits
      BY <1>0
    <3> QED  BY <1>0, <3>1, PowerNext, PowerSquare
  <2>2. n < Power[T] * Power[T]
    BY <1>0, <2>1
  <2> DEFINE p == Power[T]
  <2>3. /\ n - 0 * 0 = n /\ 0 * p = 0 /\ 0 * 0 =< n /\ (0 + p) * (0 + p) = p * p
    <3>1. p \in Nat
      BY <2>1
    <3> HIDE DEF p
    <3> QED  BY <3>1
  <2>4. T - 0 = T
    BY <1>0
  <2>5. RootAt(0, 0)
    BY <1>1, <2>2, <2>3, <2>4
  <2> HIDE DEF RootAt
  <2> QED  BY <2>5
<1>3. ASSUME NEW k \in Nat, k \in U PROVE k + 1 \in U
  <2>1. SUFFICES ASSUME k + 1 =< T PROVE \E r \in Nat : RootAt(k + 1, r)
    <3> HIDE DEF RootAt
    <3> QED  OBVIOUS
  <2>2. PICK r \in Nat : RootAt(k, r)
    <3> HIDE DEF RootAt
    <3>1. k =< T
      BY <1>0, <2>1
    <3> QED  BY <1>3, <3>1
  <2> DEFINE p == Power[T - (k + 1)]
  <2>3. /\ T - (k + 1) \in 0..WordBits /\ T - k \in 1..WordBits /\ (T - k) - 1 = T - (k + 1)
        /\ 2 * (T - (k + 1)) =< WordBits /\ T - (k + 1) \in Nat
        /\ WordBits - 2 * (k + 1) = 2 * (T - (k + 1))
        /\ k + 1 \in 1..T /\ (k + 1) - 1 = k
    BY <1>0, <2>1
  <2>4. p \in Nat /\ p >= 1 /\ Power[T - k] = 2 * p
    BY <2>3, PowerNext
  <2>5. Power[WordBits - 2 * (k + 1)] = p * p
    BY <2>3, PowerSquare
  <2>6. run[k + 1] = RootStep([value |-> n - r * r, root |-> r * (2 * p)], p * p)
    BY <1>1, <2>2, <2>3, <2>4, <2>5
  <2>7. r * r =< n /\ n < (r + 2 * p) * (r + 2 * p)
    BY <2>2, <2>4
  <2> HIDE DEF p, RootAt
  <2>8. PICK q \in Nat : /\ RootStep([value |-> n - r * r, root |-> r * (2 * p)], p * p)
                            = [value |-> n - q * q, root |-> q * p]
                         /\ q * q =< n /\ n < (q + p) * (q + p)
    BY <2>4, <2>7, RootTurn
  <2>9. RootAt(k + 1, q)
    BY <2>6, <2>8 DEF RootAt, p
  <2> QED  BY <2>9
<1>4. T \in U
  <2> HIDE DEF U
  <2>1. Nat \subseteq U
    BY <1>2, <1>3, SetInduction
  <2> QED  BY <1>0, <2>1
<1>5. PICK r \in Nat : RootAt(T, r)
  <2> HIDE DEF RootAt
  <2> QED  BY <1>0, <1>4
<1>6. T - T = 0 /\ Power[0] = 1
  BY <1>0, PowerNext
<1>7. Isqrt(n) = r * 1 /\ r * r =< n /\ n < (r + 1) * (r + 1)
  BY <1>1, <1>5, <1>6
<1>8. r * 1 = r
  OBVIOUS
<1> QED  BY <1>7, <1>8

(* Division of what is not negative.                                       *)
LEMMA DividedIs ==
  ASSUME NEW a \in Nat, NEW b \in Nat, b >= 1
  PROVE  a \div b \in Nat /\ a % b \in 0..(b - 1) /\ a = b * (a \div b) + (a % b)
<1>1. b \in Nat \ {0} /\ a \in Int
  OBVIOUS
<1>2. a \div b \in Nat
  BY <1>1, DivNext
<1>3. a % b \in 0..(b - 1) /\ a = b * (a \div b) + (a % b)
  BY <1>1, DivIs
<1> QED  BY <1>2, <1>3

(* Quotient and remainder of gba_signed_div, for its overflow as well.     *)
LEMMA SignedDivIs ==
  ASSUME NEW num \in Int, NEW den \in Int, den # 0, Smallest =< num, num < -Smallest
  PROVE  LET r == SignedDiv(num, den)
         IN  /\ Modular(r.q * den + r.r) = Modular(num)
             /\ Magnitude(r.r) < Magnitude(den)
             /\ r.r # 0 => (r.r < 0 <=> num < 0)
             /\ r.abs = Magnitude(r.q)
<1> DEFINE half == Power[WordBits - 1]
<1>1. half \in Nat /\ half >= 1 /\ Power[WordBits] = 2 * half /\ Smallest = -half
  <2>1. WordBits \in Nat /\ WordBits - 1 \in 0..WordBits /\ WordBits \in 1..WordBits
    BY BiosAssumption
  <2> QED  BY <2>1, PowerNext DEF Smallest
<1> HIDE DEF half
<1>2. CASE num = Smallest /\ den = -1
  <2>1. SignedDiv(num, den) = [q |-> Smallest, r |-> 0, abs |-> -Smallest]
    BY <1>2 DEF SignedDiv
  <2>2. (-half) * (-1) + 0 = half
    BY <1>1
  <2>3. half % (2 * half) = half /\ (-half) % (2 * half) = half
    <3>1. half = (2 * half) * 0 + half /\ -half = (2 * half) * (-1) + half
      BY <1>1
    <3>2. 2 * half \in Nat \ {0} /\ half \in 0..(2 * half - 1)
      BY <1>1
    <3>3. ((2 * half) * 0 + half) % (2 * half) = half /\ ((2 * half) * (-1) + half) % (2 * half) = half
      <4> DEFINE w == 2 * half
      <4> HIDE DEF w
      <4>1. w \in Nat \ {0} /\ half \in 0..(w - 1) /\ 0 \in Int /\ -1 \in Int
        BY <3>2 DEF w
      <4>2. (w * 0 + half) % w = half /\ (w * (-1) + half) % w = half
        BY <4>1, DivMod
      <4> QED  BY <4>2 DEF w
    <3> QED  BY <3>1, <3>3
  <2>4. \A x \in Int : Magnitude(x) = IF x < 0 THEN -x ELSE x
    BY DEF Magnitude
  <2>5. Magnitude(0) = 0 /\ Magnitude(-1) = 1 /\ Magnitude(-half) = half
    BY <1>1, <2>4
  <2> QED  BY <1>1, <1>2, <2>1, <2>2, <2>3, <2>5 DEF Modular
<1>3. CASE ~(num = Smallest /\ den = -1)
  <2> DEFINE a == Magnitude(num)
             b == Magnitude(den)
             s == IF (num < 0) = (den < 0) THEN 1 ELSE -1
             v == a \div b
             r == num - (s * v) * den
  <2>1. a \in Nat /\ b \in Nat /\ b >= 1
    BY DEF Magnitude
  <2>2. v \in Nat /\ a % b \in 0..(b - 1) /\ a = b * v + (a % b)
    BY <2>1, DividedIs
  <2>3. SignedDiv(num, den) = [q |-> s * v, r |-> r, abs |-> Magnitude(s * v)]
    BY <1>3 DEF SignedDiv
  <2> DEFINE m == a % b
  <2>4. /\ num = (IF num < 0 THEN -a ELSE a) /\ den = (IF den < 0 THEN -b ELSE b)
    BY DEF Magnitude
  <2> HIDE DEF a, b, v, m
  <2>5. b * v \in Nat /\ m \in Nat /\ m < b /\ a = b * v + m
    BY <2>1, <2>2 DEF m
  <2>6. (s * v) * den = IF num < 0 THEN -(b * v) ELSE b * v
    <3>1. CASE num < 0 /\ den < 0
      <4>1. den = -b /\ s = 1
        BY <3>1, <2>4
      <4>2. (1 * v) * (-b) = -(b * v)
        BY <2>1, <2>2
      <4> QED  BY <3>1, <4>1, <4>2
    <3>2. CASE num < 0 /\ ~(den < 0)
      <4>1. den = b /\ s = -1
        BY <3>2, <2>4
      <4>2. ((-1) * v) * b = -(b * v)
        BY <2>1, <2>2
      <4> QED  BY <3>2, <4>1, <4>2
    <3>3. CASE ~(num < 0) /\ den < 0
      <4>1. den = -b /\ s = -1
        BY <3>3, <2>4
      <4>2. ((-1) * v) * (-b) = b * v
        BY <2>1, <2>2
      <4> QED  BY <3>3, <4>1, <4>2
    <3>4. CASE ~(num < 0) /\ ~(den < 0)
      <4>1. den = b /\ s = 1
        BY <3>4, <2>4
      <4>2. (1 * v) * b = b * v
        BY <2>1, <2>2
      <4> QED  BY <3>4, <4>1, <4>2
    <3> QED  BY <3>1, <3>2, <3>3, <3>4
  <2>7. r = IF num < 0 THEN -m ELSE m
    BY <2>4, <2>5, <2>6
  <2>8. (s * v) * den + r = num
    BY <2>4, <2>5, <2>6, <2>7
  <2>9. Magnitude(r) < b /\ (r # 0 => (r < 0 <=> num < 0))
    <3> HIDE DEF r
    <3> QED  BY <2>5, <2>7 DEF Magnitude
  <2> HIDE DEF r, s
  <2> QED  BY <2>3, <2>8, <2>9 DEF b
<1> QED  BY <1>2, <1>3

(* Copying k units of w bytes has put them where they belong.               *)
Apart(fill, from, to, length) == fill \/ from >= to \/ from + length =< to
CopiedTo(m, c, w, from, to, k, fill, apart) ==
  /\ c = [x \in 0..Top |-> c[x]]
  /\ \A x \in 0..Top :
       IF x \in to..(to + w * k - 1)
       THEN apart => c[x] = m[from + (IF fill THEN (x - to) % w ELSE x - to)]
       ELSE c[x] = m[x]

UnitFits(u, w, from, to, n, k) ==
  /\ w \in Nat \ {0} /\ from \in Nat /\ to \in Nat /\ n \in Nat /\ k \in Nat /\ k < n
  /\ u.unit = w /\ u.from = from /\ u.to = to /\ from + w * n =< Top + 1

(* One unit more is in its place, if the source was not overwritten.       *)
LEMMA UnitMoved ==
  ASSUME NEW m, NEW c, NEW u, NEW w, NEW from, NEW to, NEW n, NEW fill, NEW k, UnitFits(u, w, from, to, n, k),
         CopiedTo(m, c, w, from, to, k, fill, Apart(fill, from, to, w * n))
  PROVE  CopiedTo(m, MoveUnit(m, c, u, fill, k), w, from, to, k + 1, fill, Apart(fill, from, to, w * n))
<1> DEFINE done == w * k
           all == w * n
           put == to + done
           got == from + (IF fill THEN 0 ELSE done)
           r == MoveUnit(m, c, u, fill, k)
           apart == Apart(fill, from, to, all)
<1>0. /\ w \in Nat \ {0} /\ from \in Nat /\ to \in Nat /\ n \in Nat /\ k \in Nat /\ k < n
      /\ u.unit = w /\ u.from = from /\ u.to = to /\ from + w * n =< Top + 1 /\ Top \in Nat
  BY BiosAssumption DEF UnitFits
<1>1. done \in Nat /\ all \in Nat /\ w * (k + 1) = done + w /\ done + w =< all
  <2>1. w * (k + 1) = done + w
    BY <1>0
  <2>2. \A i \in Nat : w * i \in Nat
    BY <1>0
  <2>3. n - (k + 1) \in Nat /\ w * (n - (k + 1)) = all - (done + w)
    BY <1>0
  <2>4. w * (n - (k + 1)) \in Nat /\ done \in Nat /\ all \in Nat
    BY <1>0, <2>2, <2>3
  <2>5. w \in Nat
    BY <1>0
  <2> HIDE DEF done, all
  <2>6. all - (done + w) \in Nat
    BY <2>3, <2>4
  <2> QED  BY <2>1, <2>4, <2>5, <2>6
<1>2. r = [x \in 0..Top |-> IF x \in put..(put + w - 1)
                            THEN (IF fill THEN m ELSE c)[got + x - put] ELSE c[x]]
  <2>1. DOMAIN c = 0..Top
    BY DEF CopiedTo
  <2> QED  BY <1>0, <2>1 DEF MoveUnit
<1> HIDE DEF r
<1>3. r = [x \in 0..Top |-> r[x]]
  BY <1>2
<1>4. ASSUME NEW x \in 0..Top
      PROVE  IF x \in to..(to + (done + w) - 1)
             THEN apart => r[x] = m[from + (IF fill THEN (x - to) % w ELSE x - to)]
             ELSE r[x] = m[x]
  <2>0. /\ x \in to..(to + done - 1) => (apart => c[x] = m[from + (IF fill THEN (x - to) % w ELSE x - to)])
        /\ x \notin to..(to + done - 1) => c[x] = m[x]
    BY DEF CopiedTo
  <2>1. CASE x \in put..(put + w - 1)
    <3>1. r[x] = (IF fill THEN m ELSE c)[got + x - put]
      BY <1>2, <2>1
    <3>2. x \in to..(to + (done + w) - 1) /\ x - to >= done /\ x - to < done + w /\ x - to \in Nat
      <4> HIDE DEF done
      <4> QED  BY <1>0, <1>1, <2>1
    <3>3. CASE fill
      <4>1. (x - to) % w = x - put
        <5>1. x - put \in 0..(w - 1) /\ x - to = done + (x - put)
          <6> HIDE DEF done
          <6> QED  BY <1>0, <1>1, <2>1
        <5> DEFINE e == x - put
        <5> HIDE DEF e
        <5>2. (w * k + e) % w = e
          <6>1. e \in 0..(w - 1) /\ k \in Int
            BY <1>0, <5>1 DEF e
          <6> QED  BY <1>0, <6>1, DivMod
        <5> QED  BY <5>1, <5>2 DEF e
      <4>2. got + x - put = from + (x - put)
        <5> HIDE DEF done
        <5> QED  BY <1>0, <1>1, <3>3
      <4> QED  BY <3>1, <3>2, <3>3, <4>1, <4>2
    <3>4. CASE ~fill
      <4> DEFINE y == from + (x - to)
      <4>1. got + x - put = y
        <5> HIDE DEF done
        <5> QED  BY <1>0, <1>1, <3>4
      <4>2. y \in 0..Top
        <5> HIDE DEF done, all
        <5> QED  BY <1>0, <1>1, <3>2
      <4>3. apart => y \notin to..(to + done - 1)
        <5> HIDE DEF done, all
        <5> QED  BY <1>0, <1>1, <3>2, <3>4 DEF Apart
      <4>4. apart => c[y] = m[y]
        BY <4>2, <4>3 DEF CopiedTo
      <4> QED  BY <3>1, <3>2, <3>4, <4>1, <4>4
    <3> QED  BY <3>3, <3>4
  <2>2. CASE ~(x \in put..(put + w - 1))
    <3>1. r[x] = c[x]
      BY <1>2, <2>2
    <3>2. x \in to..(to + (done + w) - 1) <=> x \in to..(to + done - 1)
      <4> HIDE DEF done
      <4> QED  BY <1>0, <1>1, <2>2
    <3> QED  BY <2>0, <3>1, <3>2
  <2> QED  BY <2>1, <2>2
<1> QED  BY <1>0, <1>1, <1>3, <1>4 DEF CopiedTo, r

(* Rounding down, as masks of an address do.                               *)
LEMMA WholePart ==
  ASSUME NEW w \in Nat \ {0}, NEW a \in Nat
  PROVE  w * (a \div w) = a - (a % w) /\ a - (a % w) \in Nat /\ a - (a % w) =< a
<1>1. a \div w \in Nat /\ a % w \in 0..(w - 1) /\ a = w * (a \div w) + (a % w)
  <2>1. w \in Nat /\ w >= 1
    OBVIOUS
  <2> QED  BY <2>1, DividedIs
<1> DEFINE q == a \div w
           r == a % w
           t == w * q
<1>2. t \in Nat
  <2>1. q \in Nat
    BY <1>1
  <2> HIDE DEF q
  <2> QED  BY <2>1
<1> HIDE DEF t, r
<1>3. r \in Nat /\ a = t + r
  BY <1>1 DEF t, r
<1>4. t = a - r /\ a - r \in Nat /\ a - r =< a
  BY <1>2, <1>3
<1> QED  BY <1>4 DEF t, r

(* What CpuSet and CpuFastSet leave in memory.                             *)
LEMMA CopyIs ==
  ASSUME NEW m, m = [x \in 0..Top |-> m[x]], NEW b \in Blocks, NEW fast \in BOOLEAN
  PROVE  LET unit == IF fast \/ b.word THEN 4 ELSE 2
             from == b.src - (b.src % unit)
             to == b.dst - (b.dst % unit)
             bytes == unit * (IF fast THEN b.count - (b.count % 8) ELSE b.count)
         IN  CopiedTo(m, CpuSet(m, b, fast), unit, from, to, IF fast THEN b.count - (b.count % 8) ELSE b.count,
                      b.fill, Apart(b.fill, from, to, bytes))
<1> DEFINE u == Units(b, fast)
           w == IF fast \/ b.word THEN 4 ELSE 2
           from == b.src - (b.src % w)
           to == b.dst - (b.dst % w)
           n == IF fast THEN b.count - (b.count % 8) ELSE b.count
           apart == Apart(b.fill, from, to, w * n)
<1>1. /\ b.src \in Nat /\ b.dst \in Nat /\ b.count \in Nat /\ b.fill \in BOOLEAN /\ b.word \in BOOLEAN
      /\ b.src + 4 * b.count + 3 =< Top /\ Top \in Nat
  BY BiosAssumption
<1>2. w \in {2, 4} /\ w \in Nat \ {0}
  BY <1>1
<1>3. /\ w * (b.src \div w) = from /\ from \in Nat /\ from =< b.src
      /\ w * (b.dst \div w) = to /\ to \in Nat
  <2> HIDE DEF w
  <2>1. \A a \in Nat : w * (a \div w) = a - (a % w) /\ a - (a % w) \in Nat /\ a - (a % w) =< a
    BY <1>2, WholePart
  <2> QED  BY <1>1, <2>1
<1>4. n \in Nat /\ n =< b.count /\ n = (IF fast THEN 8 * (b.count \div 8) ELSE b.count)
  <2>1. 8 * (b.count \div 8) = b.count - (b.count % 8) /\ b.count - (b.count % 8) \in Nat /\ b.count - (b.count % 8) =< b.count
    <3>1. 8 \in Nat \ {0}
      OBVIOUS
    <3> QED  BY <1>1, <3>1, WholePart
  <2> DEFINE e == b.count - (b.count % 8)
  <2>2. e \in Nat /\ e =< b.count
    BY <2>1
  <2> HIDE DEF e
  <2>3. n = IF fast THEN e ELSE b.count
    BY DEF e
  <2>4. n \in Nat /\ n =< b.count
    <3> HIDE DEF n
    <3> QED  BY <1>1, <2>2, <2>3
  <2> QED  BY <2>1, <2>4
<1>5. u.unit = w /\ u.from = from /\ u.to = to /\ u.count = n
  <2>1. w = IF b.word \/ fast THEN 4 ELSE 2
    BY <1>1
  <2> HIDE DEF w, from, to, n
  <2> QED  BY <1>3, <1>4, <2>1 DEF Units
<1> HIDE DEF w, from, to, u, n, apart
<1>6. from + w * n =< Top + 1
  <2> DEFINE src == b.src
             count == b.count
  <2>1. /\ from \in Nat /\ from =< src /\ n \in Nat /\ n =< count
        /\ src \in Nat /\ count \in Nat /\ src + 4 * count + 3 =< Top /\ Top \in Nat
    BY <1>1, <1>3, <1>4
  <2> HIDE DEF src, count
  <2>2. from + 2 * n =< Top + 1
    BY ONLY <2>1
  <2>3. from + 4 * n =< Top + 1
    BY ONLY <2>1
  <2> QED  BY <1>2, <2>2, <2>3
<1>7. PICK run : /\ run[0] = m
                 /\ \A k \in 1..n : run[k] = MoveUnit(m, run[k - 1], u, b.fill, k - 1)
                 /\ CpuSet(m, b, fast) = run[n]
  <2>1. Units(b, fast).count = n /\ n \in Nat
    BY <1>4, <1>5 DEF u
  <2>2. Units(b, fast).count \in Nat
    BY <2>1
  <2>3. \E run : /\ run[0] = m
                 /\ \A k \in 1..Units(b, fast).count : run[k] = MoveUnit(m, run[k - 1], Units(b, fast), b.fill, k - 1)
                 /\ CpuSet(m, b, fast) = run[Units(b, fast).count]
    BY ONLY <2>2, CopyRule
  <2> QED  BY <2>1, <2>3 DEF u
<1> DEFINE U == {k \in Nat : k =< n => CopiedTo(m, run[k], w, from, to, k, b.fill, apart)}
<1>8. 0 \in U
  <2>1. \A x \in 0..Top : x \notin to..(to + w * 0 - 1)
    <3>1. w * 0 = 0
      BY <1>2
    <3> QED  BY <1>3, <3>1
  <2> QED  BY <1>7, <2>1 DEF CopiedTo
<1>9. ASSUME NEW k \in Nat, k \in U PROVE k + 1 \in U
  <2>1. SUFFICES ASSUME k + 1 =< n PROVE CopiedTo(m, run[k + 1], w, from, to, k + 1, b.fill, apart)
    OBVIOUS
  <2>2. k < n /\ k + 1 \in 1..n /\ (k + 1) - 1 = k
    BY <1>4, <2>1
  <2>3. CopiedTo(m, run[k], w, from, to, k, b.fill, Apart(b.fill, from, to, w * n))
    BY <1>4, <1>9, <2>2 DEF apart
  <2>4. CopiedTo(m, MoveUnit(m, run[k], u, b.fill, k), w, from, to, k + 1, b.fill, Apart(b.fill, from, to, w * n))
    <3>1. UnitFits(u, w, from, to, n, k)
      BY <1>2, <1>3, <1>4, <1>5, <1>6, <2>2 DEF UnitFits
    <3> QED  BY <2>3, <3>1, UnitMoved
  <2> QED  BY <1>7, <2>2, <2>4 DEF apart
<1>10. n \in U
  <2> HIDE DEF U
  <2>1. Nat \subseteq U
    BY <1>8, <1>9, SetInduction
  <2> QED  BY <1>4, <2>1
<1>11. CopiedTo(m, CpuSet(m, b, fast), w, from, to, n, b.fill, apart)
  BY <1>4, <1>7, <1>10
<1> QED  BY <1>11 DEF w, from, to, n, apart

(* Sums go up by a number at a time.                                       *)
LEMMA SumsAre ==
  ASSUME NEW numbers \in Seq(Nat)
  PROVE  /\ Sums(numbers)[0] = 0
         /\ \A k \in 1..Len(numbers) : Sums(numbers)[k] = Sums(numbers)[k - 1] + numbers[k]
         /\ \A k \in 0..Len(numbers) : Sums(numbers)[k] \in Nat
<1> DEFINE total == Len(numbers)
           sums == Sums(numbers)
<1>0. total \in Nat /\ \A k \in 1..total : numbers[k] \in Nat
  OBVIOUS
<1>1. sums[0] = 0 /\ \A k \in 1..total : sums[k] = sums[k - 1] + numbers[k]
  <2>1. Len(numbers) \in Nat
    OBVIOUS
  <2> QED  BY ONLY <2>1, SumsRule
<1> HIDE DEF total, sums
<1> DEFINE U == {k \in Nat : k =< total => sums[k] \in Nat}
<1>2. 0 \in U
  BY <1>1
<1>3. ASSUME NEW k \in Nat, k \in U PROVE k + 1 \in U
  <2>1. SUFFICES ASSUME k + 1 =< total PROVE sums[k + 1] \in Nat
    OBVIOUS
  <2>2. k + 1 \in 1..total /\ (k + 1) - 1 = k /\ k =< total
    BY <1>0, <2>1
  <2>3. sums[k + 1] = sums[k] + numbers[k + 1]
    BY <1>1, <2>2
  <2>4. sums[k] \in Nat
    BY <1>3, <2>2
  <2>5. numbers[k + 1] \in Nat
    BY <1>0, <2>2
  <2> QED  BY <2>3, <2>4, <2>5
<1>4. Nat \subseteq U
  <2> HIDE DEF U
  <2> QED  BY <1>2, <1>3, SetInduction
<1> QED  BY <1>0, <1>1, <1>4 DEF total, sums

(* What is assumed of a stream.                                            *)
LEMMA StreamIs ==
  ASSUME NEW s \in Streams
  PROVE  /\ s.lz \in BOOLEAN /\ s.vram \in BOOLEAN /\ s.real \in BOOLEAN /\ s.size \in Nat /\ s.dst \in Nat
         /\ s.bytes \in Seq(Byte) /\ Len(s.tokens) \in Nat
         /\ \A k \in 1..Len(s.tokens) : s.tokens[k] \in Token /\ Holds(s, k)
         /\ s.size =< Told(s)[Len(s.tokens)]
<1>1. s \in Stream
  BY BiosAssumption
<1>2. s.tokens \in Seq(Token)
  BY <1>1 DEF Stream
<1> QED  BY <1>1, <1>2, BiosAssumption DEF Stream

(* The bytes that tokens stand for.                                        *)
LEMMA ToldIs ==
  ASSUME NEW s \in Streams
  PROVE  /\ Told(s)[0] = 0
         /\ \A k \in 1..Len(s.tokens) : Told(s)[k] = Told(s)[k - 1] + s.tokens[k].n
         /\ \A k \in 0..Len(s.tokens) : Told(s)[k] \in Nat
<1> DEFINE total == Len(s.tokens)
           numbers == [k \in 1..total |-> s.tokens[k].n]
<1>1. total \in Nat /\ \A k \in 1..total : s.tokens[k].n \in Nat
  BY StreamIs DEF Token
<1>2. numbers \in Seq(Nat) /\ Len(numbers) = total /\ \A k \in 1..total : numbers[k] = s.tokens[k].n
  BY <1>1
<1>3. Told(s) = Sums(numbers)
  BY DEF Told
<1> HIDE DEF numbers
<1> QED  BY <1>2, <1>3, SumsAre

(* The bytes of the stream that tokens take.                               *)
LEMMA TookIs ==
  ASSUME NEW s \in Streams
  PROVE  /\ Took(s)[0] = 0
         /\ \A k \in 1..Len(s.tokens) : Took(s)[k] = Took(s)[k - 1] + BytesOf(s, k)
         /\ \A k \in 0..Len(s.tokens) : Took(s)[k] \in Nat
<1> DEFINE total == Len(s.tokens)
           numbers == [k \in 1..total |-> BytesOf(s, k)]
<1>1. total \in Nat /\ \A k \in 1..total : BytesOf(s, k) \in Nat
  BY StreamIs DEF Token, BytesOf
<1>2. numbers \in Seq(Nat) /\ Len(numbers) = total /\ \A k \in 1..total : numbers[k] = BytesOf(s, k)
  BY <1>1
<1>3. Took(s) = Sums(numbers)
  BY DEF Took
<1> HIDE DEF numbers
<1> QED  BY <1>2, <1>3, SumsAre

(* Tokens stand for a byte at least.                                        *)
LEMMA ToldGrows ==
  ASSUME NEW s \in Streams
  PROVE  /\ \A k \in 0..Len(s.tokens) : Told(s)[k] >= k
         /\ \A j, k \in 0..Len(s.tokens) : j =< k => Told(s)[j] =< Told(s)[k]
<1> DEFINE total == Len(s.tokens)
           told == Told(s)
<1>0. /\ total \in Nat /\ told[0] = 0 /\ \A k \in 0..total : told[k] \in Nat
      /\ \A k \in 1..total : told[k] = told[k - 1] + s.tokens[k].n /\ s.tokens[k].n \in Nat /\ s.tokens[k].n >= 1
  BY StreamIs, ToldIs DEF Token
<1> HIDE DEF total, told
<1> DEFINE U == {k \in Nat : k =< total => told[k] >= k /\ \A j \in 0..k : told[j] =< told[k]}
<1>1. 0 \in U
  BY <1>0
<1>2. ASSUME NEW k \in Nat, k \in U PROVE k + 1 \in U
  <2>1. SUFFICES ASSUME k + 1 =< total PROVE told[k + 1] >= k + 1 /\ \A j \in 0..(k + 1) : told[j] =< told[k + 1]
    OBVIOUS
  <2>2. k + 1 \in 1..total /\ (k + 1) - 1 = k /\ k \in 0..total
    BY <1>0, <2>1
  <2>3. /\ told[k] \in Nat /\ told[k] >= k /\ \A j \in 0..k : told[j] =< told[k]
        /\ told[k + 1] \in Nat /\ told[k + 1] >= told[k] + 1
    BY <1>0, <1>2, <2>2
  <2>4. ASSUME NEW j \in 0..(k + 1) PROVE told[j] =< told[k + 1]
    <3>1. CASE j = k + 1
      BY <2>3, <3>1
    <3>2. CASE j \in 0..k
      <4>1. told[j] \in Nat
        BY <1>0, <2>2, <3>2
      <4> QED  BY <2>3, <3>2, <4>1
    <3> QED  BY <3>1, <3>2
  <2> QED  BY <2>3, <2>4
<1>3. Nat \subseteq U
  <2> HIDE DEF U
  <2> QED  BY <1>1, <1>2, SetInduction
<1>4. ASSUME NEW k \in 0..total PROVE told[k] >= k /\ \A j \in 0..total : j =< k => told[j] =< told[k]
  <2>1. k \in U /\ k =< total
    BY <1>0, <1>3
  <2> QED  BY <1>0, <2>1
<1> QED  BY <1>4 DEF total, told

(* Copying byte by byte from distance before.                               *)
LEMMA RepeatedIs ==
  ASSUME NEW out \in Seq(Byte), NEW distance \in Nat, distance >= 1, distance =< Len(out), NEW n \in Nat
  PROVE  LET r == Repeated(out, distance, n)
         IN  /\ r \in Seq(Byte) /\ Len(r) = Len(out) + n
             /\ \A j \in 1..Len(out) : r[j] = out[j]
             /\ \A i \in 1..n : r[Len(out) + i] = r[Len(out) + i - distance]
<1> DEFINE len == Len(out)
<1>0. len \in Nat
  OBVIOUS
<1>a. PICK run : RepeatTurns(run, out, distance, n)
  BY RepeatRule
<1>1. /\ run[0] = out
      /\ \A k \in 1..n : run[k] = Append(run[k - 1], run[k - 1][len + k - distance])
      /\ Repeated(out, distance, n) = run[n]
  BY <1>a DEF RepeatTurns
<1> DEFINE Longer(r, k) == /\ r \in Seq(Byte) /\ Len(r) = len + k
                           /\ \A j \in 1..len : r[j] = out[j]
                           /\ \A i \in 1..k : r[len + i] = r[len + i - distance]
           U == {k \in Nat : k =< n => Longer(run[k], k)}
<1>2. 0 \in U
  BY <1>0, <1>1
<1>3. ASSUME NEW k \in Nat, k \in U PROVE k + 1 \in U
  <2>1. SUFFICES ASSUME k + 1 =< n PROVE Longer(run[k + 1], k + 1)
    <3> HIDE DEF Longer
    <3> QED  OBVIOUS
  <2>2. k + 1 \in 1..n /\ (k + 1) - 1 = k /\ k =< n
    BY <2>1
  <2> DEFINE o == run[k]
             x == o[len + (k + 1) - distance]
             r == Append(o, x)
  <2>3. Longer(o, k)
    <3> HIDE DEF Longer
    <3> QED  BY <1>3, <2>2
  <2>4. run[k + 1] = r
    BY <1>1, <2>2
  <2>5. o \in Seq(Byte) /\ Len(o) = len + k
    BY <2>3
  <2>6. len + (k + 1) - distance \in 1..Len(o)
    <3> HIDE DEF len, o
    <3> QED  BY <1>0, <2>5 DEF len
  <2>7. x \in Byte
    BY <2>5, <2>6
  <2> HIDE DEF o, x, len
  <2>8. /\ r \in Seq(Byte) /\ Len(r) = len + (k + 1) /\ \A j \in 1..(len + k) : r[j] = o[j]
        /\ r[len + (k + 1)] = x
    BY <1>0, <2>5, <2>7
  <2> HIDE DEF r
  <2>9. \A j \in 1..len : r[j] = out[j]
    BY <1>0, <2>3, <2>8
  <2>10. ASSUME NEW i \in 1..(k + 1) PROVE r[len + i] = r[len + i - distance]
    <3>1. len + i - distance \in 1..(len + k)
      BY <1>0 DEF len
    <3>2. r[len + i - distance] = o[len + i - distance]
      BY <2>8, <3>1
    <3>3. CASE i = k + 1
      BY <2>8, <3>2, <3>3 DEF x
    <3>4. CASE i \in 1..k
      <4>1. len + i \in 1..(len + k)
        BY <1>0, <3>4
      <4>2. r[len + i] = o[len + i] /\ o[len + i] = o[len + i - distance]
        BY <2>3, <2>8, <3>4, <4>1
      <4> QED  BY <3>2, <4>2
    <3> QED  BY <3>3, <3>4
  <2> QED  BY <2>4, <2>8, <2>9, <2>10
<1>4. n \in U
  <2> HIDE DEF U
  <2>1. Nat \subseteq U
    BY <1>2, <1>3, SetInduction
  <2> QED  BY <2>1
<1>5. Longer(run[n], n)
  <2> HIDE DEF Longer
  <2> QED  BY <1>4
<1> QED  BY <1>1, <1>5

(* out has what the first q tokens stand for, as far as it goes.            *)
Told1(t, out, j, i) == out[j] = IF t.kind = "back" THEN out[j - t.distance] ELSE t.bytes[i]
Tells(s, out, q) ==
  \A k \in 1..q : \A i \in 1..s.tokens[k].n :
    Told(s)[k - 1] + i =< Len(out) => Told1(s.tokens[k], out, Told(s)[k - 1] + i, i)
PointsBack(s, q) ==
  \A k \in 1..q : s.tokens[k].kind = "back" => s.tokens[k].distance \in 1..Told(s)[k - 1]

\* p is out and of token k what fits
Tells1(s, out, p, k) ==
  LET t == s.tokens[k]
  IN  /\ Len(p) >= Len(out) /\ Len(p) =< Told(s)[k]
      /\ \A j \in 1..Len(out) : p[j] = out[j]
      /\ \A i \in 1..(Len(p) - Len(out)) :
           Told1(t, p, Len(out) + i, i)

(* A token written after the others.                                       *)
LEMMA TellsMore ==
  ASSUME NEW s \in Streams, NEW k \in 1..Len(s.tokens), NEW out \in Seq(Byte), NEW p \in Seq(Byte),
         Len(out) = Told(s)[k - 1], Tells(s, out, k - 1), PointsBack(s, k - 1), Tells1(s, out, p, k)
  PROVE  Tells(s, p, k)
<1> DEFINE told == Told(s)
           N == Len(s.tokens)
<1>0. /\ N \in Nat /\ told[0] = 0 /\ \A j \in 0..N : told[j] \in Nat
      /\ \A j \in 1..N : told[j] = told[j - 1] + s.tokens[j].n /\ s.tokens[j].n \in Nat /\ s.tokens[j].n >= 1
      /\ \A i, j \in 0..N : i =< j => told[i] =< told[j]
  BY StreamIs, ToldIs, ToldGrows DEF Token
<1>1. Len(out) \in Nat /\ Len(p) \in Nat
  OBVIOUS
<1> HIDE DEF told, N
<1>2. /\ k \in 1..N /\ k - 1 \in 0..N /\ Len(out) = told[k - 1]
  BY <1>0 DEF N, told
<1> SUFFICES ASSUME NEW q \in 1..k, NEW i \in 1..s.tokens[q].n, told[q - 1] + i =< Len(p)
             PROVE  Told1(s.tokens[q], p, told[q - 1] + i, i)
  BY DEF Tells, told
<1> DEFINE from == told[q - 1]
           n == s.tokens[q].n
           len == Len(out)
<1>3. q \in 1..N /\ q - 1 \in 0..N /\ q \in 0..N /\ from \in Nat /\ n \in Nat /\ i \in 1..n /\ len \in Nat
  BY <1>0, <1>1, <1>2
<1>4. CASE q = k
  <2>1. from = len
    BY <1>2, <1>4
  <2>2. i \in 1..(Len(p) - len)
    <3> HIDE DEF from, n, len
    <3>1. from + i =< Len(p)
      BY DEF from
    <3> QED  BY <1>1, <1>3, <2>1, <3>1
  <2> QED  BY <1>4, <2>1, <2>2 DEF Tells1
<1>5. CASE q # k
  <2>1. q \in 1..(k - 1) /\ q =< k - 1
    BY <1>2, <1>3, <1>5
  <2>2. from + i =< len /\ from + i \in 1..len
    <3>1. told[q] = from + n /\ told[q] =< len /\ len \in Nat
      BY <1>0, <1>1, <1>2, <1>3, <2>1
    <3> DEFINE next == told[q]
    <3>2. next = from + n /\ next =< len /\ len \in Nat /\ from \in Nat /\ n \in Nat /\ i \in 1..n
      BY <1>3, <3>1
    <3> HIDE DEF from, n, len, next
    <3> QED  BY ONLY <3>2
  <2>3. Told1(s.tokens[q], out, from + i, i)
    BY <2>1, <2>2 DEF Tells, told
  <2>4. p[from + i] = out[from + i]
    BY <2>2 DEF Tells1
  <2> DEFINE t == s.tokens[q]
             at == from + i
             dist == t.distance
             x == t.bytes[i]
             back == t.kind = "back"
  <2>5. back => p[at - dist] = out[at - dist]
    <3>1. back => dist \in 1..from
      BY <2>1 DEF PointsBack, told
    <3>2. dist \in 1..from => at - dist \in 1..len
      <4>1. from \in Nat /\ len \in Nat /\ i \in Nat /\ i >= 1 /\ from + i =< len
        BY <1>1, <1>3, <2>2
      <4> HIDE DEF from, n, len, dist
      <4> QED  BY ONLY <4>1 DEF at
    <3> QED  BY <3>1, <3>2 DEF Tells1
  <2>6. out[at] = IF back THEN out[at - dist] ELSE x
    <3>1. Told1(t, out, at, i)
      BY <2>3
    <3> QED  BY <3>1 DEF Told1
  <2>7. p[at] = out[at]
    BY <2>4
  <2>8. p[at] = IF back THEN p[at - dist] ELSE x
    <3> HIDE DEF at, dist, x, back
    <3> QED  BY <2>5, <2>6, <2>7
  <2> QED  BY <2>8 DEF Told1
<1> QED  BY <1>4, <1>5

(* Where a decompressor may be after k turns.                               *)
FlagsOf(s, k) == s.bytes[Took(s)[8 * (k \div 8)] + 1]
Going(s, d, k) ==
  /\ k \in 0..Len(s.tokens) /\ Told(s)[k] < s.size
  /\ d.ok = TRUE /\ d.out \in Seq(Byte) /\ Len(d.out) = Told(s)[k] /\ d.at = Took(s)[k] + 1
  /\ s.lz /\ k % 8 # 0 => d.flags = FlagsOf(s, k)
  /\ Tells(s, d.out, k) /\ PointsBack(s, k)
Finished(s, d) ==
  /\ d.ok = TRUE /\ d.out \in Seq(Byte) /\ Len(d.out) = s.size
  /\ \E q \in 1..Len(s.tokens) :
       Told(s)[q - 1] < s.size /\ s.size =< Told(s)[q] /\ Tells(s, d.out, q) /\ PointsBack(s, q)
Failed(s, d) ==
  /\ d.ok = FALSE
  /\ \E q \in 1..Len(s.tokens) :
       Told(s)[q - 1] < s.size /\ s.tokens[q].kind = "back" /\ s.tokens[q].distance > Told(s)[q - 1]

(* A turn that writes what fits of its token goes on or has finished.       *)
LEMMA TurnDone ==
  ASSUME NEW s \in Streams, NEW k \in 1..Len(s.tokens), NEW d, Going(s, d, k - 1), NEW e,
         e.ok = TRUE, e.out \in Seq(Byte), Tells1(s, d.out, e.out, k), Len(e.out) = Lesser(Told(s)[k], s.size),
         s.tokens[k].kind = "back" => s.tokens[k].distance \in 1..Told(s)[k - 1],
         Told(s)[k] < s.size => e.at = Took(s)[k] + 1 /\ (s.lz /\ k % 8 # 0 => e.flags = FlagsOf(s, k))
  PROVE  Going(s, e, k) \/ Finished(s, e)
<1>0. /\ Len(s.tokens) \in Nat /\ s.size \in Nat /\ Told(s)[k] \in Nat /\ Told(s)[k - 1] \in Nat
  BY StreamIs, ToldIs
<1>1. Tells(s, e.out, k)
  <2>1. d.out \in Seq(Byte) /\ Len(d.out) = Told(s)[k - 1] /\ Tells(s, d.out, k - 1) /\ PointsBack(s, k - 1)
    BY DEF Going
  <2> QED  BY <2>1, TellsMore
<1>2. PointsBack(s, k)
  <2> SUFFICES ASSUME NEW q \in 1..k, s.tokens[q].kind = "back" PROVE s.tokens[q].distance \in 1..Told(s)[q - 1]
    BY DEF PointsBack
  <2>1. CASE q = k
    BY <2>1
  <2>2. CASE q # k
    <3>1. q \in 1..(k - 1)
      BY <1>0, <2>2
    <3> QED  BY <3>1 DEF Going, PointsBack
  <2> QED  BY <2>1, <2>2
<1>3. CASE Told(s)[k] < s.size
  <2>1. Len(e.out) = Told(s)[k]
    BY <1>0, <1>3 DEF Lesser
  <2>2. k \in 0..Len(s.tokens)
    BY <1>0
  <2> QED  BY <1>1, <1>2, <1>3, <2>1, <2>2 DEF Going
<1>4. CASE ~(Told(s)[k] < s.size)
  <2>1. Len(e.out) = s.size /\ s.size =< Told(s)[k]
    BY <1>0, <1>4 DEF Lesser
  <2>2. Told(s)[k - 1] < s.size
    BY DEF Going
  <2> QED  BY <1>1, <1>2, <2>1, <2>2 DEF Finished
<1> QED  BY <1>3, <1>4

(* The byte of flags of a token, which the first of eight brings.           *)
LEMMA GroupOf ==
  ASSUME NEW k \in Nat, k >= 1
  PROVE  /\ k % 8 = 1 <=> (k - 1) % 8 = 0
         /\ k % 8 = 1 => 8 * ((k - 1) \div 8) = k - 1
         /\ k % 8 # 0 => 8 * (k \div 8) = 8 * ((k - 1) \div 8)
<1> DEFINE x == k - 1
           a == x \div 8
           r == x % 8
<1>1. x \in Nat /\ 8 \in Nat \ {0} /\ x + 1 = k
  OBVIOUS
<1> HIDE DEF x
<1>2. /\ a \in Nat /\ r \in 0..7 /\ k \div 8 = a + (IF r = 7 THEN 1 ELSE 0)
      /\ k % 8 = IF r = 7 THEN 0 ELSE r + 1
  BY <1>1, DivNext
<1>3. 8 * a = x - r
  BY <1>1, WholePart
<1>4. (k \div 8 = a /\ 8 * (k \div 8) = 8 * a) \/ k % 8 = 0
  BY <1>2
<1> HIDE DEF a, r
<1> QED  BY <1>1, <1>2, <1>3, <1>4 DEF x, a, r


(* A token, its place and its size.                                         *)
LEMMA TokenIs ==
  ASSUME NEW s \in Streams, NEW k \in 1..Len(s.tokens)
  PROVE  /\ s.tokens[k].kind \in {"plain", "run", "back"} /\ s.tokens[k].n \in Nat /\ s.tokens[k].n >= 1
         /\ s.tokens[k].distance \in Nat /\ s.tokens[k].bytes \in Seq(Byte)
         /\ Told(s)[k] = Told(s)[k - 1] + s.tokens[k].n /\ Told(s)[k - 1] \in Nat /\ Told(s)[k] \in Nat
         /\ Took(s)[k] = Took(s)[k - 1] + BytesOf(s, k) /\ Took(s)[k - 1] \in Nat
         /\ Holds(s, k) /\ k \in Nat /\ k >= 1 /\ k - 1 \in Nat /\ s.size \in Nat
<1>1. Len(s.tokens) \in Nat /\ s.tokens[k] \in Token /\ Holds(s, k) /\ s.size \in Nat
  BY StreamIs
<1>2. k - 1 \in 0..Len(s.tokens) /\ k \in 0..Len(s.tokens) /\ k \in Nat /\ k >= 1 /\ k - 1 \in Nat
  BY <1>1
<1>3. /\ s.tokens[k].kind \in {"plain", "run", "back"} /\ s.tokens[k].n \in Nat /\ s.tokens[k].n >= 1
      /\ s.tokens[k].distance \in Nat /\ s.tokens[k].bytes \in Seq(Byte)
  BY ONLY <1>1 DEF Token
<1>4. Told(s)[k] = Told(s)[k - 1] + s.tokens[k].n /\ Told(s)[k - 1] \in Nat /\ Told(s)[k] \in Nat
  BY <1>2, ToldIs
<1>5. Took(s)[k] = Took(s)[k - 1] + BytesOf(s, k) /\ Took(s)[k - 1] \in Nat
  BY <1>2, TookIs
<1> QED  BY <1>1, <1>2, <1>3, <1>4, <1>5

(* Appending what a token holds, as much as fits.                           *)
Adds(s, k, d, e, n, f) ==
  /\ e.ok = TRUE /\ s.tokens[k].kind # "back" /\ f \in Seq(Byte) /\ Len(f) = n /\ e.out = d.out \o f
  /\ n = Lesser(s.tokens[k].n, s.size - Len(d.out))
  /\ \A i \in 1..n : f[i] = s.tokens[k].bytes[i]
  /\ Told(s)[k] < s.size => e.at = Took(s)[k] + 1 /\ (s.lz /\ k % 8 # 0 => e.flags = FlagsOf(s, k))

(* A turn that adds goes on or has finished.                               *)
LEMMA PlainTurn ==
  ASSUME NEW s \in Streams, NEW k \in 1..Len(s.tokens), NEW d, Going(s, d, k - 1), NEW e, NEW n \in Nat,
         NEW f, Adds(s, k, d, e, n, f)
  PROVE  Going(s, e, k) \/ Finished(s, e)
<1>a. /\ e.ok = TRUE /\ s.tokens[k].kind # "back" /\ f \in Seq(Byte) /\ Len(f) = n /\ e.out = d.out \o f
      /\ n = Lesser(s.tokens[k].n, s.size - Len(d.out))
      /\ \A i \in 1..n : f[i] = s.tokens[k].bytes[i]
      /\ Told(s)[k] < s.size => e.at = Took(s)[k] + 1 /\ (s.lz /\ k % 8 # 0 => e.flags = FlagsOf(s, k))
  BY DEF Adds
<1> DEFINE t == s.tokens[k]
           out == d.out
           r == e.out
           len == Len(out)
           whole == t.n
           size == s.size
           told == Told(s)[k]
<1>1. /\ whole \in Nat /\ whole >= 1 /\ size \in Nat /\ told = Told(s)[k - 1] + whole /\ Told(s)[k - 1] \in Nat
  BY TokenIs
<1>2. out \in Seq(Byte) /\ len = Told(s)[k - 1] /\ len < size
  BY DEF Going
<1>3. len \in Nat /\ Len(f) \in Nat /\ Len(f) = n
  BY <1>2, <1>a
<1>4. r \in Seq(Byte) /\ Len(r) = len + n /\ (\A j \in 1..len : r[j] = out[j]) /\ \A i \in 1..n : r[len + i] = f[i]
  <2>1. out \in Seq(Byte) /\ f \in Seq(Byte)
    BY <1>2, <1>a
  <2> HIDE DEF out
  <2>2. /\ out \o f \in Seq(Byte) /\ Len(out \o f) = Len(out) + Len(f)
        /\ \A i \in 1..(Len(out) + Len(f)) :
             (out \o f)[i] = IF i <= Len(out) THEN out[i] ELSE f[i - Len(out)]
    BY ONLY <2>1, ConcatProperties
  <2>3. r = out \o f
    BY <1>a DEF out
  <2> HIDE DEF r
  <2>4. ASSUME NEW j \in 1..len PROVE r[j] = out[j]
    <3>1. j \in 1..(Len(out) + Len(f)) /\ j <= Len(out)
      BY <1>3
    <3> QED  BY <2>2, <2>3, <3>1
  <2>5. ASSUME NEW i \in 1..n PROVE r[len + i] = f[i]
    <3>1. len + i \in 1..(Len(out) + Len(f)) /\ ~(len + i <= Len(out)) /\ (len + i) - Len(out) = i
      BY <1>3
    <3> QED  BY <2>2, <2>3, <3>1
  <2>6. r \in Seq(Byte) /\ Len(r) = len + n
    BY <1>3, <2>2, <2>3
  <2> QED  BY <2>4, <2>5, <2>6
<1> DEFINE grown == Len(r)
<1>5. grown = Lesser(told, size) /\ grown >= len /\ grown =< told /\ grown - len = n
  <2>1. n = Lesser(whole, size - len) /\ grown = len + n /\ told = len + whole /\ len < size
        /\ len \in Nat /\ size \in Nat /\ whole \in Nat
    BY <1>1, <1>2, <1>3, <1>4, <1>a
  <2> HIDE DEF grown, r, told, whole, size, len
  <2> QED  BY ONLY <2>1, n \in Nat DEF Lesser
<1>6. Tells1(s, d.out, e.out, k)
  <2>2. ASSUME NEW i \in 1..n PROVE Told1(t, r, len + i, i)
    <3> QED  BY <1>4, <1>a DEF Told1
  <2> QED  BY <1>4, <1>5, <2>2 DEF Tells1
<1> HIDE DEF Going, Finished, Tells1
<1> QED  BY <1>4, <1>5, <1>6, <1>a, TurnDone

(* The two bytes of a reference give back its length and distance.         *)
LEMMA ReferenceIs ==
  ASSUME NEW n, NEW distance, NEW b, NEW c, Reference(n, distance, b, c)
  PROVE  256 * (b % 16) + c + 1 = distance /\ (b \div 16) + 3 = n
<1> DEFINE x == distance - 1
           h == x \div 256
           low == x % 256
           q == 256
<1>0. x \in Int /\ q \in Nat \ {0} /\ x >= 0 /\ x =< 4095 /\ n \in Int /\ distance \in Int
  BY DEF Reference
<1>1. h = x \div q /\ low = x % q
  OBVIOUS
<1>2. b = 16 * (n - 3) + h /\ c = low
  BY DEF Reference
<1> HIDE DEF x, h, low
<1>3. h \in Int /\ low \in Int /\ low >= 0 /\ low =< 255 /\ x = 256 * h + low
  <2> HIDE DEF q
  <2>1. x \div q \in Int /\ x % q \in 0..(q - 1) /\ x = q * (x \div q) + (x % q)
    BY ONLY <1>0, DivIs
  <2>2. h \in Int /\ low \in 0..(q - 1) /\ x = q * h + low
    BY ONLY <1>1, <2>1
  <2> QED  BY ONLY <2>2 DEF q
<1>4. h >= 0 /\ h =< 15
  BY ONLY <1>0, <1>3
<1>5. b \div 16 = n - 3 /\ b % 16 = h
  <2> DEFINE y == n - 3
             p == 16
  <2>1. y \in Int /\ p \in Nat \ {0} /\ h \in 0..(p - 1)
    BY <1>0, <1>3, <1>4
  <2>2. b = p * y + h
    BY <1>2
  <2> HIDE DEF y, p
  <2>3. b \div p = y /\ b % p = h
    BY ONLY <2>1, <2>2, DivMod
  <2> QED  BY <2>3 DEF y, p
<1>6. x + 1 = distance
  BY <1>0 DEF x
<1> QED  BY <1>0, <1>2, <1>3, <1>5, <1>6

(* What is left of a text after the first l bytes, and of its size.         *)
LEMMA LesserOfSum ==
  ASSUME NEW l \in Nat, NEW n \in Nat, NEW size \in Nat, l =< size
  PROVE  /\ Lesser(n, size - l) \in Nat
         /\ l + Lesser(n, size - l) = Lesser(l + n, size)
         /\ l + Lesser(n, size - l) =< l + n
         /\ Lesser(n, size - l) =< n /\ (l + n < size => Lesser(n, size - l) = n)
BY DEF Lesser

(* A turn of decode_lz77.                                                   *)
LEMMA LzTurned ==
  ASSUME NEW s \in Streams, s.lz = TRUE, NEW k \in 1..Len(s.tokens), NEW d, Going(s, d, k - 1)
  PROVE  LET e == LzTurn(s.bytes, s.size, d, k) IN Going(s, e, k) \/ Finished(s, e) \/ Failed(s, e)
<1> DEFINE t == s.tokens[k]
           e == LzTurn(s.bytes, s.size, d, k)
           first == k % 8 = 1
           at == IF first THEN d.at + 1 ELSE d.at
           place == Took(s)[k - 1] + (IF first THEN 2 ELSE 1)
           flags == IF first THEN s.bytes[d.at] ELSE d.flags
           group == FlagsOf(s, k - 1)
           size == s.size
           len == Len(d.out)
           b == s.bytes[at]
           c == s.bytes[at + 1]
           b1 == s.bytes[place]
           c1 == s.bytes[place + 1]
           distance == 256 * (b % 16) + c + 1
           fits == Lesser((b \div 16) + 3, size - len)
           n == t.n
           dist == t.distance
           text == t.bytes
           back == t.kind = "back"
           plain == t.kind = "plain"
           more == Flag(group, k)
<1> SUFFICES Going(s, e, k) \/ Finished(s, e) \/ Failed(s, e)
  OBVIOUS
<1>1. /\ t.kind \in {"plain", "run", "back"} /\ n \in Nat /\ n >= 1 /\ text \in Seq(Byte) /\ dist \in Nat
      /\ Told(s)[k] = Told(s)[k - 1] + n /\ Told(s)[k - 1] \in Nat
      /\ Took(s)[k] = Took(s)[k - 1] + BytesOf(s, k) /\ Took(s)[k - 1] \in Nat
      /\ Holds(s, k) /\ k \in Nat /\ k >= 1 /\ size \in Nat
  BY TokenIs
<1>2. /\ d.ok = TRUE /\ d.out \in Seq(Byte) /\ len = Told(s)[k - 1] /\ len < size /\ d.at = Took(s)[k - 1] + 1
      /\ (k - 1) % 8 # 0 => d.flags = group
  BY DEF Going
<1>3. len \in Nat
  BY <1>2
<1>4. at = place /\ at \in Nat
  <2>1. first \in BOOLEAN
    OBVIOUS
  <2> DEFINE took == Took(s)[k - 1]
  <2>2. took \in Nat /\ d.at = took + 1
    BY <1>1, <1>2
  <2> HIDE DEF first, took
  <2>3. at = took + 1 + (IF first THEN 1 ELSE 0) /\ place = took + (IF first THEN 2 ELSE 1)
    BY ONLY <2>2 DEF took
  <2> HIDE DEF at, place
  <2> QED  BY ONLY <2>1, <2>2, <2>3
<1>5. BytesOf(s, k) = (IF first THEN 1 ELSE 0) + (IF back THEN 2 ELSE 1)
  BY DEF BytesOf
<1>6. /\ ~back => Len(text) = n
      /\ t.kind = (IF more THEN "back" ELSE "plain")
      /\ plain => text = <<b1>>
      /\ back => Reference(n, dist, b1, c1)
  <2> DEFINE from == Took(s)[k - 1] + (IF s.lz /\ k % 8 = 1 THEN 2 ELSE 1)
             f == s.bytes[Took(s)[8 * ((k - 1) \div 8)] + 1]
  <2>1. Holds(s, k) /\ s.lz
    BY <1>1
  <2>2. (t.kind # "back" => Len(t.bytes) = t.n) /\ LzHolds(s, t, from, Flag(f, k))
    BY ONLY <2>1 DEF Holds
  <2>3. from = place /\ f = group
    BY DEF FlagsOf
  <2> HIDE DEF from, place, f, group
  <2>4. LzHolds(s, t, place, more)
    BY <2>2, <2>3
  <2> HIDE DEF more, t
  <2>5. t.kind = (IF more THEN "back" ELSE "plain")
    BY ONLY <2>4, SMT DEF LzHolds
  <2>6. plain => text = <<b1>>
    BY ONLY <2>4, Zenon DEF LzHolds
  <2>7. back => Reference(n, dist, b1, c1)
    BY ONLY <2>4 DEF LzHolds
  <2> QED  BY ONLY <2>2, <2>5, <2>6, <2>7
<1>7. flags = group
  <2>1. CASE first
    <3>1. 8 * ((k - 1) \div 8) = k - 1
      BY <1>1, <2>1, GroupOf
    <3> QED  BY <1>2, <2>1, <3>1 DEF FlagsOf
  <2>2. CASE ~first
    <3>1. (k - 1) % 8 # 0
      BY <1>1, <2>2, GroupOf
    <3> QED  BY <1>2, <2>2, <3>1
  <2> QED  BY <2>1, <2>2
<1>8. k % 8 # 0 => group = FlagsOf(s, k)
  <2>1. k % 8 # 0 => 8 * (k \div 8) = 8 * ((k - 1) \div 8)
    BY <1>1, GroupOf
  <2> QED  BY <2>1 DEF FlagsOf
<1>9. e = IF ~more THEN [at |-> at + 1, flags |-> group, out |-> Append(d.out, b), ok |-> TRUE]
          ELSE IF distance > len THEN [at |-> at, flags |-> group, out |-> d.out, ok |-> FALSE]
          ELSE [at |-> at + 2, flags |-> group, ok |-> TRUE, out |-> Repeated(d.out, distance, fits)]
  <2>1. ~(~d.ok \/ Len(d.out) = s.size)
    <3> HIDE DEF len
    <3> QED  BY <1>1, <1>2, <1>3 DEF len
  <2>2. e = IF ~d.ok \/ Len(d.out) = s.size THEN d
            ELSE IF ~Flag(flags, k)
            THEN [at |-> at + 1, flags |-> flags, out |-> Append(d.out, b), ok |-> TRUE]
            ELSE IF distance > len THEN [at |-> at, flags |-> flags, out |-> d.out, ok |-> FALSE]
            ELSE [at |-> at + 2, flags |-> flags, ok |-> TRUE, out |-> Repeated(d.out, distance, fits)]
    BY Zenon DEF LzTurn
  <2> HIDE DEF e, flags, group, at, distance, fits, len, b, c
  <2> QED  BY <1>7, <2>1, <2>2
<1>b. b = b1 /\ c = c1
  BY <1>4
<1> DEFINE kind == t.kind
<1>c. kind = (IF more THEN "back" ELSE "plain")
  BY <1>6
<1> HIDE DEF more
<1>10. plain <=> ~more
  <2>1. plain <=> kind = "plain"
    OBVIOUS
  <2> HIDE DEF kind, plain
  <2> QED  BY <1>c, <2>1
<1>11. back <=> more
  <2>1. back <=> kind = "back"
    OBVIOUS
  <2> HIDE DEF kind, back
  <2> QED  BY <1>c, <2>1
<1> HIDE DEF kind, plain, back, b, c, b1, c1, n, dist, text
<1>12. plain => text = <<b>> /\ Len(text) = n
  BY <1>b, <1>6, <1>10, <1>11
<1>13. back => Reference(n, dist, b, c)
  BY <1>b, <1>6
<1>14. Took(s)[k] = at + (IF back THEN 1 ELSE 0)
  <2> DEFINE y == Took(s)[k - 1]
             z == Took(s)[k]
             bytes == BytesOf(s, k)
  <2>1. y \in Nat /\ z = y + bytes
    BY <1>1
  <2>2. bytes = (IF first THEN 1 ELSE 0) + (IF back THEN 2 ELSE 1)
    BY <1>5
  <2>3. at = y + (IF first THEN 2 ELSE 1)
    BY <1>4
  <2> HIDE DEF first, back, at, y, z, bytes
  <2>4. z = at + (IF back THEN 1 ELSE 0)
    BY ONLY <2>1, <2>2, <2>3
  <2> QED  BY <2>4 DEF z
<1> HIDE DEF t, e, at, place, flags, group, first, distance, fits, size
<1>15. back => distance = dist /\ (b \div 16) + 3 = n /\ n \in 3..18 /\ dist \in 1..4096
  <2> SUFFICES ASSUME back PROVE distance = dist /\ (b \div 16) + 3 = n /\ n \in 3..18 /\ dist \in 1..4096
    OBVIOUS
  <2>1. Reference(n, dist, b, c)
    BY <1>13
  <2>2. 256 * (b % 16) + c + 1 = dist /\ (b \div 16) + 3 = n
    BY <2>1, ReferenceIs
  <2> QED  BY <2>1, <2>2 DEF distance, Reference
<1>16. CASE plain
  <2>1. n = 1 /\ text = <<b>> /\ b \in Byte /\ text[1] = b
    <3>1. text = <<b>> /\ Len(text) = n /\ text \in Seq(Byte)
      BY <1>1, <1>12, <1>16
    <3>2. Len(text) = 1 /\ text[1] = b
      BY <3>1
    <3> QED  BY <3>1, <3>2
  <2>2. e = [at |-> at + 1, flags |-> group, out |-> Append(d.out, b), ok |-> TRUE]
    BY <1>9, <1>10, <1>16
  <2> DEFINE f == <<b>>
  <2>3. f \in Seq(Byte) /\ Len(f) = 1 /\ f[1] = b
    BY <2>1
  <2>4. Append(d.out, b) = d.out \o f
    <3> HIDE DEF len
    <3> QED  BY <1>2, <2>1
  <2>5. e.ok = TRUE /\ e.out = d.out \o f /\ e.at = at + 1 /\ e.flags = group
    BY <2>2, <2>4
  <2> HIDE DEF f
  <2>6. 1 = Lesser(n, size - len)
    <3> HIDE DEF len
    <3> QED  BY <1>1, <1>2, <1>3, <2>1 DEF Lesser
  <2>7. ~back /\ at + 1 = Took(s)[k] + 1
    BY <1>4, <1>10, <1>11, <1>14, <1>16
  <2>8. \A i \in 1..1 : f[i] = text[i]
    BY <2>1, <2>3
  <2>9. e.at = Took(s)[k] + 1 /\ (k % 8 # 0 => e.flags = FlagsOf(s, k))
    BY <1>8, <2>5, <2>7
  <2>10. Going(s, e, k) \/ Finished(s, e)
    <3>1. s.tokens[k].kind # "back"
      BY <2>7 DEF back, t
    <3>2. 1 = Lesser(s.tokens[k].n, s.size - Len(d.out))
      BY <2>6 DEF size, n, t
    <3>3. \A i \in 1..1 : f[i] = s.tokens[k].bytes[i]
      BY <2>8 DEF text, t
    <3>4. Adds(s, k, d, e, 1, f)
      BY <2>3, <2>5, <2>9, <3>1, <3>2, <3>3 DEF Adds
    <3> QED  BY <3>4, PlainTurn
  <2> QED  BY <2>10
<1>17. CASE back /\ dist > len
  <2>1. distance > len
    BY <1>15, <1>17
  <2>2. e.ok = FALSE
    <3>1. e = [at |-> at, flags |-> group, out |-> d.out, ok |-> FALSE]
      BY <1>9, <1>11, <1>17, <2>1
    <3> QED  BY <3>1
  <2>3. Told(s)[k - 1] < s.size /\ dist > Told(s)[k - 1]
    BY <1>2, <1>17 DEF size
  <2>4. s.tokens[k].kind = "back" /\ s.tokens[k].distance > Told(s)[k - 1]
    BY <1>17, <2>3 DEF back, dist, t
  <2>5. Failed(s, e)
    BY <2>2, <2>3, <2>4 DEF Failed
  <2> QED  BY <2>5
<1>18. CASE back /\ dist =< len
  <2> DEFINE m == Lesser(n, size - len)
             r == Repeated(d.out, dist, m)
             told == Told(s)[k]
  <2>1. dist \in 1..4096 /\ distance = dist /\ (b \div 16) + 3 = n
    BY <1>15, <1>18
  <2>2. fits = m
    BY <2>1 DEF fits
  <2>3. m \in Nat /\ len + m = Lesser(told, size) /\ len + m =< told
    <3>1. told = len + n
      BY <1>1, <1>2
    <3>2. len \in Nat /\ n \in Nat /\ size \in Nat /\ len =< size
      <4> HIDE DEF len
      <4> QED  BY <1>1, <1>2, <1>3
    <3> HIDE DEF len, told
    <3> QED  BY ONLY <3>1, <3>2, LesserOfSum
  <2> HIDE DEF m
  <2>4. e = [at |-> at + 2, flags |-> group, ok |-> TRUE, out |-> r]
    <3> HIDE DEF len
    <3>1. ~(distance > len)
      BY <1>1, <1>3, <1>18, <2>1
    <3> QED  BY <1>9, <1>11, <1>18, <2>1, <2>2, <3>1
  <2>5. /\ r \in Seq(Byte) /\ Len(r) = len + m /\ \A j \in 1..len : r[j] = d.out[j]
        /\ \A i \in 1..m : r[len + i] = r[len + i - dist]
    <3>1. dist \in Nat /\ dist >= 1 /\ dist =< Len(d.out) /\ d.out \in Seq(Byte)
      BY <1>1, <1>2, <1>18, <2>1
    <3> DEFINE out == d.out
               x == Repeated(out, dist, m)
    <3>2. dist \in Nat /\ dist >= 1 /\ dist =< Len(out) /\ out \in Seq(Byte) /\ m \in Nat
      BY <2>3, <3>1
    <3> HIDE DEF out
    <3>3. /\ x \in Seq(Byte) /\ Len(x) = Len(out) + m /\ \A j \in 1..Len(out) : x[j] = out[j]
          /\ \A i \in 1..m : x[Len(out) + i] = x[Len(out) + i - dist]
      BY ONLY <3>2, RepeatedIs
    <3> HIDE DEF x
    <3>4. x = r
      BY DEF x, out
    <3>5. Len(out) = len /\ \A j \in 1..len : out[j] = d.out[j]
      BY DEF out
    <3> HIDE DEF r, len
    <3> QED  BY ONLY <3>3, <3>4, <3>5
  <2>6. e.ok = TRUE /\ e.out = r /\ e.at = at + 2 /\ e.flags = group
    BY <2>4
  <2> HIDE DEF r
  <2>7. Tells1(s, d.out, e.out, k)
    <3>1. Len(r) >= len /\ Len(r) =< Told(s)[k] /\ Len(r) - len = m
      <4> HIDE DEF len
      <4> QED  BY <1>3, <2>3, <2>5
    <3>2. ASSUME NEW i \in 1..m PROVE Told1(s.tokens[k], r, len + i, i)
      <4>1. r[len + i] = r[len + i - dist]
        BY <2>5
      <4> DEFINE o == s.tokens[k]
                 y == o.distance
                 j == len + i
      <4>2. Told1(o, r, j, i) <=> r[j] = IF o.kind = "back" THEN r[j - y] ELSE o.bytes[i]
        <5> HIDE DEF o, j
        <5> QED  BY ONLY TRUE DEF Told1
      <4>3. o.kind = "back" /\ dist = y
        BY <1>18 DEF back, dist, t
      <4>a. r[j] = r[j - y]
        <5> HIDE DEF y, len
        <5> QED  BY <1>1, <1>3, <4>1, <4>3
      <4> HIDE DEF o, y, j
      <4>4. Told1(o, r, j, i)
        BY ONLY <4>2, <4>3, <4>a
      <4> QED  BY <4>4 DEF o, j
    <3> QED  BY <2>5, <2>6, <3>1, <3>2 DEF Tells1
  <2>8. e.at = Took(s)[k] + 1 /\ (k % 8 # 0 => e.flags = FlagsOf(s, k))
    <3>1. at + 2 = Took(s)[k] + 1
      BY <1>4, <1>14, <1>18
    <3> QED  BY <1>8, <2>6, <3>1
  <2>9. s.tokens[k].distance \in 1..Told(s)[k - 1]
    <3>1. dist \in 1..Told(s)[k - 1]
      BY <1>1, <1>2, <1>18, <2>1
    <3> QED  BY <3>1 DEF dist, t
  <2>10. e.out \in Seq(Byte) /\ Len(e.out) = Lesser(Told(s)[k], s.size)
    BY <2>3, <2>5, <2>6 DEF size
  <2> QED  BY <2>6, <2>7, <2>8, <2>9, <2>10, TurnDone
<1>19. plain \/ (back /\ dist > len) \/ (back /\ dist =< len)
  <2> HIDE DEF len
  <2> QED  BY <1>1, <1>3, <1>10, <1>11
<1> QED  BY <1>16, <1>17, <1>18, <1>19

(* A turn of decode_rl, whose tokens never refer back.                      *)
LEMMA RlTurned ==
  ASSUME NEW s \in Streams, s.lz = FALSE, NEW k \in 1..Len(s.tokens), NEW d, Going(s, d, k - 1)
  PROVE  LET e == RlTurn(s.bytes, s.size, d) IN Going(s, e, k) \/ Finished(s, e)
<1> DEFINE t == s.tokens[k]
           e == RlTurn(s.bytes, s.size, d)
           at == d.at
           place == Took(s)[k - 1] + 1
           size == s.size
           len == Len(d.out)
           tag == s.bytes[at]
           long == tag >= 128
           n == t.n
           text == t.bytes
           m == Lesser((tag % 128) + (IF long THEN 3 ELSE 1), size - len)
           f == [i \in 1..m |-> s.bytes[at + (IF long THEN 1 ELSE i)]]
           run == t.kind = "run"
           plain == t.kind = "plain"
           back == t.kind = "back"
<1> SUFFICES Going(s, e, k) \/ Finished(s, e)
  OBVIOUS
<1>1. /\ t.kind \in {"plain", "run", "back"} /\ n \in Nat /\ n >= 1 /\ text \in Seq(Byte)
      /\ Told(s)[k] = Told(s)[k - 1] + n /\ Told(s)[k - 1] \in Nat /\ Told(s)[k] \in Nat
      /\ Took(s)[k] = Took(s)[k - 1] + BytesOf(s, k) /\ Took(s)[k - 1] \in Nat
      /\ Holds(s, k) /\ k \in Nat /\ k >= 1 /\ size \in Nat
  BY TokenIs
<1>2. /\ d.ok = TRUE /\ d.out \in Seq(Byte) /\ len = Told(s)[k - 1] /\ len < size /\ at = place
  BY DEF Going
<1>3. len \in Nat
  BY <1>2
<1>4. BytesOf(s, k) = IF run THEN 2 ELSE n + 1
  BY DEF BytesOf
<1>5. /\ ~back /\ Len(text) = n
      /\ run => n \in 3..130 /\ tag = 125 + n /\ \A i \in 1..n : text[i] = s.bytes[at + 1]
      /\ plain => n \in 1..128 /\ tag = n - 1 /\ \A i \in 1..n : text[i] = s.bytes[at + i]
  <2> DEFINE from == Took(s)[k - 1] + (IF s.lz /\ k % 8 = 1 THEN 2 ELSE 1)
  <2>1. Holds(s, k) /\ ~s.lz
    BY <1>1
  <2>2. (t.kind # "back" => Len(t.bytes) = t.n) /\ RlHolds(s, t, from)
    BY ONLY <2>1 DEF Holds
  <2>3. from = at
    BY <1>2
  <2> HIDE DEF from, at
  <2>4. RlHolds(s, t, at)
    BY <2>2, <2>3
  <2> HIDE DEF t
  <2> QED  BY ONLY <2>2, <2>4 DEF RlHolds
<1>6. run \/ plain
  <2> DEFINE kind == t.kind
  <2>1. kind \in {"plain", "run", "back"} /\ kind # "back"
    BY <1>1, <1>5
  <2>2. (run <=> kind = "run") /\ (plain <=> kind = "plain")
    OBVIOUS
  <2> HIDE DEF kind, run, plain
  <2> QED  BY <2>1, <2>2
<1>7. e = [at |-> at + (IF long THEN 2 ELSE m + 1), flags |-> 0, ok |-> TRUE, out |-> d.out \o f]
  <2>1. ~(Len(d.out) = s.size)
    <3> HIDE DEF len
    <3> QED  BY <1>1, <1>2, <1>3 DEF len
  <2> DEFINE new == [at |-> at + (IF long THEN 2 ELSE m + 1), flags |-> 0, ok |-> TRUE, out |-> d.out \o f]
  <2>2. e = IF Len(d.out) = s.size THEN d ELSE new
    BY Zenon DEF RlTurn
  <2> HIDE DEF new, e
  <2> QED  BY <2>1, <2>2 DEF new
<1> HIDE DEF t, e, at, place, tag, n, text, run, plain, back, size
<1>8. /\ long <=> run
      /\ n = (tag % 128) + (IF long THEN 3 ELSE 1)
      /\ \A i \in 1..n : text[i] = s.bytes[at + (IF long THEN 1 ELSE i)]
  <2>1. CASE run
    <3>1. n \in 3..130 /\ tag = 125 + n /\ \A i \in 1..n : text[i] = s.bytes[at + 1]
      BY <1>5, <2>1
    <3>2. tag >= 128 /\ tag % 128 = n - 3
      BY <3>1
    <3> QED  BY <1>1, <2>1, <3>1, <3>2
  <2>2. CASE ~run
    <3>1. n \in 1..128 /\ tag = n - 1 /\ \A i \in 1..n : text[i] = s.bytes[at + i]
      BY <1>5, <1>6, <2>2
    <3>2. ~(tag >= 128) /\ tag % 128 = n - 1
      BY <3>1
    <3> QED  BY <1>1, <2>2, <3>1, <3>2
  <2> QED  BY <2>1, <2>2
<1>9. m = Lesser(n, size - len)
  BY <1>8
<1> HIDE DEF m, long
<1>10. m \in Nat /\ m =< n /\ (Told(s)[k] < size => m = n)
  <2>1. Told(s)[k] = len + n
    BY <1>1, <1>2
  <2>2. len \in Nat /\ n \in Nat /\ size \in Nat /\ len =< size
    <3> HIDE DEF len
    <3> QED  BY <1>1, <1>2, <1>3
  <2> HIDE DEF len
  <2> QED  BY ONLY <1>9, <2>1, <2>2, LesserOfSum
<1>11. f \in Seq(Byte) /\ Len(f) = m /\ \A i \in 1..m : f[i] = text[i]
  <2>1. ASSUME NEW i \in 1..m PROVE f[i] = text[i] /\ text[i] \in Byte
    <3>1. i \in 1..n
      BY <1>1, <1>10
    <3>2. f[i] = text[i]
      BY <1>8, <3>1
    <3>3. text[i] \in Byte
      BY <1>1, <1>5, <3>1
    <3> QED  BY <3>2, <3>3
  <2>2. f = [i \in 1..m |-> f[i]]
    OBVIOUS
  <2> HIDE DEF f
  <2>3. f \in [1..m -> Byte]
    BY <2>1, <2>2
  <2>4. f \in Seq(Byte) /\ Len(f) = m
    BY <1>10, <2>3
  <2> QED  BY <2>1, <2>4
<1> HIDE DEF f
<1>12. e.at = at + (IF long THEN 2 ELSE m + 1) /\ e.ok = TRUE /\ e.out = d.out \o f
  BY <1>7
<1>13. Told(s)[k] < s.size => e.at = Took(s)[k] + 1
  <2> DEFINE y == Took(s)[k - 1]
             z == Took(s)[k]
             bytes == BytesOf(s, k)
             told == Told(s)[k]
             next == e.at
  <2>1. y \in Nat /\ z = y + bytes /\ n \in Nat
    BY <1>1
  <2>2. bytes = (IF run THEN 2 ELSE n + 1) /\ (long <=> run)
    BY <1>4, <1>8
  <2>3. at = y + 1
    BY <1>2 DEF place
  <2>4. next = at + (IF long THEN 2 ELSE m + 1)
    BY <1>12
  <2>5. told < s.size => m = n
    BY <1>10 DEF size
  <2> HIDE DEF y, z, bytes, told, next
  <2>6. told < s.size => next = z + 1
    BY ONLY <2>1, <2>2, <2>3, <2>4, <2>5
  <2> QED  BY <2>6 DEF told, next, z
<1>14. Adds(s, k, d, e, m, f)
  <2>1. s.tokens[k].kind # "back"
    BY <1>5 DEF back, t
  <2>2. m = Lesser(s.tokens[k].n, s.size - Len(d.out))
    BY <1>9 DEF size, n, t
  <2>3. \A i \in 1..m : f[i] = s.tokens[k].bytes[i]
    BY <1>11 DEF text, t
  <2> QED  BY <1>11, <1>12, <1>13, <2>1, <2>2, <2>3 DEF Adds
<1> QED  BY <1>10, <1>14, PlainTurn

(* The output is the text of the tokens, or a reference before the start    *)
(* was met.                                                                 *)
LEMMA DecodedIs ==
  ASSUME NEW s \in Streams, s.size >= 1
  PROVE  LET e == Decoded(s.lz, s.bytes, s.size) IN Finished(s, e) \/ Failed(s, e)
<1> DEFINE N == Len(s.tokens)
           size == s.size
           told == Told(s)
<1>0. /\ N \in Nat /\ size \in Nat /\ size >= 1 /\ told[0] = 0 /\ \A k \in 0..N : told[k] \in Nat /\ told[k] >= k
      /\ size =< told[N] /\ s.lz \in BOOLEAN
  BY StreamIs, ToldIs, ToldGrows
<1>a. PICK run : DecodeTurns(run, s.lz, s.bytes, size)
  BY <1>0, DecodeRule
<1>1. /\ run[0] = Start
      /\ \A k \in 1..size : run[k] = IF s.lz THEN LzTurn(s.bytes, size, run[k - 1], k) ELSE RlTurn(s.bytes, size, run[k - 1])
      /\ Decoded(s.lz, s.bytes, size) = run[size]
  BY <1>a DEF DecodeTurns
<1> DEFINE U == {k \in Nat : k =< size => Going(s, run[k], k) \/ Finished(s, run[k]) \/ Failed(s, run[k])}
<1>2. 0 \in U
  <2>1. /\ run[0].at = 1 /\ run[0].out = <<>> /\ run[0].ok = TRUE
    BY <1>1 DEF Start
  <2>2. Took(s)[0] = 0
    BY TookIs
  <2>3. run[0].out \in Seq(Byte) /\ Len(run[0].out) = 0
    BY <2>1
  <2>4. Tells(s, run[0].out, 0) /\ PointsBack(s, 0)
    BY DEF Tells, PointsBack
  <2>5. 0 \in 0..N /\ 0 % 8 = 0
    BY <1>0
  <2>6. Going(s, run[0], 0)
    BY <1>0, <2>1, <2>2, <2>3, <2>4, <2>5 DEF Going
  <2> QED  BY <2>6
<1>3. ASSUME NEW k \in Nat, k \in U PROVE k + 1 \in U
  <2> DEFINE d == run[k]
             e == run[k + 1]
  <2>1. SUFFICES ASSUME k + 1 =< size PROVE Going(s, e, k + 1) \/ Finished(s, e) \/ Failed(s, e)
    OBVIOUS
  <2>2. Going(s, d, k) \/ Finished(s, d) \/ Failed(s, d)
    <3>1. k =< size
      BY <1>0, <2>1
    <3> QED  BY <1>3, <3>1
  <2>3. e = IF s.lz THEN LzTurn(s.bytes, size, d, k + 1) ELSE RlTurn(s.bytes, size, d)
    <3>1. k + 1 \in 1..size /\ (k + 1) - 1 = k
      BY <1>0, <2>1
    <3> QED  BY <1>1, <3>1
  <2> HIDE DEF d, e
  <2>4. CASE Going(s, d, k)
    <3>1. k \in 0..N /\ told[k] < size
      BY <2>4 DEF Going
    <3>2. k # N
      BY <1>0, <3>1
    <3>3. k + 1 \in 1..N /\ (k + 1) - 1 = k
      BY <1>0, <3>1, <3>2
    <3>4. Going(s, d, (k + 1) - 1)
      BY <2>4, <3>3
    <3>5. CASE s.lz = TRUE
      <4>1. e = LzTurn(s.bytes, s.size, d, k + 1)
        BY <2>3, <3>5
      <4>2. Going(s, LzTurn(s.bytes, s.size, d, k + 1), k + 1) \/ Finished(s, LzTurn(s.bytes, s.size, d, k + 1))
            \/ Failed(s, LzTurn(s.bytes, s.size, d, k + 1))
        BY <3>3, <3>4, <3>5, LzTurned
      <4> QED  BY <4>1, <4>2
    <3>6. CASE s.lz = FALSE
      <4>1. e = RlTurn(s.bytes, s.size, d)
        BY <2>3, <3>6
      <4>2. Going(s, RlTurn(s.bytes, s.size, d), k + 1) \/ Finished(s, RlTurn(s.bytes, s.size, d))
        BY <3>3, <3>4, <3>6, RlTurned
      <4> QED  BY <4>1, <4>2
    <3> QED  BY <1>0, <3>5, <3>6
  <2>5. CASE Finished(s, d)
    <3>1. Len(d.out) = size /\ d.ok = TRUE
      BY <2>5 DEF Finished
    <3>2. e = d
      BY <2>3, <3>1 DEF LzTurn, RlTurn
    <3> QED  BY <2>5, <3>2
  <2>6. CASE Failed(s, d)
    <3>1. d.ok = FALSE
      BY <2>6 DEF Failed
    <3>2. s.lz = TRUE
      <4>1. PICK q \in 1..N : s.tokens[q].kind = "back"
        BY <2>6 DEF Failed
      <4>2. Holds(s, q)
        BY <4>1, StreamIs
      <4> QED  BY <1>0, <4>1, <4>2 DEF Holds, RlHolds
    <3>3. e = LzTurn(s.bytes, size, d, k + 1)
      BY <2>3, <3>2
    <3>4. e = d
      BY <3>1, <3>3 DEF LzTurn
    <3> QED  BY <2>6, <3>4
  <2> QED  BY <2>2, <2>4, <2>5, <2>6
<1>4. size \in U
  <2> HIDE DEF U, size
  <2>1. Nat \subseteq U
    BY <1>2, <1>3, SetInduction
  <2> QED  BY <1>0, <2>1
<1>5. ~Going(s, run[size], size)
  <2> SUFFICES ASSUME size \in 0..N, told[size] < size PROVE FALSE
    BY DEF Going
  <2> QED  BY <1>0
<1>6. Finished(s, run[size]) \/ Failed(s, run[size])
  <2>1. size =< size
    BY <1>0
  <2> QED  BY <1>4, <1>5, <2>1
<1> QED  BY <1>1, <1>6

(* What the code refuses is what is not sound.                              *)
LEMMA RefusedIs ==
  ASSUME NEW s \in Streams
  PROVE  /\ Refused(s) <=> ~Sound(s)
         /\ ~Refused(s) => s.size >= 1 /\ Finished(s, Decoded(s.lz, s.bytes, s.size))
<1> DEFINE e == Decoded(s.lz, s.bytes, s.size)
           reaching == \A k \in 1..Len(s.tokens) :
             s.tokens[k].kind = "back" /\ Told(s)[k - 1] < s.size => s.tokens[k].distance =< Told(s)[k - 1]
           N == Len(s.tokens)
           told == Told(s)
<1>0. s.size \in Nat /\ MaxOutput \in Nat /\ N \in Nat
  BY StreamIs, BiosAssumption
<1>1. Sound(s) <=> s.size >= 1 /\ s.size =< MaxOutput /\ reaching
  <2> HIDE DEF reaching
  <2>1. Sound(s) <=> s.size \in 1..MaxOutput /\ reaching
    BY DEF Sound, reaching
  <2> QED  BY <1>0, <2>1
<1>2. Refused(s) <=> s.size = 0 \/ s.size > MaxOutput \/ ~e.ok
  BY DEF Refused
<1>3. CASE s.size = 0
  <2> HIDE DEF e, reaching
  <2> QED  BY <1>1, <1>2, <1>3
<1>4. CASE s.size # 0
  <2>0. s.size >= 1
    BY <1>0, <1>4
  <2>1. Finished(s, e) \/ Failed(s, e)
    BY <2>0, DecodedIs
  <2>2. ASSUME Finished(s, e) PROVE e.ok = TRUE /\ reaching
    <3>1. PICK q \in 1..N : told[q - 1] < s.size /\ s.size =< told[q] /\ PointsBack(s, q)
      BY <2>2 DEF Finished
    <3>2. ASSUME NEW k \in 1..N, s.tokens[k].kind = "back", told[k - 1] < s.size
          PROVE  s.tokens[k].distance =< told[k - 1]
      <4>1. k =< q
        <5>1. SUFFICES ASSUME q =< k - 1 PROVE FALSE
          BY <1>0
        <5>2. q \in 0..N /\ k - 1 \in 0..N
          BY <1>0
        <5>3. told[q] =< told[k - 1] /\ told[q] \in Nat /\ told[k - 1] \in Nat
          BY <5>1, <5>2, ToldIs, ToldGrows
        <5> QED  BY <1>0, <3>1, <3>2, <5>3
      <4>2. k \in 1..q
        BY <1>0, <4>1
      <4>3. s.tokens[k].distance \in 1..told[k - 1]
        BY <3>1, <3>2, <4>2 DEF PointsBack
      <4> QED  BY <4>3
    <3> QED  BY <2>2, <3>2 DEF Finished
  <2>3. ASSUME Failed(s, e) PROVE e.ok = FALSE /\ ~reaching
    <3>1. PICK q \in 1..N : told[q - 1] < s.size /\ s.tokens[q].kind = "back" /\ s.tokens[q].distance > told[q - 1]
      BY <2>3 DEF Failed
    <3>2. s.tokens[q].distance \in Nat /\ told[q - 1] \in Nat
      BY TokenIs
    <3>3. ~(s.tokens[q].distance =< told[q - 1])
      BY <3>1, <3>2
    <3> QED  BY <2>3, <3>1, <3>3 DEF Failed
  <2>4. e.ok = TRUE <=> reaching
    <3> HIDE DEF e, reaching
    <3> QED  BY <2>1, <2>2, <2>3
  <2>5. Finished(s, e) <=> reaching
    <3> HIDE DEF e, reaching
    <3> QED  BY <2>1, <2>2, <2>3
  <2>6. e.ok \in BOOLEAN
    <3> HIDE DEF e, reaching
    <3> QED  BY <2>1, <2>2, <2>3
  <2>7. e.ok <=> reaching
    <3> DEFINE ok == e.ok
    <3> HIDE DEF ok, reaching
    <3> QED  BY <2>4, <2>6 DEF ok
  <2> DEFINE large == s.size > MaxOutput
             ok == e.ok
  <2>8. large <=> ~(s.size =< MaxOutput)
    BY <1>0
  <2>9. Refused(s) <=> large \/ ~ok
    BY <1>2, <1>4
  <2>10. Sound(s) <=> ~large /\ reaching
    BY <1>1, <2>0, <2>8
  <2>11. ok <=> reaching
    BY <2>7
  <2>12. (Refused(s) <=> ~Sound(s)) /\ (~Refused(s) => Finished(s, e))
    <3> HIDE DEF large, e, reaching, ok
    <3> QED  BY <2>5, <2>9, <2>10, <2>11, Zenon
  <2> QED  BY <2>0, <2>12
<1> QED  BY <1>3, <1>4

(* What a write of the output leaves in memory.                             *)
WrittenOut(r, m, out, to, vram) ==
  /\ to \in Nat
  /\ \A x \in 0..Top : x >= to /\ x < to + Len(out) => r[x] = out[x - to + 1]
  /\ \A x \in 0..Top :
       x < to \/ x > to + Len(out) \/ (x = to + Len(out) /\ ~(vram /\ Len(out) % 2 = 1)) => r[x] = m[x]
WholePlace(dst, vram) == IF vram THEN dst - (dst % 2) ELSE dst

(* What write_swi_output leaves.                                           *)
LEMMA WrittenIs ==
  ASSUME NEW m \in [0..Top -> Byte], NEW dst \in Nat, NEW out \in Seq(Byte), Len(out) >= 1, NEW vram \in BOOLEAN
  PROVE  WrittenOut(WriteOutput(m, dst, out, vram), m, out, WholePlace(dst, vram), vram)
<1> DEFINE r == WriteOutput(m, dst, out, vram)
           to == IF vram THEN dst - (dst % 2) ELSE dst
           there == IF vram THEN 2 * (dst \div 2) ELSE dst
           len == Len(out)
           uneven == vram /\ Len(out) % 2 = 1
           even == IF uneven THEN Append(out, 0) ELSE out
           longer == Len(even)
<1>1. len \in Nat /\ len >= 1 /\ Top \in Nat
  BY BiosAssumption
<1>2. there = to /\ to \in Nat
  <2>1. 2 * (dst \div 2) = dst - (dst % 2) /\ dst - (dst % 2) \in Nat
    <3>1. 2 \in Nat \ {0}
      OBVIOUS
    <3> QED  BY <3>1, WholePart
  <2> QED  BY <2>1
<1>3. /\ longer = len + (IF uneven THEN 1 ELSE 0)
      /\ \A j \in 1..len : even[j] = out[j]
  <2>1. 0 \in Byte
    BY DEF Byte
  <2>2. CASE uneven
    <3>1. even = Append(out, 0)
      BY <2>2
    <3>2. Len(Append(out, 0)) = len + 1 /\ \A j \in 1..len : Append(out, 0)[j] = out[j]
      BY <2>1
    <3> QED  BY <2>2, <3>1, <3>2
  <2>3. CASE ~uneven
    BY <2>3
  <2> QED  BY <2>2, <2>3
<1>4. ASSUME NEW x \in 0..Top
      PROVE  r[x] = IF x \in there..(there + longer - 1) THEN even[x - there + 1] ELSE m[x]
  BY <1>1 DEF WriteOutput
<1> HIDE DEF r, to, there, uneven, even, longer, len
<1>5. ASSUME NEW x \in 0..Top, x >= to, x < to + len PROVE r[x] = out[x - to + 1]
  <2>1. x \in there..(there + longer - 1) /\ x - there + 1 = x - to + 1 /\ x - to + 1 \in 1..len
    BY <1>1, <1>2, <1>3, <1>5
  <2> QED  BY <1>3, <1>4, <2>1
<1>6. ASSUME NEW x \in 0..Top, x < to \/ x > to + len \/ (x = to + len /\ ~uneven) PROVE r[x] = m[x]
  <2>1. ~(x \in there..(there + longer - 1))
    BY <1>1, <1>2, <1>3, <1>6
  <2> QED  BY <1>4, <2>1
<1>7. /\ to \in Nat
      /\ \A x \in 0..Top : x >= to /\ x < to + len => r[x] = out[x - to + 1]
      /\ \A x \in 0..Top : x < to \/ x > to + len \/ (x = to + len /\ ~uneven) => r[x] = m[x]
  BY <1>2, <1>5, <1>6
<1> QED  BY <1>7 DEF r, to, len, uneven, WrittenOut, WholePlace

(* A decompression does what UnpackExact says.                              *)
Unpacked(s, m, to) ==
  /\ \A k \in 1..Len(s.tokens) : \A i \in 1..s.tokens[k].n :
       to + Told(s)[k - 1] + i - 1 < to + s.size /\ to + Told(s)[k - 1] + i - 1 =< Top =>
         Told1(s.tokens[k], m, to + Told(s)[k - 1] + i - 1, i)
  /\ \A x \in 0..Top :
       x < to \/ x > to + s.size \/ (x = to + s.size /\ ~(s.vram /\ s.size % 2 = 1)) => m[x] = Before[x]

(* What is written is the text of the tokens.                              *)
LEMMA ShownIs ==
  ASSUME NEW s \in Streams, ~Refused(s)
  PROVE  Unpacked(s, WriteOutput(Before, s.dst, Decoded(s.lz, s.bytes, s.size).out, s.vram),
               IF s.vram THEN s.dst - (s.dst % 2) ELSE s.dst)
<1> DEFINE out == Decoded(s.lz, s.bytes, s.size).out
           m == WriteOutput(Before, s.dst, out, s.vram)
           to == IF s.vram THEN s.dst - (s.dst % 2) ELSE s.dst
           N == Len(s.tokens)
           told == Told(s)
           size == s.size
<1>0. N \in Nat /\ size \in Nat /\ s.dst \in Nat /\ s.vram \in BOOLEAN /\ Top \in Nat
  BY StreamIs, BiosAssumption
<1>1. size >= 1 /\ Finished(s, Decoded(s.lz, s.bytes, s.size))
  BY RefusedIs
<1>2. /\ out \in Seq(Byte) /\ Len(out) = size
      /\ \E q \in 1..N : told[q - 1] < size /\ size =< told[q] /\ Tells(s, out, q) /\ PointsBack(s, q)
  BY <1>1 DEF Finished
<1>3. PICK q \in 1..N : told[q - 1] < size /\ size =< told[q] /\ Tells(s, out, q) /\ PointsBack(s, q)
  BY <1>2
<1>4. Before \in [0..Top -> Byte]
  BY BiosAssumption DEF Before, Byte
<1> HIDE DEF out
<1>5. /\ to \in Nat
      /\ \A x \in 0..Top : x >= to /\ x < to + size => m[x] = out[x - to + 1]
      /\ \A x \in 0..Top : x < to \/ x > to + size \/ (x = to + size /\ ~(s.vram /\ size % 2 = 1)) => m[x] = Before[x]
  <2>1. Len(out) >= 1
    BY <1>1, <1>2
  <2>2. WrittenOut(WriteOutput(Before, s.dst, out, s.vram), Before, out, WholePlace(s.dst, s.vram), s.vram)
    BY <1>0, <1>2, <1>4, <2>1, WrittenIs
  <2> QED  BY <1>2, <2>2 DEF WrittenOut, WholePlace
<1> HIDE DEF m, to, told, N, size
<1>6. ASSUME NEW k \in 1..N, NEW i \in 1..s.tokens[k].n,
             to + told[k - 1] + i - 1 < to + size, to + told[k - 1] + i - 1 =< Top
      PROVE  Told1(s.tokens[k], m, to + told[k - 1] + i - 1, i)
  <2> DEFINE t == s.tokens[k]
             from == told[k - 1]
             n == t.n
             dist == t.distance
             text == t.bytes
             back == t.kind = "back"
             j == from + i
             x == to + from + i - 1
  <2>1. n \in Nat /\ dist \in Nat /\ from \in Nat /\ i \in 1..n /\ told[k] = from + n
    BY TokenIs DEF N, told
  <2>2. k =< q
    <3>1. SUFFICES ASSUME q =< k - 1 PROVE FALSE
      BY <1>0
    <3>2. q \in 0..N /\ k - 1 \in 0..N
      BY <1>0
    <3>3. told[q] =< told[k - 1] /\ told[q] \in Nat
      BY <3>1, <3>2, ToldIs, ToldGrows DEF told, N
    <3>4. told[k - 1] < size
      <4> HIDE DEF n
      <4> QED  BY <1>0, <1>5, <1>6, <2>1
    <3> QED  BY <1>0, <1>3, <2>1, <3>3, <3>4
  <2>3. k \in 1..q
    BY <1>0, <2>2
  <2>4. j \in 1..size /\ x \in 0..Top /\ x >= to /\ x < to + size /\ x - to + 1 = j
    <3> HIDE DEF n, from
    <3>1. to + from + i - 1 < to + size /\ to + from + i - 1 =< Top
      BY <1>6 DEF from
    <3> QED  BY <1>0, <1>5, <2>1, <3>1
  <2>5. m[x] = out[j]
    BY <1>5, <2>4
  <2>6. out[j] = IF back THEN out[j - dist] ELSE text[i]
    <3>1. told[k - 1] + i =< Len(out)
      BY <1>2, <2>4 DEF size
    <3>2. Told1(t, out, j, i)
      BY <1>3, <2>3, <3>1 DEF Tells, told
    <3> QED  BY <3>2 DEF Told1
  <2>7. back => m[x - dist] = out[j - dist]
    <3>1. SUFFICES ASSUME dist \in 1..from PROVE m[x - dist] = out[j - dist]
      BY <1>3, <2>3 DEF PointsBack, told
    <3> HIDE DEF dist, from, n
    <3>2. x - dist \in 0..Top /\ x - dist >= to /\ x - dist < to + size /\ (x - dist) - to + 1 = j - dist
      BY <1>0, <1>5, <2>1, <2>4, <3>1
    <3> QED  BY <1>5, <3>2
  <2>8. m[x] = IF back THEN m[x - dist] ELSE text[i]
    <3> HIDE DEF x, j, dist, back, text
    <3> QED  BY <2>5, <2>6, <2>7
  <2>9. Told1(t, m, x, i)
    <3> HIDE DEF x
    <3> QED  BY <2>8 DEF Told1
  <2> QED  BY <2>9
<1>7. Unpacked(s, m, to)
  BY <1>5, <1>6 DEF Unpacked, N, told, size
<1> QED  BY <1>7 DEF m, to, out

(* The four parts of the promise, each for the step that answers its call.  *)
BiosAsked ==
  \/ swi \in [call : {"div"}, num : Operands, den : Operands]
  \/ swi \in [call : {"sqrt"}, n : {x \in Operands : x >= 0}]
  \/ swi \in [call : {"copy"}, fast : BOOLEAN, b : Blocks]
  \/ swi \in [call : {"unpack"}, s : Streams]

(* An answer to a division.                                                *)
LEMMA DivisionStep ==
  ASSUME BiosAsked, UNCHANGED swi, Divide
  PROVE  DivisionExact' /\ answer'.call = "div"
<1>1. swi.num \in Operands /\ swi.den \in Operands
  BY DEF BiosAsked, Divide
<1> DEFINE num == swi.num
           den == swi.den
           a == answer'
<1>2. num \in Int /\ den \in Int /\ Smallest =< num /\ num < -Smallest
  BY <1>1, BiosAssumption
<1>3. /\ a.call = "div" /\ (a.handled <=> den # 0) /\ (den # 0 => a.r = SignedDiv(num, den))
  BY DEF Divide
<1>4. swi'.num = num /\ swi'.den = den
  OBVIOUS
<1> HIDE DEF num, den, a
<1>5. ASSUME den # 0
      PROVE  /\ Modular(a.r.q * den + a.r.r) = Modular(num)
             /\ Magnitude(a.r.r) < Magnitude(den)
             /\ a.r.r # 0 => (a.r.r < 0 <=> num < 0)
             /\ a.r.abs = Magnitude(a.r.q)
  <2> DEFINE r == SignedDiv(num, den)
  <2>1. /\ Modular(r.q * den + r.r) = Modular(num)
        /\ Magnitude(r.r) < Magnitude(den)
        /\ r.r # 0 => (r.r < 0 <=> num < 0)
        /\ r.abs = Magnitude(r.q)
    BY <1>2, <1>5, SignedDivIs
  <2>2. a.r = r
    BY <1>3, <1>5
  <2> HIDE DEF r
  <2> QED  BY ONLY <2>1, <2>2
<1>6. DivisionExact'
  <2> DEFINE rest == /\ Modular(a.r.q * den + a.r.r) = Modular(num)
                     /\ Magnitude(a.r.r) < Magnitude(den)
                     /\ a.r.r # 0 => (a.r.r < 0 <=> num < 0)
                     /\ a.r.abs = Magnitude(a.r.q)
  <2>1. DivisionExact' <=> (a.call = "div" => (a.handled <=> den # 0) /\ (a.handled => rest))
    BY <1>4 DEF DivisionExact, a
  <2>2. den # 0 => rest
    BY <1>5
  <2> DEFINE handled == a.handled
  <2>3. handled <=> den # 0
    BY <1>3
  <2> HIDE DEF rest
  <2>4. DivisionExact' <=> (a.call = "div" => (handled <=> den # 0) /\ (handled => rest))
    BY <2>1
  <2> HIDE DEF handled
  <2> QED  BY <2>2, <2>3, <2>4
<1> QED  BY <1>3, <1>6 DEF a

(* An answer to a root.                                                    *)
LEMMA RootStepExact ==
  ASSUME BiosAsked, UNCHANGED swi, SquareRoot
  PROVE  RootExact' /\ answer'.call = "sqrt"
<1>1. swi.n \in Operands /\ swi.n >= 0
  BY DEF BiosAsked, SquareRoot
<1>2. swi.n \in Nat /\ swi.n < Power[WordBits]
  <2> DEFINE n == swi.n
             half == Power[WordBits - 1]
  <2>1. n \in Int /\ n >= 0 /\ n < -Smallest
    BY <1>1, BiosAssumption
  <2>2. half \in Nat /\ Power[WordBits] = 2 * half /\ Smallest = -half
    <3>1. WordBits \in Nat /\ WordBits - 1 \in 0..WordBits /\ WordBits \in 1..WordBits
      BY BiosAssumption
    <3> QED  BY <3>1, PowerNext DEF Smallest
  <2> HIDE DEF n, half
  <2>3. n \in Nat /\ n < 2 * half
    BY <2>1, <2>2
  <2> QED  BY <2>2, <2>3 DEF n
<1> DEFINE r == Isqrt(swi.n)
<1>3. r \in Nat /\ r * r =< swi.n /\ (r + 1) * (r + 1) > swi.n
  BY <1>2, RootIs
<1>4. answer'.call = "sqrt" /\ answer'.r0 = r /\ swi' = swi
  BY DEF SquareRoot
<1> HIDE DEF r
<1> QED  BY <1>3, <1>4 DEF RootExact

(* An answer to a copy.                                                    *)
LEMMA CopyStep ==
  ASSUME BiosAsked, UNCHANGED swi, Copy
  PROVE  CopyExact' /\ answer'.call = "copy"
<1> DEFINE b == swi.b
           fast == swi.fast
           a == answer'
           unit == IF fast \/ b.word THEN 4 ELSE 2
           from == b.src - (b.src % unit)
           to == b.dst - (b.dst % unit)
           count == IF fast THEN b.count - (b.count % 8) ELSE b.count
           bytes == unit * count
           apart == Apart(b.fill, from, to, bytes)
<1>1. b \in Blocks /\ fast \in BOOLEAN
  BY DEF BiosAsked, Copy
<1>2. a.call = "copy" /\ a.m = CpuSet(Before, b, fast) /\ swi' = swi
  BY DEF Copy
<1>3. Before = [x \in 0..Top |-> Before[x]]
  BY DEF Before
<1>4. CopiedTo(Before, CpuSet(Before, b, fast), unit, from, to, count, b.fill, apart)
  <2> HIDE DEF b, fast
  <2> QED  BY <1>1, <1>3, CopyIs
<1>5. CopiedTo(Before, a.m, unit, from, to, count, b.fill, apart)
  <2> HIDE DEF b, fast, unit, from, to, count, apart, a
  <2> QED  BY <1>2, <1>4
<1>6. \A x \in 0..Top :
        IF x \in to..(to + bytes - 1)
        THEN apart => a.m[x] = Before[from + (IF b.fill THEN (x - to) % unit ELSE x - to)]
        ELSE a.m[x] = Before[x]
  <2> HIDE DEF b, fast, unit, from, to, count, apart, a
  <2> QED  BY <1>5 DEF CopiedTo
<1>7. CopyExact' <=> (a.call = "copy" =>
        \A x \in 0..Top :
          IF x \notin to..(to + bytes - 1) THEN a.m[x] = Before[x]
          ELSE apart => a.m[x] = Before[from + (IF b.fill THEN (x - to) % unit ELSE x - to)])
  BY <1>2 DEF CopyExact, Apart
<1> HIDE DEF b, fast, unit, from, to, count, bytes, apart, a
<1>8. CopyExact'
  BY <1>6, <1>7
<1> QED  BY <1>2, <1>8 DEF a

(* An answer to a decompression.                                           *)
LEMMA UnpackStep ==
  ASSUME BiosAsked, UNCHANGED swi, Unpack
  PROVE  UnpackExact' /\ answer'.call = "unpack"
<1> DEFINE s == swi.s
           a == answer'
           to == IF s.vram THEN s.dst - (s.dst % 2) ELSE s.dst
           m == WriteOutput(Before, s.dst, Decoded(s.lz, s.bytes, s.size).out, s.vram)
<1>1. s \in Streams
  BY DEF BiosAsked, Unpack
<1>2. /\ a = IF Refused(s) THEN [call |-> "unpack", handled |-> ~s.real, m |-> Before]
             ELSE [call |-> "unpack", handled |-> TRUE, m |-> m]
      /\ swi' = swi
  BY DEF Unpack
<1>3. (Refused(s) <=> ~Sound(s)) /\ (~Refused(s) => Unpacked(s, m, to))
  <2>1. Refused(s) <=> ~Sound(s)
    BY <1>1, RefusedIs
  <2>2. ~Refused(s) => Unpacked(s, m, to)
    <3> HIDE DEF s
    <3> QED  BY <1>1, ShownIs
  <2> QED  BY <2>1, <2>2
<1>4. s.real \in BOOLEAN
  BY <1>1, StreamIs
<1> DEFINE real == s.real
           handled == a.handled
           shown == /\ \A k \in 1..Len(s.tokens) : \A i \in 1..s.tokens[k].n :
                         LET t == s.tokens[k]
                             x == to + Told(s)[k - 1] + i - 1
                         IN  x < to + s.size /\ x =< Top =>
                               a.m[x] = IF t.kind = "back" THEN a.m[x - t.distance] ELSE t.bytes[i]
                    /\ \A x \in 0..Top :
                         x < to \/ x > to + s.size \/ (x = to + s.size /\ ~(s.vram /\ s.size % 2 = 1)) => a.m[x] = Before[x]
<1>5. UnpackExact' <=> (a.call = "unpack" =>
        /\ handled <=> Sound(s) \/ ~real
        /\ ~Sound(s) => a.m = Before
        /\ Sound(s) => shown)
  BY <1>2 DEF UnpackExact
<1>6. Unpacked(s, a.m, to) => shown
  BY DEF Unpacked, Told1
<1>7. CASE Refused(s)
  <2>1. a.call = "unpack" /\ (handled <=> ~real) /\ a.m = Before
    BY <1>2, <1>7
  <2> HIDE DEF handled, real, shown, a, s
  <2>2. ~Sound(s)
    BY <1>3, <1>7
  <2> QED  BY <1>5, <2>1, <2>2 DEF a
<1>8. CASE ~Refused(s)
  <2> HIDE DEF m
  <2>1. a.call = "unpack" /\ (handled <=> TRUE) /\ a.m = m
    BY <1>2, <1>8
  <2> HIDE DEF handled, real, shown, a, s, to
  <2>2. Sound(s) /\ shown
    BY <1>3, <1>6, <1>8, <2>1
  <2> QED  BY <1>5, <2>1, <2>2 DEF a
<1> QED  BY <1>7, <1>8

(* The numbers of the four calls.                                          *)
LEMMA NumbersExact == \A n \in {2, 5, 11, 25} : NumberExact(n)
<1>1. NumberExact(2)
  BY SMT DEF NumberExact, SwiNumber
<1>2. NumberExact(5)
  BY SMT DEF NumberExact, SwiNumber
<1>3. NumberExact(11)
  BY SMT DEF NumberExact, SwiNumber
<1>4. NumberExact(25)
  BY SMT DEF NumberExact, SwiNumber
<1> QED  BY <1>1, <1>2, <1>3, <1>4

(* Only what the core answers is asked, and every answer is exact.          *)
BiosInv ==
  /\ BiosAsked
  /\ DivisionExact /\ RootExact /\ CopyExact /\ UnpackExact

(* Every answer of the BIOS calls is exact: divisions, roots, copies and    *)
(* decompressions, for every width, memory, block and stream.               *)
THEOREM BiosIsExact == BiosSpec => []BiosExact
<1>1. BiosInit => BiosInv
  <2> SUFFICES ASSUME BiosInit PROVE BiosInv
    OBVIOUS
  <2>1. answer.call = "none"
    BY DEF BiosInit, Unanswered
  <2> QED  BY <2>1 DEF BiosInit, BiosInv, BiosAsked, DivisionExact, RootExact, CopyExact, UnpackExact
<1>2. BiosInv /\ [BiosNext]_biosVars => BiosInv'
  <2> SUFFICES ASSUME BiosInv, [BiosNext]_biosVars PROVE BiosInv'
    OBVIOUS
  <2>1. CASE BiosNext
    <3>1. BiosAsked /\ UNCHANGED swi /\ BiosAsked'
      BY <2>1 DEF BiosInv, BiosNext, BiosAsked
    <3>2. CASE Divide
      BY <3>1, <3>2, DivisionStep DEF BiosInv, RootExact, CopyExact, UnpackExact
    <3>3. CASE SquareRoot
      BY <3>1, <3>3, RootStepExact DEF BiosInv, DivisionExact, CopyExact, UnpackExact
    <3>4. CASE Copy
      BY <3>1, <3>4, CopyStep DEF BiosInv, DivisionExact, RootExact, UnpackExact
    <3>5. CASE Unpack
      BY <3>1, <3>5, UnpackStep DEF BiosInv, DivisionExact, RootExact, CopyExact
    <3> QED  BY <2>1, <3>2, <3>3, <3>4, <3>5 DEF BiosNext
  <2>2. CASE UNCHANGED biosVars
    <3>1. swi' = swi /\ answer' = answer
      BY <2>2 DEF biosVars
    <3>2. BiosAsked'
      BY <3>1 DEF BiosInv, BiosAsked
    <3>3. DivisionExact' /\ RootExact'
      BY <3>1 DEF BiosInv, DivisionExact, RootExact
    <3>4. CopyExact'
      BY <3>1 DEF BiosInv, CopyExact
    <3>5. UnpackExact'
      BY <3>1 DEF BiosInv, UnpackExact
    <3> QED  BY <3>2, <3>3, <3>4, <3>5 DEF BiosInv
  <2> QED  BY <2>1, <2>2
<1>3. BiosInv => BiosExact
  BY NumbersExact DEF BiosInv, BiosExact
<1> QED  BY <1>1, <1>2, <1>3, PTL DEF BiosSpec
=============================================================================

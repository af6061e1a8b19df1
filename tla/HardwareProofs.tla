--------------------------- MODULE HardwareProofs ---------------------------
(***************************************************************************)
(* Proofs about the parts of the hardware whose models hold no bits, for   *)
(* every value of their constants: the CPU of the GBA, whose copying       *)
(* between the current mode's registers and the fields of its bank         *)
(* implements RegisterFile; the cartridge of the GB, with the arithmetic   *)
(* of its clock; the sound channels of the GB; the video timing of the GBA *)
(* with the DMA it paces; the prefetch buffer of its Game Pak; and the     *)
(* memory maps of both machines.  The loops are recursive functions, and   *)
(* what they compute is shown by induction: a set of numbers that holds 0  *)
(* and with every number the next holds them all (SetInduction).           *)
(***************************************************************************)
EXTENDS GbaCpu, GbCart, GbApu, GbaVideo, GbaPrefetch, GbaMemory, GbMemory,
        SequenceTheorems, WellFoundedInduction, TLAPS

(***************************************************************************)
(* Numbers.                                                                *)
(***************************************************************************)
LEMMA LeastNatural ==
    ASSUME NEW S \in SUBSET Nat, S # {}
    PROVE  \E m \in S : \A k \in S : m <= k
<1> DEFINE R == OpToRel(<, Nat)
<1>1. IsWellFoundedOn(R, Nat)
  BY NatLessThanWellFounded
<1>2. R = {p \in Nat \X Nat : p[1] < p[2]}
  BY DEF OpToRel
<1> HIDE DEF R
<1>3. PICK m \in S : \A k \in S : ~ (<<k, m>> \in R)
  BY <1>1, WFMin
<1>4. ASSUME NEW k \in S PROVE m <= k
  <2>1. k \in Nat /\ m \in Nat /\ <<k, m>> \in Nat \X Nat
    OBVIOUS
  <2>2. ~ (k < m)
    BY <1>2, <1>3, <2>1
  <2> QED  BY <2>1, <2>2
<1> QED  BY <1>4

(* A set that holds 0 and with every number the next holds them all.       *)
LEMMA SetInduction ==
    ASSUME NEW S, 0 \in S, \A n \in Nat : n \in S => n + 1 \in S
    PROVE  Nat \subseteq S
<1> DEFINE T == Nat \ S
<1>1. SUFFICES ASSUME T # {} PROVE FALSE
  OBVIOUS
<1>2. PICK m \in T : \A k \in T : m <= k
  BY <1>1, LeastNatural
<1>3. m - 1 \in Nat /\ m - 1 \in S
  BY <1>2
<1> QED  BY <1>2, <1>3

LEMMA DivIs ==
    ASSUME NEW q \in Nat \ {0}, NEW x \in Int
    PROVE  x \div q \in Int /\ x % q \in 0..(q - 1) /\ x = q * (x \div q) + (x % q)
OBVIOUS

LEMMA Multiple ==
    ASSUME NEW q \in Nat \ {0}, NEW z \in Int, NEW e \in Int, e = q * z, -q < e, e < q
    PROVE  z = 0
<1>1. CASE z >= 1
  <2>1. q * (z - 1) >= 0
    BY <1>1
  <2>2. q * (z - 1) = q * z - q
    OBVIOUS
  <2> QED  BY <2>1, <2>2
<1>2. CASE z <= -1
  <2>1. q * (-1 - z) >= 0
    BY <1>2
  <2>2. q * (-1 - z) = -q - q * z
    OBVIOUS
  <2> QED  BY <2>1, <2>2
<1> QED  BY <1>1, <1>2

(* Quotient and remainder of the next number.                              *)
LEMMA DivNext ==
    ASSUME NEW q \in Nat \ {0}, NEW x \in Nat
    PROVE  /\ x \div q \in Nat /\ x % q \in 0..(q - 1)
           /\ (x + 1) \div q = (x \div q) + (IF x % q = q - 1 THEN 1 ELSE 0)
           /\ (x + 1) % q = IF x % q = q - 1 THEN 0 ELSE (x % q) + 1
<1> DEFINE a == x \div q
           r == x % q
           k == (x + 1) \div q
           m == (x + 1) % q
           b == IF r = q - 1 THEN a + 1 ELSE a
           s == IF r = q - 1 THEN 0 ELSE r + 1
<1>1. a \in Int /\ r \in 0..(q - 1) /\ x = q * a + r
  BY DivIs
<1>2. k \in Int /\ m \in 0..(q - 1) /\ x + 1 = q * k + m
  <2>1. x + 1 \in Int
    OBVIOUS
  <2> QED  BY <2>1, DivIs
<1>3. a \in Nat
  <2> HIDE DEF a, r
  <2>1. CASE a <= -1
    <3>1. q * (-1 - a) >= 0
      BY <1>1, <2>1
    <3>2. q * (-1 - a) = -q - q * a
      BY <1>1
    <3> QED  BY <1>1, <3>1, <3>2
  <2> QED  BY <1>1, <2>1
<1> HIDE DEF a, r, k, m
<1>4. b \in Int /\ s \in 0..(q - 1) /\ x + 1 = q * b + s
  <2>1. CASE r = q - 1
    <3>1. q * (a + 1) = q * a + q
      BY <1>1
    <3> QED  BY <1>1, <2>1, <3>1
  <2>2. CASE r # q - 1
    BY <1>1, <2>2
  <2> QED  BY <2>1, <2>2
<1> HIDE DEF b, s
<1>5. q * (b - k) = m - s
  <2>1. q * (b - k) = q * b - q * k
    BY <1>2, <1>4
  <2>2. q * b \in Int /\ q * k \in Int
    BY <1>2, <1>4
  <2> QED  BY <1>2, <1>4, <2>1, <2>2
<1>6. b - k = 0
  <2>1. b - k \in Int /\ m - s \in Int /\ -q < m - s /\ m - s < q
    BY <1>2, <1>4
  <2> HIDE DEF b
  <2> QED  BY <1>5, <2>1, Multiple
<1>7. k = b /\ m = s
  BY <1>2, <1>4, <1>5, <1>6
<1> QED  BY <1>1, <1>3, <1>7 DEF a, r, k, m, b, s

LEMMA DivMod ==
  ASSUME NEW q \in Nat \ {0}, NEW a \in Int, NEW r \in 0..(q - 1)
  PROVE  (q * a + r) \div q = a /\ (q * a + r) % q = r
<1> DEFINE x == q * a + r
           k == x \div q
           m == x % q
<1>1. x \in Int
  OBVIOUS
<1> HIDE DEF x
<1>2. k \in Int /\ m \in 0..(q - 1) /\ x = q * k + m
  BY <1>1, DivIs
<1> HIDE DEF k, m
<1>3. q * (a - k) = m - r
  <2>1. q * (a - k) = q * a - q * k
    BY <1>2
  <2> QED  BY <1>2, <2>1 DEF x
<1>4. a - k = 0
  BY <1>2, <1>3, Multiple
<1>5. k = a /\ m = r
  BY <1>2, <1>3, <1>4
<1> QED  BY <1>5 DEF k, m, x

(***************************************************************************)
(* The registers of the GBA's CPU: the copying between the current mode's  *)
(* registers and the fields of its bank against one register file.         *)
(***************************************************************************)
Psrs == [mode : Modes, i : BOOLEAN, t : BOOLEAN, f : BOOLEAN]
SavedPsrs == Psrs \union {NoPsr}
Cpus == [r : [{8, 13, 14} -> Int], pc : Int, spsr : SavedPsrs, shared : Int, fiq : Int, cpsr : Psrs,
         bank : [Banks -> [r13 : Int, r14 : Int, spsr : SavedPsrs]]]
CpuTypeOK == cpu \in Cpus /\ stored \in Int /\ booted \in BOOLEAN

LEMMA BankIs ==
  ASSUME NEW m \in Modes
  PROVE  /\ BankOf(m) \in Banks /\ "usr" \in Banks /\ "svc" \in Banks /\ "irq" \in Banks
         /\ m \in UserModes <=> BankOf(m) = "usr"
         /\ m \notin UserModes => BankOf(m) = m
         /\ m = "fiq" <=> BankOf(m) = "fiq"
BY ModeAssumption DEF BankOf, Banks, UserModes

(* Changing mode stores the old mode's registers in its bank and loads the  *)
(* new one's; nothing else of the CPU changes.                              *)
LEMMA SwitchIs ==
  ASSUME NEW c \in Cpus, NEW m \in Modes, m # c.cpsr.mode
  PROVE  LET d == SwitchMode(c, m)
             old == c.cpsr.mode
             B == BankOf(old)
             N == BankOf(m)
         IN  /\ d \in Cpus /\ d.pc = c.pc /\ d.cpsr = c.cpsr
             /\ d.bank[B].r13 = c.r[13] /\ d.bank[B].r14 = c.r[14]
             /\ d.bank[B].spsr = IF old \in UserModes THEN c.bank[B].spsr ELSE c.spsr
             /\ \A b \in Banks \ {B} : d.bank[b] = c.bank[b]
             /\ d.r[13] = d.bank[N].r13 /\ d.r[14] = d.bank[N].r14
             /\ d.spsr = IF m \in UserModes THEN NoPsr ELSE d.bank[N].spsr
             /\ d.fiq = IF old = "fiq" THEN c.r[8] ELSE c.fiq
             /\ d.shared = IF old # "fiq" /\ m = "fiq" THEN c.r[8] ELSE c.shared
             /\ d.r[8] = IF old = "fiq" THEN c.shared ELSE IF m = "fiq" THEN c.fiq ELSE c.r[8]
<1> DEFINE old == c.cpsr.mode
           B == BankOf(old)
           N == BankOf(m)
           r8kept == CASE old = "fiq" -> [c EXCEPT !.fiq = c.r[8]]
                     [] old # "fiq" /\ m = "fiq" -> [c EXCEPT !.shared = c.r[8]]
                     [] OTHER -> c
           saved == SaveBanked(r8kept, old)
           moved == LoadBanked(saved, m)
           d == SwitchMode(c, m)
<1>1. old \in Modes /\ B \in Banks /\ N \in Banks
  BY BankIs DEF Cpus, Psrs
<1>2. /\ r8kept \in Cpus /\ r8kept.r = c.r /\ r8kept.pc = c.pc /\ r8kept.spsr = c.spsr /\ r8kept.cpsr = c.cpsr
      /\ r8kept.bank = c.bank
      /\ r8kept.fiq = (IF old = "fiq" THEN c.r[8] ELSE c.fiq)
      /\ r8kept.shared = (IF old # "fiq" /\ m = "fiq" THEN c.r[8] ELSE c.shared)
  <2>1. c.r[8] \in Int
    BY DEF Cpus
  <2>2. CASE old = "fiq"
    <3>1. r8kept = [c EXCEPT !.fiq = c.r[8]]
      BY <2>2
    <3> HIDE DEF r8kept
    <3> QED  BY <2>1, <2>2, <3>1 DEF Cpus
  <2>3. CASE old # "fiq" /\ m = "fiq"
    <3>1. r8kept = [c EXCEPT !.shared = c.r[8]]
      BY <2>3
    <3> HIDE DEF r8kept
    <3> QED  BY <2>1, <2>3, <3>1 DEF Cpus
  <2>4. CASE old # "fiq" /\ m # "fiq"
    <3>1. r8kept = c
      BY <2>4
    <3> HIDE DEF r8kept
    <3> QED  BY <2>4, <3>1
  <2> QED  BY <2>2, <2>3, <2>4
<1> HIDE DEF r8kept
<1> DEFINE entry == [r13 |-> r8kept.r[13], r14 |-> r8kept.r[14],
                     spsr |-> IF old \in UserModes THEN r8kept.bank[B].spsr ELSE r8kept.spsr]
<1>3. entry \in [r13 : Int, r14 : Int, spsr : SavedPsrs]
  BY <1>1, <1>2 DEF Cpus
<1>4. saved = [r8kept EXCEPT !.bank[B] = entry]
  BY DEF SaveBanked
<1> HIDE DEF entry
<1>5. /\ saved \in Cpus /\ saved.r = r8kept.r /\ saved.pc = r8kept.pc /\ saved.cpsr = r8kept.cpsr
      /\ saved.fiq = r8kept.fiq /\ saved.shared = r8kept.shared
      /\ saved.bank[B] = entry /\ \A b \in Banks \ {B} : saved.bank[b] = r8kept.bank[b]
  <2> HIDE DEF saved
  <2> QED  BY <1>1, <1>2, <1>3, <1>4 DEF Cpus
<1> HIDE DEF saved
<1> DEFINE psr == IF m \in UserModes THEN NoPsr ELSE saved.bank[N].spsr
           regs == [[saved.r EXCEPT ![13] = saved.bank[N].r13] EXCEPT ![14] = saved.bank[N].r14]
<1>6. psr \in SavedPsrs
  BY <1>1, <1>5 DEF Cpus, SavedPsrs
<1>7. /\ regs \in [{8, 13, 14} -> Int] /\ regs[8] = saved.r[8]
      /\ regs[13] = saved.bank[N].r13 /\ regs[14] = saved.bank[N].r14
  BY <1>1, <1>5 DEF Cpus
<1>8. moved = [[saved EXCEPT !.r = regs] EXCEPT !.spsr = psr]
  BY <1>5 DEF LoadBanked, Cpus
<1> HIDE DEF psr, regs
<1>9. /\ moved \in Cpus /\ moved.r = regs /\ moved.spsr = psr /\ moved.pc = saved.pc
      /\ moved.cpsr = saved.cpsr /\ moved.fiq = saved.fiq /\ moved.shared = saved.shared
      /\ moved.bank = saved.bank
  <2> HIDE DEF moved
  <2> QED  BY <1>5, <1>6, <1>7, <1>8 DEF Cpus
<1>10. d = (CASE old = "fiq" -> [moved EXCEPT !.r[8] = moved.shared]
              [] old # "fiq" /\ m = "fiq" -> [moved EXCEPT !.r[8] = moved.fiq]
              [] OTHER -> moved)
  BY DEF SwitchMode, moved, saved, r8kept
<1> HIDE DEF moved, d
<1>11. /\ d \in Cpus /\ d.spsr = psr /\ d.pc = moved.pc /\ d.cpsr = moved.cpsr /\ d.fiq = moved.fiq
       /\ d.shared = moved.shared /\ d.bank = moved.bank /\ d.r[13] = regs[13] /\ d.r[14] = regs[14]
       /\ d.r[8] = (IF old = "fiq" THEN moved.shared ELSE IF m = "fiq" THEN moved.fiq ELSE regs[8])
  <2>1. moved.shared \in Int /\ moved.fiq \in Int
    BY <1>9 DEF Cpus
  <2>2. ASSUME NEW x \in Int, d = [moved EXCEPT !.r[8] = x]
        PROVE  /\ d \in Cpus /\ d.spsr = psr /\ d.pc = moved.pc /\ d.cpsr = moved.cpsr /\ d.fiq = moved.fiq
               /\ d.shared = moved.shared /\ d.bank = moved.bank /\ d.r[13] = regs[13] /\ d.r[14] = regs[14]
               /\ d.r[8] = x
    BY <1>7, <1>9, <2>2 DEF Cpus
  <2>3. CASE old = "fiq"
    BY <1>10, <2>1, <2>2, <2>3
  <2>4. CASE old # "fiq" /\ m = "fiq"
    BY <1>10, <2>1, <2>2, <2>4
  <2>5. CASE old # "fiq" /\ m # "fiq"
    BY <1>9, <1>10, <2>5
  <2> QED  BY <2>3, <2>4, <2>5
<1>12. entry.r13 = c.r[13] /\ entry.r14 = c.r[14]
       /\ entry.spsr = (IF old \in UserModes THEN c.bank[B].spsr ELSE c.spsr)
  BY <1>2 DEF entry
<1>13. d.bank[B] = entry /\ \A b \in Banks \ {B} : d.bank[b] = c.bank[b]
  BY <1>2, <1>5, <1>9, <1>11
<1>14. d.r[13] = d.bank[N].r13 /\ d.r[14] = d.bank[N].r14
       /\ d.spsr = IF m \in UserModes THEN NoPsr ELSE d.bank[N].spsr
  BY <1>7, <1>9, <1>11 DEF psr
<1>15. /\ d.pc = c.pc /\ d.cpsr = c.cpsr
       /\ d.fiq = (IF old = "fiq" THEN c.r[8] ELSE c.fiq)
       /\ d.shared = (IF old # "fiq" /\ m = "fiq" THEN c.r[8] ELSE c.shared)
       /\ d.r[8] = (IF old = "fiq" THEN c.shared ELSE IF m = "fiq" THEN c.fiq ELSE c.r[8])
  BY <1>2, <1>5, <1>7, <1>9, <1>11
<1> QED  BY <1>11, <1>12, <1>13, <1>14, <1>15 DEF d

(* What the fields of c stand for: the physical registers, and the saved    *)
(* statuses.                                                                *)
LiveBank(mode, n) == IF n = 8 THEN (IF mode = "fiq" THEN "fiq" ELSE "usr") ELSE BankOf(mode)
RegisterIn(c, mode, b, n) ==
  IF b = LiveBank(mode, n) THEN c.r[n]
  ELSE IF n = 8 THEN (IF b = "fiq" THEN c.fiq ELSE c.shared)
  ELSE IF n = 13 THEN c.bank[b].r13 ELSE c.bank[b].r14
FileOf(c) == [p \in Physical |-> RegisterIn(c, c.cpsr.mode, p[1], p[2])]
SavedIn(c, mode, e) == IF e = mode THEN c.spsr ELSE c.bank[e].spsr
SavedOf(c) == [e \in Modes \ UserModes |-> SavedIn(c, c.cpsr.mode, e)]

LEMMA PhysicalIs ==
  ASSUME NEW p \in Physical
  PROVE  /\ p = <<p[1], p[2]>> /\ p[1] \in Banks /\ p[2] \in {8, 13, 14}
         /\ p[2] = 8 => p[1] \in {"usr", "fiq"}
BY DEF Physical

LEMMA LiveIsPhysical ==
  ASSUME NEW m \in Modes, NEW n \in {8, 13, 14}
  PROVE  <<LiveBank(m, n), n>> \in Physical /\ <<"usr", n>> \in Physical
BY BankIs DEF Physical, LiveBank

(* Changing mode moves no register and no saved status.                     *)
LEMMA SwitchKeeps ==
  ASSUME NEW c \in Cpus, NEW m \in Modes
  PROVE  LET d == SwitchMode(c, m)
         IN  /\ d \in Cpus /\ d.pc = c.pc /\ d.cpsr = c.cpsr
             /\ \A p \in Physical : RegisterIn(d, m, p[1], p[2]) = RegisterIn(c, c.cpsr.mode, p[1], p[2])
             /\ \A e \in Modes \ UserModes : SavedIn(d, m, e) = SavedIn(c, c.cpsr.mode, e)
<1> DEFINE d == SwitchMode(c, m)
           old == c.cpsr.mode
           B == BankOf(old)
           N == BankOf(m)
<1>1. CASE m = old
  BY <1>1 DEF SwitchMode
<1>2. CASE m # old
  <2>1. /\ d \in Cpus /\ d.pc = c.pc /\ d.cpsr = c.cpsr
        /\ d.bank[B].r13 = c.r[13] /\ d.bank[B].r14 = c.r[14]
        /\ d.bank[B].spsr = IF old \in UserModes THEN c.bank[B].spsr ELSE c.spsr
        /\ \A b \in Banks \ {B} : d.bank[b] = c.bank[b]
        /\ d.r[13] = d.bank[N].r13 /\ d.r[14] = d.bank[N].r14
        /\ d.spsr = IF m \in UserModes THEN NoPsr ELSE d.bank[N].spsr
        /\ d.fiq = IF old = "fiq" THEN c.r[8] ELSE c.fiq
        /\ d.shared = IF old # "fiq" /\ m = "fiq" THEN c.r[8] ELSE c.shared
        /\ d.r[8] = IF old = "fiq" THEN c.shared ELSE IF m = "fiq" THEN c.fiq ELSE c.r[8]
    BY <1>2, SwitchIs
  <2> HIDE DEF d
  <2>2. old \in Modes /\ B \in Banks /\ N \in Banks
    BY BankIs DEF Cpus, Psrs
  <2>3. ASSUME NEW p \in Physical
        PROVE  RegisterIn(d, m, p[1], p[2]) = RegisterIn(c, old, p[1], p[2])
    <3>1. p[1] \in Banks /\ p[2] \in {8, 13, 14} /\ (p[2] = 8 => p[1] \in {"usr", "fiq"})
      BY PhysicalIs
    <3>2. CASE p[2] = 8
      BY <1>2, <2>1, <3>1, <3>2 DEF RegisterIn, LiveBank
    <3>3. CASE p[2] = 13
      BY <1>2, <2>1, <2>2, <3>1, <3>3 DEF RegisterIn, LiveBank
    <3>4. CASE p[2] = 14
      BY <1>2, <2>1, <2>2, <3>1, <3>4 DEF RegisterIn, LiveBank
    <3> QED  BY <3>1, <3>2, <3>3, <3>4
  <2>4. ASSUME NEW e \in Modes \ UserModes
        PROVE  SavedIn(d, m, e) = SavedIn(c, old, e)
    <3>1. BankOf(e) = e /\ e \in Banks
      BY BankIs
    <3>2. old \notin UserModes => B = old
      BY <2>2, BankIs
    <3>3. old \in UserModes => B # e
      BY <2>2, <3>1, BankIs
    <3>4. m \notin UserModes => N = m
      BY BankIs
    <3> QED  BY <1>2, <2>1, <3>1, <3>2, <3>3, <3>4 DEF SavedIn
  <2> QED  BY <2>1, <2>3, <2>4 DEF d
<1> QED  BY <1>1, <1>2

LEMMA SetCpsrKeeps ==
  ASSUME NEW c \in Cpus, NEW p \in Psrs
  PROVE  LET d == SetCpsr(c, p)
         IN  d \in Cpus /\ d.cpsr = p /\ d.pc = c.pc /\ FileOf(d) = FileOf(c) /\ SavedOf(d) = SavedOf(c)
<1> DEFINE s == SwitchMode(c, p.mode)
           d == SetCpsr(c, p)
<1>1. p.mode \in Modes
  BY DEF Psrs
<1>2. /\ s \in Cpus /\ s.pc = c.pc /\ s.cpsr = c.cpsr
      /\ \A q \in Physical : RegisterIn(s, p.mode, q[1], q[2]) = RegisterIn(c, c.cpsr.mode, q[1], q[2])
      /\ \A e \in Modes \ UserModes : SavedIn(s, p.mode, e) = SavedIn(c, c.cpsr.mode, e)
  BY <1>1, SwitchKeeps
<1>3. d = [s EXCEPT !.cpsr = p]
  BY DEF SetCpsr
<1> HIDE DEF s, d
<1>4. /\ d \in Cpus /\ d.cpsr = p /\ d.pc = s.pc /\ d.r = s.r /\ d.fiq = s.fiq /\ d.shared = s.shared
      /\ d.bank = s.bank /\ d.spsr = s.spsr
  BY <1>2, <1>3 DEF Cpus
<1>5. \A q \in Physical : RegisterIn(d, p.mode, q[1], q[2]) = RegisterIn(s, p.mode, q[1], q[2])
  BY <1>4 DEF RegisterIn
<1>6. \A e \in Modes \ UserModes : SavedIn(d, p.mode, e) = SavedIn(s, p.mode, e)
  BY <1>4 DEF SavedIn
<1>7. FileOf(d) = FileOf(c) /\ SavedOf(d) = SavedOf(c)
  BY <1>2, <1>4, <1>5, <1>6 DEF FileOf, SavedOf
<1> QED  BY <1>2, <1>4, <1>7 DEF d

(* What another state d of the fields stands for, when they agree with c's  *)
(* but for one of the current mode's registers, or altogether.              *)
LEMMA SameFields ==
  ASSUME NEW c, NEW d, d.cpsr.mode = c.cpsr.mode, d.spsr = c.spsr, d.bank = c.bank,
         d.fiq = c.fiq, d.shared = c.shared, d.r = c.r
  PROVE  FileOf(d) = FileOf(c) /\ SavedOf(d) = SavedOf(c)
BY DEF FileOf, SavedOf, SavedIn, RegisterIn

DifferIn(c, d, n) ==
  /\ d.cpsr.mode = c.cpsr.mode /\ d.spsr = c.spsr /\ d.bank = c.bank
  /\ d.fiq = c.fiq /\ d.shared = c.shared /\ \A k \in {8, 13, 14} \ {n} : d.r[k] = c.r[k]

LEMMA OneRegister ==
  ASSUME NEW c, NEW d, NEW n \in {8, 13, 14}, DifferIn(c, d, n)
  PROVE  /\ SavedOf(d) = SavedOf(c)
         /\ FileOf(d) = [FileOf(c) EXCEPT ![<<LiveBank(c.cpsr.mode, n), n>>] = d.r[n]]
<1> USE DEF DifferIn
<1> DEFINE mode == c.cpsr.mode
<1>1. SavedOf(d) = SavedOf(c)
  BY DEF SavedOf, SavedIn
<1>2. ASSUME NEW p \in Physical
      PROVE  RegisterIn(d, mode, p[1], p[2]) =
               IF p = <<LiveBank(mode, n), n>> THEN d.r[n] ELSE RegisterIn(c, mode, p[1], p[2])
  <2>1. p = <<p[1], p[2]>> /\ p[2] \in {8, 13, 14}
    BY PhysicalIs
  <2> QED  BY <2>1 DEF RegisterIn
<1> QED  BY <1>1, <1>2 DEF FileOf

(* The fields after a store into a saved status.                            *)
LEMMA PutSaved ==
  ASSUME NEW c \in Cpus, NEW m \in Modes \ UserModes, NEW p \in SavedPsrs
  PROVE  LET d == SetSpsrForMode(c, m, p)
         IN  /\ d \in Cpus /\ d.cpsr = c.cpsr /\ d.pc = c.pc /\ FileOf(d) = FileOf(c)
             /\ SavedOf(d) = [SavedOf(c) EXCEPT ![m] = p]
<1> DEFINE s == IF c.cpsr.mode = m THEN p ELSE c.spsr
           k == [c.bank EXCEPT ![m].spsr = p]
           d == SetSpsrForMode(c, m, p)
<1>1. m \in Banks
  BY BankIs
<1>2. /\ k \in [Banks -> [r13 : Int, r14 : Int, spsr : SavedPsrs]]
      /\ k[m].spsr = p /\ \A b \in Banks : k[b].r13 = c.bank[b].r13 /\ k[b].r14 = c.bank[b].r14
      /\ \A b \in Banks \ {m} : k[b] = c.bank[b]
  BY <1>1 DEF Cpus
<1>3. d = [c EXCEPT !.bank = k, !.spsr = s]
  BY <1>1 DEF SetSpsrForMode, Cpus
<1>4. s \in SavedPsrs
  BY DEF Cpus
<1> HIDE DEF k, s, d
<1>5. /\ d \in Cpus /\ d.cpsr = c.cpsr /\ d.pc = c.pc /\ d.spsr = s /\ d.bank = k
      /\ d.fiq = c.fiq /\ d.shared = c.shared /\ d.r = c.r
  BY <1>2, <1>3, <1>4 DEF Cpus
<1>6. \A q \in Physical : RegisterIn(d, c.cpsr.mode, q[1], q[2]) = RegisterIn(c, c.cpsr.mode, q[1], q[2])
  BY <1>2, <1>5, PhysicalIs DEF RegisterIn
<1>7. \A e \in Modes \ UserModes : SavedIn(d, c.cpsr.mode, e) = IF e = m THEN p ELSE SavedIn(c, c.cpsr.mode, e)
  <2>1. \A e \in Modes \ UserModes : e \in Banks
    BY BankIs
  <2> QED  BY <1>2, <1>5, <2>1 DEF SavedIn, s
<1>8. FileOf(d) = FileOf(c) /\ SavedOf(d) = [SavedOf(c) EXCEPT ![m] = p]
  BY <1>5, <1>6, <1>7 DEF FileOf, SavedOf
<1> QED  BY <1>5, <1>8 DEF d

(* A saved status that is only stored in its field, as a software interrupt *)
(* does: in Supervisor mode the field is not the one in use.                *)
Saving(c, m, p) == [c EXCEPT !.bank[m].spsr = p]
LEMMA SavingKeeps ==
  ASSUME NEW c \in Cpus, NEW p \in Psrs, NEW m \in Modes \ UserModes
  PROVE  LET d == Saving(c, m, p)
         IN  /\ d \in Cpus /\ d.cpsr = c.cpsr /\ d.pc = c.pc /\ FileOf(d) = FileOf(c)
             /\ SavedOf(d) = IF c.cpsr.mode = m THEN SavedOf(c) ELSE [SavedOf(c) EXCEPT ![m] = p]
<1> DEFINE k == [c.bank EXCEPT ![m].spsr = p]
           d == Saving(c, m, p)
<1>1. m \in Banks
  BY BankIs
<1>2. /\ k \in [Banks -> [r13 : Int, r14 : Int, spsr : SavedPsrs]]
      /\ k[m].spsr = p /\ \A b \in Banks : k[b].r13 = c.bank[b].r13 /\ k[b].r14 = c.bank[b].r14
      /\ \A b \in Banks \ {m} : k[b] = c.bank[b]
  BY <1>1 DEF Cpus, SavedPsrs
<1>3. d = [c EXCEPT !.bank = k]
  BY <1>1 DEF Cpus, Saving
<1> HIDE DEF k, d
<1>4. /\ d \in Cpus /\ d.cpsr = c.cpsr /\ d.pc = c.pc /\ d.spsr = c.spsr /\ d.bank = k
      /\ d.fiq = c.fiq /\ d.shared = c.shared /\ d.r = c.r
  BY <1>2, <1>3 DEF Cpus
<1>5. \A q \in Physical : RegisterIn(d, c.cpsr.mode, q[1], q[2]) = RegisterIn(c, c.cpsr.mode, q[1], q[2])
  BY <1>2, <1>4, PhysicalIs DEF RegisterIn
<1>6. \A e \in Modes \ UserModes :
        SavedIn(d, c.cpsr.mode, e) = IF e = m /\ c.cpsr.mode # m THEN p ELSE SavedIn(c, c.cpsr.mode, e)
  <2>1. \A e \in Modes \ UserModes : e \in Banks
    BY BankIs
  <2> QED  BY <1>2, <1>4, <2>1 DEF SavedIn
<1>7. FileOf(d) = FileOf(c)
  BY <1>4, <1>5 DEF FileOf
<1>8. SavedOf(d) = IF c.cpsr.mode = m THEN SavedOf(c) ELSE [SavedOf(c) EXCEPT ![m] = p]
  BY <1>4, <1>6 DEF SavedOf
<1> QED  BY <1>4, <1>7, <1>8 DEF d

(* An exception's entry, once its mode is set.                              *)
Entered(c, link, vector) == [c EXCEPT !.r[14] = link, !.cpsr.t = FALSE, !.cpsr.i = TRUE, !.pc = vector]
LEMMA EnteredIs ==
  ASSUME NEW c \in Cpus, NEW link \in Int, NEW vector \in Int
  PROVE  LET d == Entered(c, link, vector)
         IN  /\ d \in Cpus /\ d.cpsr = [c.cpsr EXCEPT !.t = FALSE, !.i = TRUE] /\ d.pc = vector
             /\ SavedOf(d) = SavedOf(c)
             /\ FileOf(d) = [FileOf(c) EXCEPT ![<<LiveBank(c.cpsr.mode, 14), 14>>] = link]
<1> DEFINE p == [c.cpsr EXCEPT !.t = FALSE, !.i = TRUE]
           regs == [c.r EXCEPT ![14] = link]
           d == Entered(c, link, vector)
<1>1. p \in Psrs /\ p.mode = c.cpsr.mode
  BY DEF Cpus, Psrs
<1>2. regs \in [{8, 13, 14} -> Int] /\ regs[14] = link /\ \A k \in {8, 13, 14} \ {14} : regs[k] = c.r[k]
  BY DEF Cpus
<1>3. d = [c EXCEPT !.r = regs, !.cpsr = p, !.pc = vector]
  BY DEF Cpus, Entered
<1> HIDE DEF p, regs, d
<1>4. /\ d \in Cpus /\ d.cpsr = p /\ d.pc = vector /\ d.spsr = c.spsr /\ d.bank = c.bank
      /\ d.fiq = c.fiq /\ d.shared = c.shared /\ d.r = regs
  BY <1>1, <1>2, <1>3 DEF Cpus
<1>5. d.cpsr.mode = c.cpsr.mode /\ d.r[14] = link /\ \A k \in {8, 13, 14} \ {14} : d.r[k] = c.r[k]
  BY <1>1, <1>2, <1>4
<1>6. /\ SavedOf(d) = SavedOf(c)
      /\ FileOf(d) = [FileOf(c) EXCEPT ![<<LiveBank(c.cpsr.mode, 14), 14>>] = link]
  <2>1. 14 \in {8, 13, 14} /\ DifferIn(c, d, 14)
    BY <1>4, <1>5 DEF DifferIn
  <2> QED  BY <1>5, <2>1, OneRegister
<1> QED  BY <1>4, <1>6 DEF p, d

(* A store into a register of the current mode.                             *)
Written(f, p, x) == [f EXCEPT ![p] = x]
PutRegister(c, n, x) == [c EXCEPT !.r[n] = x]
LEMMA PutIs ==
  ASSUME NEW c \in Cpus, NEW n \in {8, 13, 14}, NEW x \in Int
  PROVE  LET d == PutRegister(c, n, x)
         IN  /\ d \in Cpus /\ d.cpsr = c.cpsr /\ d.pc = c.pc /\ SavedOf(d) = SavedOf(c)
             /\ FileOf(d) = Written(FileOf(c), <<LiveBank(c.cpsr.mode, n), n>>, x)
<1> DEFINE d == PutRegister(c, n, x)
<1>1. /\ d \in Cpus /\ d.cpsr = c.cpsr /\ d.pc = c.pc /\ d.spsr = c.spsr /\ d.bank = c.bank
      /\ d.fiq = c.fiq /\ d.shared = c.shared
      /\ d.r[n] = x /\ \A k \in {8, 13, 14} \ {n} : d.r[k] = c.r[k]
  BY DEF PutRegister, Cpus
<1> HIDE DEF d
<1>2. SavedOf(d) = SavedOf(c) /\ FileOf(d) = Written(FileOf(c), <<LiveBank(c.cpsr.mode, n), n>>, x)
  <2>1. DifferIn(c, d, n)
    BY <1>1 DEF DifferIn
  <2>2. SavedOf(d) = SavedOf(c)
    BY <2>1 DEF DifferIn, SavedOf, SavedIn
  <2>3. ASSUME NEW p \in Physical
        PROVE  RegisterIn(d, c.cpsr.mode, p[1], p[2]) =
                 IF p = <<LiveBank(c.cpsr.mode, n), n>> THEN x ELSE RegisterIn(c, c.cpsr.mode, p[1], p[2])
    <3>1. p = <<p[1], p[2]>> /\ p[2] \in {8, 13, 14}
      BY PhysicalIs
    <3> QED  BY <1>1, <3>1 DEF RegisterIn
  <2>4. FileOf(d) = Written(FileOf(c), <<LiveBank(c.cpsr.mode, n), n>>, x)
    BY <1>1, <2>3 DEF FileOf, Written
  <2> QED  BY <2>2, <2>4
<1> QED  BY <1>1, <1>2 DEF d

(* The user bank, from another mode.                                        *)
LEMMA UserBank ==
  ASSUME NEW c \in Cpus, c.cpsr.mode \notin UserModes, NEW n \in {8, 13, 14}, NEW x \in Int
  PROVE  LET d == WriteUserReg(c, n, x)
         IN  /\ d \in Cpus /\ d.cpsr = c.cpsr /\ d.pc = c.pc /\ SavedOf(d) = SavedOf(c)
             /\ FileOf(d) = Written(FileOf(c), <<"usr", n>>, x)
             /\ ReadUserReg(c, n) = FileOf(c)[<<"usr", n>>]
<1> DEFINE mode == c.cpsr.mode
           d == WriteUserReg(c, n, x)
<1>1. mode \in Modes /\ BankOf(mode) = mode /\ mode # "usr" /\ "usr" \in Banks
  BY BankIs DEF Cpus, Psrs, UserModes
<1>2. <<"usr", n>> \in Physical
  BY <1>1, LiveIsPhysical
<1>3. ReadUserReg(c, n) = FileOf(c)[<<"usr", n>>]
  BY <1>1, <1>2 DEF ReadUserReg, FileOf, RegisterIn, LiveBank
<1>4. /\ d \in Cpus /\ d.cpsr = c.cpsr /\ d.pc = c.pc /\ SavedOf(d) = SavedOf(c)
      /\ FileOf(d) = Written(FileOf(c), <<"usr", n>>, x)
  <2>1. CASE n = 8 /\ mode # "fiq"
    <3>1. d = PutRegister(c, 8, x) /\ LiveBank(mode, 8) = "usr" /\ 8 \in {8, 13, 14}
      BY <2>1 DEF WriteUserReg, LiveBank, PutRegister
    <3> HIDE DEF d
    <3> HIDE DEF d
    <3>2. /\ d \in Cpus /\ d.cpsr = c.cpsr /\ d.pc = c.pc /\ SavedOf(d) = SavedOf(c)
          /\ FileOf(d) = Written(FileOf(c), <<LiveBank(c.cpsr.mode, 8), 8>>, x)
      BY <3>1, PutIs
    <3> QED  BY <2>1, <3>1, <3>2
  <2>2. CASE n = 8 /\ mode = "fiq"
    <3>1. d = [c EXCEPT !.shared = x]
      BY <2>2 DEF WriteUserReg
    <3> HIDE DEF d
    <3>2. /\ d \in Cpus /\ d.cpsr = c.cpsr /\ d.pc = c.pc /\ d.spsr = c.spsr /\ d.bank = c.bank
          /\ d.fiq = c.fiq /\ d.shared = x /\ d.r = c.r
      BY <3>1 DEF Cpus
    <3>3. \A q \in Physical : RegisterIn(d, mode, q[1], q[2]) =
                                IF q = <<"usr", 8>> THEN x ELSE RegisterIn(c, mode, q[1], q[2])
      <4>1. ASSUME NEW q \in Physical
            PROVE  RegisterIn(d, mode, q[1], q[2]) =
                     IF q = <<"usr", 8>> THEN x ELSE RegisterIn(c, mode, q[1], q[2])
        <5>1. q = <<q[1], q[2]>> /\ q[2] \in {8, 13, 14} /\ (q[2] = 8 => q[1] \in {"usr", "fiq"})
          BY PhysicalIs
        <5> QED  BY <2>2, <3>2, <5>1 DEF RegisterIn, LiveBank
      <4> QED  BY <4>1
    <3> QED  BY <2>2, <3>2, <3>3 DEF FileOf, SavedOf, SavedIn, Written
  <2>3. CASE n = 13 \/ n = 14
    <3> DEFINE k == d.bank
    <3>1. /\ d \in Cpus /\ d.cpsr = c.cpsr /\ d.pc = c.pc /\ d.spsr = c.spsr
          /\ d.fiq = c.fiq /\ d.shared = c.shared /\ d.r = c.r
          /\ \A b \in Banks \ {"usr"} : k[b] = c.bank[b]
          /\ k["usr"].spsr = c.bank["usr"].spsr
          /\ k["usr"].r13 = IF n = 13 THEN x ELSE c.bank["usr"].r13
          /\ k["usr"].r14 = IF n = 14 THEN x ELSE c.bank["usr"].r14
      <4>1. CASE n = 13
        <5>1. d = [c EXCEPT !.bank["usr"].r13 = x]
          BY <4>1 DEF WriteUserReg
        <5> HIDE DEF d
        <5> QED  BY <1>1, <4>1, <5>1 DEF Cpus
      <4>2. CASE n = 14
        <5>1. d = [c EXCEPT !.bank["usr"].r14 = x]
          BY <4>2 DEF WriteUserReg
        <5> HIDE DEF d
        <5> QED  BY <1>1, <4>2, <5>1 DEF Cpus
      <4> QED  BY <2>3, <4>1, <4>2
    <3> HIDE DEF d
    <3>2. ASSUME NEW q \in Physical
          PROVE  RegisterIn(d, mode, q[1], q[2]) =
                   IF q = <<"usr", n>> THEN x ELSE RegisterIn(c, mode, q[1], q[2])
      <4>1. q = <<q[1], q[2]>> /\ q[1] \in Banks /\ q[2] \in {8, 13, 14}
        BY PhysicalIs
      <4> QED  BY <1>1, <2>3, <3>1, <4>1 DEF RegisterIn, LiveBank
    <3>3. \A e \in Modes \ UserModes : SavedIn(d, mode, e) = SavedIn(c, mode, e)
      <4>1. \A e \in Modes \ UserModes : e \in Banks \ {"usr"}
        BY BankIs DEF UserModes
      <4> QED  BY <3>1, <4>1 DEF SavedIn
    <3>4. FileOf(d) = Written(FileOf(c), <<"usr", n>>, x)
      BY <3>1, <3>2 DEF FileOf, Written
    <3>5. SavedOf(d) = SavedOf(c)
      BY <3>1, <3>3 DEF SavedOf
    <3> QED  BY <3>1, <3>4, <3>5
  <2> QED  BY <2>1, <2>2, <2>3
<1> QED  BY <1>3, <1>4

(* The skipped boot program: the stacks of every bank, ARM state, System    *)
(* mode, and cleared registers.                                             *)
Stacked(c) ==
  [c EXCEPT !.bank = [b \in Banks |-> [@[b] EXCEPT !.r13 = StackOf[b]]],
            !.r[13] = StackOf[BankOf(c.cpsr.mode)]]
Arm(c) == [c EXCEPT !.cpsr.t = FALSE]
BootedFrom(c) ==
  [c EXCEPT !.cpsr.i = FALSE, !.r = [n \in {8, 13, 14} |-> IF n = 13 THEN StackOf["usr"] ELSE 0], !.pc = 64]
BootValue(c, p) ==
  CASE p[2] = 13 -> StackOf[p[1]]
    [] p \in {<<"usr", 8>>, <<"usr", 14>>} -> 0
    [] OTHER -> FileOf(c)[p]

LEMMA StackedIs ==
  ASSUME NEW c \in Cpus
  PROVE  LET d == Stacked(c)
         IN  /\ d \in Cpus /\ d.cpsr = c.cpsr /\ SavedOf(d) = SavedOf(c)
             /\ \A p \in Physical : FileOf(d)[p] = IF p[2] = 13 THEN StackOf[p[1]] ELSE FileOf(c)[p]
<1> DEFINE mode == c.cpsr.mode
           k == [b \in Banks |-> [c.bank[b] EXCEPT !.r13 = StackOf[b]]]
           regs == [c.r EXCEPT ![13] = StackOf[BankOf(mode)]]
           d == Stacked(c)
<1>1. mode \in Modes /\ BankOf(mode) \in Banks
  BY BankIs DEF Cpus, Psrs
<1>2. \A b \in Banks : StackOf[b] \in Int
  BY ModeAssumption
<1>3. /\ k \in [Banks -> [r13 : Int, r14 : Int, spsr : SavedPsrs]]
      /\ \A b \in Banks : k[b].r13 = StackOf[b] /\ k[b].r14 = c.bank[b].r14 /\ k[b].spsr = c.bank[b].spsr
  BY <1>2 DEF Cpus
<1>4. /\ regs \in [{8, 13, 14} -> Int]
      /\ regs[8] = c.r[8] /\ regs[13] = StackOf[BankOf(mode)] /\ regs[14] = c.r[14]
  BY <1>1, <1>2 DEF Cpus
<1>5. d = [c EXCEPT !.bank = k, !.r = regs]
  BY DEF Stacked, Cpus
<1> HIDE DEF k, regs, d
<1>6. /\ d \in Cpus /\ d.cpsr = c.cpsr /\ d.pc = c.pc /\ d.spsr = c.spsr /\ d.bank = k
      /\ d.fiq = c.fiq /\ d.shared = c.shared /\ d.r = regs
  BY <1>3, <1>4, <1>5 DEF Cpus
<1>7. ASSUME NEW p \in Physical
      PROVE  RegisterIn(d, mode, p[1], p[2]) =
               IF p[2] = 13 THEN StackOf[p[1]] ELSE RegisterIn(c, mode, p[1], p[2])
  <2>1. p[1] \in Banks /\ p[2] \in {8, 13, 14}
    BY PhysicalIs
  <2> QED  BY <1>3, <1>4, <1>6, <2>1 DEF RegisterIn, LiveBank
<1>8. \A p \in Physical : FileOf(d)[p] = IF p[2] = 13 THEN StackOf[p[1]] ELSE FileOf(c)[p]
  BY <1>6, <1>7 DEF FileOf
<1>9. SavedOf(d) = SavedOf(c)
  <2>1. \A e \in Modes \ UserModes : e \in Banks
    BY BankIs
  <2> QED  BY <1>3, <1>6, <2>1 DEF SavedOf, SavedIn
<1> QED  BY <1>6, <1>8, <1>9 DEF d

LEMMA ArmIs ==
  ASSUME NEW c \in Cpus
  PROVE  LET d == Arm(c)
         IN  /\ d \in Cpus /\ d.cpsr = [c.cpsr EXCEPT !.t = FALSE]
             /\ FileOf(d) = FileOf(c) /\ SavedOf(d) = SavedOf(c)
<1> DEFINE p == [c.cpsr EXCEPT !.t = FALSE]
           d == Arm(c)
<1>1. p \in Psrs /\ p.mode = c.cpsr.mode
  BY DEF Cpus, Psrs
<1>2. d = [c EXCEPT !.cpsr = p]
  BY DEF Arm, Cpus
<1> HIDE DEF p, d
<1>3. /\ d \in Cpus /\ d.cpsr = p /\ d.spsr = c.spsr /\ d.bank = c.bank
      /\ d.fiq = c.fiq /\ d.shared = c.shared /\ d.r = c.r
  BY <1>1, <1>2 DEF Cpus
<1>4. FileOf(d) = FileOf(c) /\ SavedOf(d) = SavedOf(c)
  BY <1>1, <1>3, SameFields
<1> QED  BY <1>3, <1>4 DEF p, d

LEMMA BootedFromIs ==
  ASSUME NEW c \in Cpus, c.cpsr.mode = "sys"
  PROVE  LET d == BootedFrom(c)
         IN  /\ d \in Cpus /\ d.cpsr = [c.cpsr EXCEPT !.i = FALSE] /\ d.pc = 64 /\ SavedOf(d) = SavedOf(c)
             /\ \A p \in Physical : FileOf(d)[p] =
                  IF p[1] # "usr" THEN FileOf(c)[p] ELSE IF p[2] = 13 THEN StackOf["usr"] ELSE 0
<1> DEFINE q == [c.cpsr EXCEPT !.i = FALSE]
           regs == [n \in {8, 13, 14} |-> IF n = 13 THEN StackOf["usr"] ELSE 0]
           d == BootedFrom(c)
<1>1. q \in Psrs /\ q.mode = "sys"
  BY DEF Cpus, Psrs
<1>2. regs \in [{8, 13, 14} -> Int]
  BY ModeAssumption, BankIs
<1>3. d = [c EXCEPT !.cpsr = q, !.r = regs, !.pc = 64]
  BY DEF BootedFrom, Cpus
<1>4. \A n \in {8, 13, 14} : regs[n] = IF n = 13 THEN StackOf["usr"] ELSE 0
  OBVIOUS
<1> HIDE DEF q, regs, d
<1>5. /\ d \in Cpus /\ d.cpsr = q /\ d.pc = 64 /\ d.spsr = c.spsr /\ d.bank = c.bank
      /\ d.fiq = c.fiq /\ d.shared = c.shared /\ d.r = regs
  <2>1. q \in Psrs /\ 64 \in Int
    BY <1>1
  <2> QED  BY <1>2, <1>3, <2>1 DEF Cpus
<1>6. \A n \in {8, 13, 14} : LiveBank("sys", n) = "usr"
  BY DEF LiveBank, BankOf
<1>7. ASSUME NEW p \in Physical
      PROVE  RegisterIn(d, "sys", p[1], p[2]) =
               IF p[1] # "usr" THEN RegisterIn(c, "sys", p[1], p[2])
               ELSE IF p[2] = 13 THEN StackOf["usr"] ELSE 0
  <2>1. p[1] \in Banks /\ p[2] \in {8, 13, 14}
    BY PhysicalIs
  <2> QED  BY <1>4, <1>5, <1>6, <2>1 DEF RegisterIn
<1>8. SavedOf(d) = SavedOf(c)
  BY <1>1, <1>5 DEF SavedOf, SavedIn
<1>9. \A p \in Physical : FileOf(d)[p] =
        IF p[1] # "usr" THEN FileOf(c)[p] ELSE IF p[2] = 13 THEN StackOf["usr"] ELSE 0
  BY <1>1, <1>5, <1>7 DEF FileOf
<1> QED  BY <1>5, <1>8, <1>9 DEF q, d

LEMMA BootIs ==
  ASSUME NEW c \in Cpus
  PROVE  LET d == BootedFrom(SetMode(Arm(Stacked(c)), "sys"))
         IN  /\ d \in Cpus /\ d.pc = 64 /\ SavedOf(d) = SavedOf(c)
             /\ d.cpsr = [c.cpsr EXCEPT !.mode = "sys", !.i = FALSE, !.t = FALSE]
             /\ FileOf(d) = [p \in Physical |-> BootValue(c, p)]
<1> DEFINE s == Stacked(c)
           a == Arm(s)
           p1 == [a.cpsr EXCEPT !.mode = "sys"]
           m == SetMode(a, "sys")
           d == BootedFrom(m)
<1>1. /\ s \in Cpus /\ s.cpsr = c.cpsr /\ SavedOf(s) = SavedOf(c)
      /\ \A p \in Physical : FileOf(s)[p] = IF p[2] = 13 THEN StackOf[p[1]] ELSE FileOf(c)[p]
  BY StackedIs
<1> HIDE DEF s
<1>2. /\ a \in Cpus /\ a.cpsr = [s.cpsr EXCEPT !.t = FALSE]
      /\ FileOf(a) = FileOf(s) /\ SavedOf(a) = SavedOf(s)
  BY <1>1, ArmIs
<1> HIDE DEF a
<1>3. p1 \in Psrs /\ p1.mode = "sys"
  <2>1. a.cpsr \in Psrs /\ "sys" \in Modes
    BY <1>2, ModeAssumption DEF Cpus
  <2> QED  BY <2>1 DEF Psrs
<1>4. m = SetCpsr(a, p1)
  BY DEF SetMode
<1> HIDE DEF p1, m
<1>5. m \in Cpus /\ m.cpsr = p1 /\ FileOf(m) = FileOf(a) /\ SavedOf(m) = SavedOf(a)
  BY <1>2, <1>3, <1>4, SetCpsrKeeps
<1>6. /\ d \in Cpus /\ d.cpsr = [m.cpsr EXCEPT !.i = FALSE] /\ d.pc = 64 /\ SavedOf(d) = SavedOf(m)
      /\ \A p \in Physical : FileOf(d)[p] =
           IF p[1] # "usr" THEN FileOf(m)[p] ELSE IF p[2] = 13 THEN StackOf["usr"] ELSE 0
  BY <1>3, <1>5, BootedFromIs
<1> HIDE DEF d
<1>7. d.cpsr = [c.cpsr EXCEPT !.mode = "sys", !.i = FALSE, !.t = FALSE]
  <2>1. c.cpsr \in Psrs
    BY DEF Cpus
  <2>2. d.cpsr = [[[c.cpsr EXCEPT !.t = FALSE] EXCEPT !.mode = "sys"] EXCEPT !.i = FALSE]
    BY <1>1, <1>2, <1>5, <1>6 DEF p1
  <2> QED  BY <2>1, <2>2 DEF Psrs
<1>8. ASSUME NEW p \in Physical
      PROVE  FileOf(d)[p] = BootValue(c, p)
  <2>1. p = <<p[1], p[2]>> /\ p[2] \in {8, 13, 14}
    BY PhysicalIs
  <2> QED  BY <1>1, <1>2, <1>5, <1>6, <2>1 DEF BootValue
<1>9. FileOf(d) = [p \in Physical |-> BootValue(c, p)]
  <2>1. FileOf(d) = [p \in Physical |-> FileOf(d)[p]]
    BY DEF FileOf
  <2> QED  BY <1>8, <2>1
<1> QED  BY <1>1, <1>2, <1>5, <1>6, <1>7, <1>9 DEF d, m, a, s

(* What the fields stand for is what the refinement says.                   *)
LEMMA FileIs ==
  /\ File = FileOf(cpu) /\ File' = FileOf(cpu')
  /\ Saved = SavedOf(cpu) /\ Saved' = SavedOf(cpu')
<1>1. \A p \in Physical : Field(p[1], p[2]) = RegisterIn(cpu, cpu.cpsr.mode, p[1], p[2])
  <2>1. ASSUME NEW p \in Physical
        PROVE  Field(p[1], p[2]) = RegisterIn(cpu, cpu.cpsr.mode, p[1], p[2])
    <3>1. p[2] \in {8, 13, 14}
      BY PhysicalIs
    <3> QED  BY <3>1 DEF Field, RegisterIn, LiveBank
  <2> QED  BY <2>1
<1>2. \A p \in Physical : Field(p[1], p[2])' = RegisterIn(cpu', cpu'.cpsr.mode, p[1], p[2])
  <2>1. ASSUME NEW p \in Physical
        PROVE  Field(p[1], p[2])' = RegisterIn(cpu', cpu'.cpsr.mode, p[1], p[2])
    <3>1. p[2] \in {8, 13, 14}
      BY PhysicalIs
    <3> QED  BY <3>1 DEF Field, RegisterIn, LiveBank
  <2> QED  BY <2>1
<1>3. File = FileOf(cpu)
  BY <1>1 DEF File, FileOf
<1>4. File' = FileOf(cpu')
  BY <1>2 DEF File, FileOf
<1>5. Saved = SavedOf(cpu) /\ Saved' = SavedOf(cpu')
  BY DEF Saved, SavedOf, SavedIn
<1> QED  BY <1>3, <1>4, <1>5

(* The file's view of the banks.                                            *)
LEMMA BanksAgree ==
  ASSUME NEW m \in Modes, NEW n \in {8, 13, 14}
  PROVE  /\ RegisterFile!Physical(m, n) = <<LiveBank(m, n), n>>
         /\ RegisterFile!Physical("usr", n) = <<"usr", n>> /\ RegisterFile!Physical("sys", n) = <<"usr", n>>
BY DEF RegisterFile!Physical, RegisterFile!Bank, RegisterFile!UserModes, LiveBank, BankOf, UserModes

LEMMA RegistersAgree == RegisterFile!PhysicalRegisters = Physical
<1>1. \A v \in Modes \X {8, 13, 14} : RegisterFile!Physical(v[1], v[2]) \in Physical
  BY BanksAgree, LiveIsPhysical
<1>2. ASSUME NEW p \in Physical
      PROVE  \E v \in Modes \X {8, 13, 14} : RegisterFile!Physical(v[1], v[2]) = p
  <2>1. p = <<p[1], p[2]>> /\ p[1] \in Banks /\ p[2] \in {8, 13, 14} /\ (p[2] = 8 => p[1] \in {"usr", "fiq"})
    BY PhysicalIs
  <2>2. p[1] \in Modes /\ BankOf(p[1]) = p[1]
    BY <2>1, ModeAssumption DEF Banks, BankOf
  <2>3. LiveBank(p[1], p[2]) = p[1]
    BY <2>1, <2>2 DEF LiveBank
  <2>4. RegisterFile!Physical(p[1], p[2]) = p
    BY <2>1, <2>2, <2>3, BanksAgree
  <2>5. <<p[1], p[2]>> \in Modes \X {8, 13, 14} /\ <<p[1], p[2]>>[1] = p[1] /\ <<p[1], p[2]>>[2] = p[2]
    BY <2>1, <2>2
  <2> QED  BY <2>4, <2>5
<1> QED  BY <1>1, <1>2 DEF RegisterFile!PhysicalRegisters

LEMMA CpuStart == CpuInit => CpuTypeOK /\ RegisterFile!FilInit
<1> SUFFICES ASSUME CpuInit PROVE CpuTypeOK /\ RegisterFile!FilInit
  OBVIOUS
<1>1. cpu \in Cpus
  BY ModeAssumption DEF CpuInit, Cpus, Psrs, SavedPsrs
<1>2. ASSUME NEW p \in Physical
      PROVE  RegisterIn(cpu, cpu.cpsr.mode, p[1], p[2]) = 0
  <2>1. p[1] \in Banks /\ p[2] \in {8, 13, 14}
    BY PhysicalIs
  <2> QED  BY <2>1 DEF RegisterIn, CpuInit
<1>3. FileOf(cpu) = [p \in RegisterFile!PhysicalRegisters |-> 0]
  BY <1>2, RegistersAgree DEF FileOf
<1>4. SavedOf(cpu) = [m \in RegisterFile!ExceptionModes |-> RegisterFile!NoPsr]
  <2>1. \A e \in Modes \ UserModes : e \in Banks
    BY BankIs
  <2>2. RegisterFile!ExceptionModes = Modes \ UserModes
    BY DEF RegisterFile!ExceptionModes, RegisterFile!UserModes, UserModes
  <2>3. RegisterFile!NoPsr = NoPsr
    BY DEF RegisterFile!NoPsr, NoPsr
  <2>4. ASSUME NEW e \in Modes \ UserModes
        PROVE  SavedIn(cpu, cpu.cpsr.mode, e) = NoPsr
    BY <2>1 DEF SavedIn, CpuInit
  <2> QED  BY <2>2, <2>3, <2>4 DEF SavedOf
<1>5. RegisterFile!FilInit
  BY <1>3, <1>4, FileIs DEF CpuInit, RegisterFile!FilInit
<1>6. stored \in Int /\ booted \in BOOLEAN
  <2>1. stored = 0 /\ booted = FALSE
    BY DEF CpuInit
  <2>2. stored \in Int
    BY <2>1
  <2>3. booted \in BOOLEAN
    BY <2>1, Zenon
  <2> QED  BY <2>2, <2>3
<1> QED  BY <1>1, <1>5, <1>6 DEF CpuTypeOK

(***************************************************************************)
(* One lemma for each action: the type, and the step of the file.          *)
(***************************************************************************)
LEMMA BootStep == CpuTypeOK /\ FastBoot => CpuTypeOK' /\ RegisterFile!Boot
<1> SUFFICES ASSUME CpuTypeOK, FastBoot PROVE CpuTypeOK' /\ RegisterFile!Boot
  OBVIOUS
<1> DEFINE d == BootedFrom(SetMode(Arm(Stacked(cpu)), "sys"))
<1>1. cpu' = d /\ booted' = TRUE /\ stored' = stored
  BY DEF FastBoot, BootedFrom, Arm, Stacked
<1> HIDE DEF d
<1>2. /\ d \in Cpus /\ d.pc = 64 /\ SavedOf(d) = SavedOf(cpu)
      /\ d.cpsr = [cpu.cpsr EXCEPT !.mode = "sys", !.i = FALSE, !.t = FALSE]
      /\ FileOf(d) = [p \in Physical |-> BootValue(cpu, p)]
  BY BootIs DEF CpuTypeOK, d
<1>3. CpuTypeOK'
  BY <1>1, <1>2 DEF CpuTypeOK
<1>4. RegisterFile!Physical("sys", 8) = <<"usr", 8>> /\ RegisterFile!Physical("sys", 14) = <<"usr", 14>>
  BY BanksAgree, ModeAssumption
<1>5. File' = [p \in RegisterFile!PhysicalRegisters |->
                 CASE p[2] = 13 -> StackOf[p[1]]
                   [] p \in {RegisterFile!Physical("sys", 8), RegisterFile!Physical("sys", 14)} -> 0
                   [] OTHER -> File[p]]
  BY <1>1, <1>2, <1>4, FileIs, RegistersAgree DEF BootValue
<1>6. Saved' = Saved
  BY <1>1, <1>2, FileIs
<1> QED  BY <1>1, <1>2, <1>3, <1>5, <1>6 DEF RegisterFile!Boot

LEMMA WriteStep ==
  ASSUME CpuTypeOK, NEW n \in {8, 13, 14}, NEW x \in Values, WriteReg(n, x)
  PROVE  CpuTypeOK' /\ RegisterFile!Assign(n, x)
<1> DEFINE d == PutRegister(cpu, n, x)
<1>1. cpu' = d /\ booted' = booted /\ stored' = stored
  BY DEF WriteReg, PutRegister
<1> HIDE DEF d
<1>2. x \in Int /\ cpu.cpsr.mode \in Modes
  BY ModeAssumption DEF CpuTypeOK, Cpus, Psrs
<1>3. /\ d \in Cpus /\ d.cpsr = cpu.cpsr /\ d.pc = cpu.pc /\ SavedOf(d) = SavedOf(cpu)
      /\ FileOf(d) = Written(FileOf(cpu), <<LiveBank(cpu.cpsr.mode, n), n>>, x)
  BY <1>2, PutIs DEF CpuTypeOK, d
<1>4. CpuTypeOK'
  BY <1>1, <1>3 DEF CpuTypeOK
<1>5. RegisterFile!Physical(cpu.cpsr.mode, n) = <<LiveBank(cpu.cpsr.mode, n), n>>
  BY <1>2, BanksAgree
<1>6. File' = [File EXCEPT ![RegisterFile!Physical(cpu.cpsr.mode, n)] = x] /\ Saved' = Saved
  BY <1>1, <1>3, <1>5, FileIs DEF Written
<1> QED  BY <1>1, <1>3, <1>4, <1>6 DEF RegisterFile!Assign

LEMMA JumpStep ==
  ASSUME CpuTypeOK, NEW x \in Values, JumpTo(x)
  PROVE  CpuTypeOK' /\ RegisterFile!Go(x)
<1>1. x \in Int
  BY ModeAssumption
<1>2. /\ cpu' \in Cpus /\ cpu'.cpsr = cpu.cpsr /\ cpu'.pc = x /\ cpu'.spsr = cpu.spsr /\ cpu'.bank = cpu.bank
      /\ cpu'.fiq = cpu.fiq /\ cpu'.shared = cpu.shared /\ cpu'.r = cpu.r
  BY <1>1 DEF JumpTo, CpuTypeOK, Cpus
<1>3. File' = File /\ Saved' = Saved
  BY <1>2, SameFields, FileIs
<1>4. CpuTypeOK' /\ stored' = stored
  BY <1>2 DEF JumpTo, CpuTypeOK
<1> QED  BY <1>2, <1>3, <1>4 DEF RegisterFile!Go

LEMMA LoadUserStep ==
  ASSUME CpuTypeOK, NEW n \in {8, 13, 14}, NEW x \in Values, LoadUser(n, x)
  PROVE  CpuTypeOK' /\ RegisterFile!AssignUser(n, x)
<1> DEFINE d == WriteUserReg(cpu, n, x)
<1>1. cpu' = d /\ booted' = booted /\ stored' = stored /\ cpu.cpsr.mode \notin UserModes
  BY DEF LoadUser
<1>2. x \in Int /\ "usr" \in Modes
  BY ModeAssumption
<1>3. /\ d \in Cpus /\ d.cpsr = cpu.cpsr /\ d.pc = cpu.pc /\ SavedOf(d) = SavedOf(cpu)
      /\ FileOf(d) = Written(FileOf(cpu), <<"usr", n>>, x)
  BY <1>1, <1>2, UserBank DEF CpuTypeOK
<1> HIDE DEF d
<1>4. CpuTypeOK'
  BY <1>1, <1>3 DEF CpuTypeOK
<1>5. RegisterFile!Physical("usr", n) = <<"usr", n>>
  BY <1>2, BanksAgree
<1>6. File' = [File EXCEPT ![RegisterFile!Physical("usr", n)] = x] /\ Saved' = Saved
  BY <1>1, <1>3, <1>5, FileIs DEF Written
<1>7. cpu.cpsr.mode \notin RegisterFile!UserModes
  BY <1>1 DEF UserModes, RegisterFile!UserModes
<1> QED  BY <1>1, <1>3, <1>4, <1>6, <1>7 DEF RegisterFile!AssignUser

LEMMA StoreUserStep ==
  ASSUME CpuTypeOK, NEW n \in {8, 13, 14}, StoreUser(n)
  PROVE  CpuTypeOK' /\ RegisterFile!StoreUser(n)
<1>1. /\ cpu' = cpu /\ booted' = booted /\ cpu.cpsr.mode \notin UserModes
      /\ stored' = ReadUserReg(cpu, n)
  BY DEF StoreUser
<1>2. cpu \in Cpus /\ 0 \in Int /\ "usr" \in Modes
  BY ModeAssumption DEF CpuTypeOK
<1>3. ReadUserReg(cpu, n) = FileOf(cpu)[<<"usr", n>>]
  BY <1>1, <1>2, UserBank
<1>4. ReadUserReg(cpu, n) \in Int
  BY <1>2, BankIs DEF ReadUserReg, Cpus
<1>5. CpuTypeOK'
  BY <1>1, <1>2, <1>4 DEF CpuTypeOK
<1>6. RegisterFile!Physical("usr", n) = <<"usr", n>>
  BY <1>2, BanksAgree
<1>7. stored' = File[RegisterFile!Physical("usr", n)] /\ File' = File /\ Saved' = Saved
  BY <1>1, <1>3, <1>6, FileIs
<1>8. cpu.cpsr.mode \notin RegisterFile!UserModes
  BY <1>1 DEF UserModes, RegisterFile!UserModes
<1> QED  BY <1>1, <1>5, <1>7, <1>8 DEF RegisterFile!StoreUser

LEMMA PsrStep ==
  ASSUME CpuTypeOK, NEW p \in Statuses, NEW control \in BOOLEAN, NEW flags \in BOOLEAN,
         MsrCpsr(p, control, flags)
  PROVE  CpuTypeOK' /\ RegisterFile!ChangePsr
<1> DEFINE old == cpu.cpsr
           q == Masked(old, p, control /\ old.mode # "usr", flags)
           d == SetCpsr(cpu, q)
<1>1. cpu' = d /\ booted' = booted /\ stored' = stored
  BY DEF MsrCpsr
<1>2. p \in Psrs /\ old \in Psrs
  BY ModeAssumption DEF CpuTypeOK, Cpus, Psrs
<1>3. q \in Psrs /\ (old.mode = "usr" => q = [old EXCEPT !.f = q.f])
  BY <1>2 DEF Masked, Psrs
<1> HIDE DEF q
<1>4. /\ d \in Cpus /\ d.cpsr = q /\ d.pc = cpu.pc /\ FileOf(d) = FileOf(cpu) /\ SavedOf(d) = SavedOf(cpu)
  BY <1>3, SetCpsrKeeps DEF CpuTypeOK
<1> HIDE DEF d
<1>5. CpuTypeOK'
  BY <1>1, <1>4 DEF CpuTypeOK
<1>6. File' = File /\ Saved' = Saved
  BY <1>1, <1>4, FileIs
<1>7. RegisterFile!Psrs = Psrs
  BY DEF RegisterFile!Psrs, Psrs
<1> QED  BY <1>1, <1>3, <1>4, <1>5, <1>6, <1>7 DEF RegisterFile!ChangePsr

LEMMA SavedStep ==
  ASSUME CpuTypeOK, NEW p \in Statuses, MsrSpsr(p)
  PROVE  CpuTypeOK' /\ RegisterFile!ChangeSaved
<1> DEFINE mode == cpu.cpsr.mode
           d == SetSpsrForMode(cpu, mode, p)
<1>1. booted' = booted /\ stored' = stored /\ mode \notin UserModes
  BY DEF MsrSpsr
<1>2. cpu \in Cpus /\ mode \in Modes \ UserModes /\ p \in Psrs
  BY <1>1, ModeAssumption DEF CpuTypeOK, Cpus, Psrs
<1>3. cpu' = d
  BY <1>1 DEF MsrSpsr, SetSpsrForMode
<1>4. /\ d \in Cpus /\ d.cpsr = cpu.cpsr /\ d.pc = cpu.pc /\ FileOf(d) = FileOf(cpu)
      /\ SavedOf(d) = [SavedOf(cpu) EXCEPT ![mode] = p]
  BY <1>2, PutSaved DEF SavedPsrs
<1> HIDE DEF d
<1>5. CpuTypeOK'
  BY <1>1, <1>3, <1>4 DEF CpuTypeOK
<1>6. File' = File /\ Saved' = [Saved EXCEPT ![mode] = p]
  BY <1>3, <1>4, FileIs
<1>7. mode \in RegisterFile!ExceptionModes /\ p \in RegisterFile!Psrs
  BY <1>2 DEF RegisterFile!ExceptionModes, RegisterFile!UserModes, UserModes, RegisterFile!Psrs, Psrs
<1> QED  BY <1>1, <1>3, <1>4, <1>5, <1>6, <1>7 DEF RegisterFile!ChangeSaved

(* An exception saves the status it interrupts and links in its own mode.   *)
Interrupted(p, m) == [p EXCEPT !.mode = m, !.i = TRUE, !.t = FALSE]
LEMMA EntryIs ==
  ASSUME NEW c \in Cpus, NEW m \in Modes \ UserModes, NEW link \in Int, NEW vector \in Int
  PROVE  LET d == Entered(SetMode(c, m), link, vector)
         IN  /\ d \in Cpus /\ d.cpsr = Interrupted(c.cpsr, m) /\ d.pc = vector
             /\ SavedOf(d) = SavedOf(c)
             /\ FileOf(d) = Written(FileOf(c), RegisterFile!Physical(m, 14), link)
<1> DEFINE p == [c.cpsr EXCEPT !.mode = m]
           in == SetMode(c, m)
           d == Entered(in, link, vector)
<1>1. c.cpsr \in Psrs
  BY DEF Cpus
<1>2. p \in Psrs /\ p.mode = m
  BY <1>1 DEF Psrs
<1>3. in = SetCpsr(c, p)
  BY DEF SetMode
<1> HIDE DEF p, in
<1>4. in \in Cpus /\ in.cpsr = p /\ FileOf(in) = FileOf(c) /\ SavedOf(in) = SavedOf(c)
  BY <1>2, <1>3, SetCpsrKeeps
<1>5. /\ d \in Cpus /\ d.cpsr = [in.cpsr EXCEPT !.t = FALSE, !.i = TRUE] /\ d.pc = vector
      /\ SavedOf(d) = SavedOf(in)
      /\ FileOf(d) = [FileOf(in) EXCEPT ![<<LiveBank(in.cpsr.mode, 14), 14>>] = link]
  BY <1>4, EnteredIs
<1> HIDE DEF d
<1>6. d.cpsr = Interrupted(c.cpsr, m)
  BY <1>1, <1>4, <1>5 DEF p, Psrs, Interrupted
<1>7. RegisterFile!Physical(m, 14) = <<LiveBank(m, 14), 14>>
  BY BanksAgree
<1>8. FileOf(d) = Written(FileOf(c), RegisterFile!Physical(m, 14), link)
  BY <1>2, <1>4, <1>5, <1>7 DEF Written
<1> QED  BY <1>4, <1>5, <1>6, <1>8 DEF d, in

LEMMA SwiStep ==
  ASSUME CpuTypeOK, Swi
  PROVE  CpuTypeOK' /\ \E size \in {2, 4} : RegisterFile!Enter("svc", cpu.pc + size, 8)
<1> DEFINE saved == Saving(cpu, "svc", cpu.cpsr)
           size == IF cpu.cpsr.t THEN 2 ELSE 4
           link == cpu.pc + size
           d == Entered(SetMode(saved, "svc"), link, 8)
<1>1. cpu' = d /\ booted' = booted /\ stored' = stored
  BY DEF Swi, Saving, Entered
<1>2. cpu \in Cpus /\ cpu.cpsr \in Psrs /\ cpu.pc \in Int /\ "svc" \in Modes \ UserModes
  BY ModeAssumption DEF CpuTypeOK, Cpus, UserModes
<1>3. size \in {2, 4} /\ link \in Int /\ 8 \in Int
  BY <1>2
<1>4. /\ saved \in Cpus /\ saved.cpsr = cpu.cpsr /\ FileOf(saved) = FileOf(cpu)
      /\ SavedOf(saved) = IF cpu.cpsr.mode = "svc" THEN SavedOf(cpu)
                          ELSE [SavedOf(cpu) EXCEPT !["svc"] = cpu.cpsr]
  BY <1>2, SavingKeeps
<1> HIDE DEF saved, size, link
<1>5. /\ d \in Cpus /\ d.cpsr = Interrupted(saved.cpsr, "svc") /\ d.pc = 8
      /\ SavedOf(d) = SavedOf(saved)
      /\ FileOf(d) = Written(FileOf(saved), RegisterFile!Physical("svc", 14), link)
  <2>1. \A m \in Modes \ UserModes : \A k \in Int : \A vector \in Int :
          LET e == Entered(SetMode(saved, m), k, vector)
          IN  /\ e \in Cpus /\ e.cpsr = Interrupted(saved.cpsr, m) /\ e.pc = vector
              /\ SavedOf(e) = SavedOf(saved)
              /\ FileOf(e) = Written(FileOf(saved), RegisterFile!Physical(m, 14), k)
    BY <1>4, EntryIs
  <2> QED  BY <1>2, <1>3, <2>1
<1> HIDE DEF d
<1>6. CpuTypeOK'
  BY <1>1, <1>5 DEF CpuTypeOK
<1>7. /\ File' = [File EXCEPT ![RegisterFile!Physical("svc", 14)] = link]
      /\ Saved' = IF cpu.cpsr.mode = "svc" THEN Saved ELSE [Saved EXCEPT !["svc"] = cpu.cpsr]
      /\ cpu'.cpsr = [cpu.cpsr EXCEPT !.mode = "svc", !.i = TRUE, !.t = FALSE] /\ cpu'.pc = 8
  BY <1>1, <1>4, <1>5, FileIs DEF Written, Interrupted
<1>8. RegisterFile!Enter("svc", link, 8)
  BY <1>1, <1>7 DEF RegisterFile!Enter
<1> QED  BY <1>3, <1>6, <1>8 DEF link

LEMMA IrqStep ==
  ASSUME CpuTypeOK, Irq
  PROVE  CpuTypeOK' /\ RegisterFile!Enter("irq", cpu.pc + 4, 24)
<1> DEFINE saved == SetSpsrForMode(cpu, "irq", cpu.cpsr)
           link == cpu.pc + 4
           d == Entered(SetMode(saved, "irq"), link, 24)
<1>1. cpu' = d /\ booted' = booted /\ stored' = stored
  BY DEF Irq, Entered
<1>2. cpu \in Cpus /\ cpu.cpsr \in Psrs /\ cpu.pc \in Int /\ "irq" \in Modes \ UserModes
  BY ModeAssumption DEF CpuTypeOK, Cpus, UserModes
<1>3. link \in Int /\ 24 \in Int
  BY <1>2
<1>4. /\ saved \in Cpus /\ saved.cpsr = cpu.cpsr /\ FileOf(saved) = FileOf(cpu)
      /\ SavedOf(saved) = [SavedOf(cpu) EXCEPT !["irq"] = cpu.cpsr]
  BY <1>2, PutSaved DEF SavedPsrs
<1> HIDE DEF saved, link
<1>5. /\ d \in Cpus /\ d.cpsr = Interrupted(saved.cpsr, "irq") /\ d.pc = 24
      /\ SavedOf(d) = SavedOf(saved)
      /\ FileOf(d) = Written(FileOf(saved), RegisterFile!Physical("irq", 14), link)
  <2>1. \A m \in Modes \ UserModes : \A k \in Int : \A vector \in Int :
          LET e == Entered(SetMode(saved, m), k, vector)
          IN  /\ e \in Cpus /\ e.cpsr = Interrupted(saved.cpsr, m) /\ e.pc = vector
              /\ SavedOf(e) = SavedOf(saved)
              /\ FileOf(e) = Written(FileOf(saved), RegisterFile!Physical(m, 14), k)
    BY <1>4, EntryIs
  <2> QED  BY <1>2, <1>3, <2>1
<1> HIDE DEF d
<1>6. CpuTypeOK'
  BY <1>1, <1>5 DEF CpuTypeOK
<1>7. /\ File' = [File EXCEPT ![RegisterFile!Physical("irq", 14)] = link]
      /\ Saved' = [Saved EXCEPT !["irq"] = cpu.cpsr]
      /\ cpu'.cpsr = [cpu.cpsr EXCEPT !.mode = "irq", !.i = TRUE, !.t = FALSE] /\ cpu'.pc = 24
  BY <1>1, <1>4, <1>5, FileIs DEF Written, Interrupted
<1> QED  BY <1>1, <1>6, <1>7 DEF RegisterFile!Enter, link

(* Leaving an exception: the saved status is the file's, and PC goes where  *)
(* the new state wants it.                                                  *)
LEMMA AlignedIs ==
  ASSUME NEW x \in Int, NEW t
  PROVE  AlignPc(x, t) \in Int /\ AlignPc(x, t) = RegisterFile!AlignedPc(x, t)
BY DEF AlignPc, RegisterFile!AlignedPc

Gone(c, x) == [c EXCEPT !.pc = x]
LEMMA GoneIs ==
  ASSUME NEW c \in Cpus, NEW x \in Int
  PROVE  LET d == Gone(c, x)
         IN  /\ d \in Cpus /\ d.cpsr = c.cpsr /\ d.pc = x /\ FileOf(d) = FileOf(c) /\ SavedOf(d) = SavedOf(c)
<1> DEFINE d == Gone(c, x)
<1>1. /\ d \in Cpus /\ d.cpsr = c.cpsr /\ d.pc = x /\ d.spsr = c.spsr /\ d.bank = c.bank
      /\ d.fiq = c.fiq /\ d.shared = c.shared /\ d.r = c.r
  BY DEF Gone, Cpus
<1> HIDE DEF d
<1>2. FileOf(d) = FileOf(c) /\ SavedOf(d) = SavedOf(c)
  BY <1>1, SameFields
<1> QED  BY <1>1, <1>2 DEF d

LEMMA ReturnStep ==
  ASSUME CpuTypeOK, NEW offset \in {0, 4}, Return(offset)
  PROVE  CpuTypeOK' /\ RegisterFile!Leave(offset)
<1> DEFINE mode == cpu.cpsr.mode
           p == cpu.spsr
           out == SetCpsr(cpu, p)
           x == AlignPc(cpu.r[14] - offset, out.cpsr.t)
           d == Gone(out, x)
<1>1. /\ cpu' = d /\ booted' = booted /\ stored' = stored
      /\ mode \notin UserModes /\ p # NoPsr
  BY DEF Return, Gone
<1>2. cpu \in Cpus /\ p \in Psrs /\ mode \in Modes \ UserModes /\ cpu.r[14] \in Int
  BY <1>1 DEF CpuTypeOK, Cpus, SavedPsrs, Psrs
<1>3. out \in Cpus /\ out.cpsr = p /\ FileOf(out) = FileOf(cpu) /\ SavedOf(out) = SavedOf(cpu)
  BY <1>2, SetCpsrKeeps
<1> HIDE DEF out
<1>4. cpu.r[14] - offset \in Int
  BY <1>2
<1>5. x \in Int /\ x = RegisterFile!AlignedPc(cpu.r[14] - offset, p.t)
  BY <1>3, <1>4, AlignedIs
<1> HIDE DEF x
<1>6. /\ d \in Cpus /\ d.cpsr = p /\ d.pc = x /\ FileOf(d) = FileOf(cpu) /\ SavedOf(d) = SavedOf(cpu)
  BY <1>3, <1>5, GoneIs
<1> HIDE DEF d
<1>7. CpuTypeOK'
  BY <1>1, <1>6 DEF CpuTypeOK
<1>8. /\ SavedOf(cpu)[mode] = p
      /\ FileOf(cpu)[RegisterFile!Physical(mode, 14)] = cpu.r[14]
  <2>1. RegisterFile!Physical(mode, 14) = <<LiveBank(mode, 14), 14>> /\ <<LiveBank(mode, 14), 14>> \in Physical
    BY <1>2, BanksAgree, LiveIsPhysical
  <2> QED  BY <1>2, <2>1 DEF SavedOf, SavedIn, FileOf, RegisterIn
<1>9. mode \in RegisterFile!ExceptionModes
  BY <1>2 DEF RegisterFile!ExceptionModes, RegisterFile!UserModes, UserModes
<1>10. cpu'.cpsr = Saved[mode] /\ File' = File /\ Saved' = Saved
       /\ cpu'.pc = RegisterFile!AlignedPc(File[RegisterFile!Physical(mode, 14)] - offset, cpu'.cpsr.t)
  BY <1>1, <1>5, <1>6, <1>8, FileIs
<1> QED  BY <1>1, <1>7, <1>9, <1>10 DEF RegisterFile!Leave

LEMMA LoadReturnStep ==
  ASSUME CpuTypeOK, NEW x \in Values, LoadReturn(x)
  PROVE  CpuTypeOK' /\ RegisterFile!LeaveByLoad(x)
<1> DEFINE mode == cpu.cpsr.mode
           p == cpu.spsr
           out == SetCpsr(cpu, p)
           y == AlignPc(x, out.cpsr.t)
           mid == Gone(out, y)
           sp == out.r[13] + 4
           d == PutRegister(mid, 13, sp)
<1>1. /\ booted' = booted /\ stored' = stored /\ mode \notin UserModes /\ p # NoPsr
      /\ cpu' = [out EXCEPT !.pc = y, !.r[13] = out.r[13] + 4]
  BY DEF LoadReturn
<1>2. cpu \in Cpus /\ p \in Psrs /\ mode \in Modes \ UserModes /\ x \in Int
  BY <1>1, ModeAssumption DEF CpuTypeOK, Cpus, SavedPsrs, Psrs
<1>3. out \in Cpus /\ out.cpsr = p /\ FileOf(out) = FileOf(cpu) /\ SavedOf(out) = SavedOf(cpu)
  BY <1>2, SetCpsrKeeps
<1> HIDE DEF out
<1>4. y \in Int /\ y = RegisterFile!AlignedPc(x, p.t)
  BY <1>2, <1>3, AlignedIs
<1>5. sp \in Int
  BY <1>3 DEF Cpus
<1>6. cpu' = d
  BY <1>1, <1>3 DEF PutRegister, Gone, Cpus
<1> HIDE DEF y
<1>7. /\ mid \in Cpus /\ mid.cpsr = p /\ mid.pc = y /\ FileOf(mid) = FileOf(cpu) /\ SavedOf(mid) = SavedOf(cpu)
  BY <1>3, <1>4, GoneIs
<1> HIDE DEF mid, sp
<1>8. /\ d \in Cpus /\ d.cpsr = p /\ d.pc = y /\ SavedOf(d) = SavedOf(cpu)
      /\ FileOf(d) = Written(FileOf(cpu), <<LiveBank(p.mode, 13), 13>>, sp)
  <2>1. 13 \in {8, 13, 14}
    OBVIOUS
  <2>2. /\ d \in Cpus /\ d.cpsr = mid.cpsr /\ d.pc = mid.pc /\ SavedOf(d) = SavedOf(mid)
        /\ FileOf(d) = Written(FileOf(mid), <<LiveBank(mid.cpsr.mode, 13), 13>>, sp)
    BY <1>5, <1>7, <2>1, PutIs
  <2> HIDE DEF d
  <2> QED  BY <1>7, <2>2
<1> HIDE DEF d
<1>9. CpuTypeOK'
  BY <1>1, <1>6, <1>8 DEF CpuTypeOK
<1>10. p.mode \in Modes
  BY <1>2 DEF Psrs
<1>11. RegisterFile!Physical(p.mode, 13) = <<LiveBank(p.mode, 13), 13>> /\ <<LiveBank(p.mode, 13), 13>> \in Physical
  BY <1>10, BanksAgree, LiveIsPhysical
<1>12. FileOf(out)[RegisterFile!Physical(p.mode, 13)] = out.r[13]
  BY <1>3, <1>11 DEF FileOf, RegisterIn
<1>13. SavedOf(cpu)[mode] = p
  BY <1>2 DEF SavedOf, SavedIn
<1>14. mode \in RegisterFile!ExceptionModes
  BY <1>2 DEF RegisterFile!ExceptionModes, RegisterFile!UserModes, UserModes
<1>15. /\ cpu'.cpsr = Saved[mode] /\ Saved' = Saved /\ cpu'.pc = RegisterFile!AlignedPc(x, cpu'.cpsr.t)
       /\ cpu'.cpsr.mode = p.mode
  BY <1>4, <1>6, <1>8, <1>13, FileIs
<1>16. File' = [File EXCEPT ![RegisterFile!Physical(p.mode, 13)] = File[RegisterFile!Physical(p.mode, 13)] + 4]
  BY <1>3, <1>6, <1>8, <1>11, <1>12, FileIs DEF Written, sp
<1> QED  BY <1>1, <1>9, <1>14, <1>15, <1>16 DEF RegisterFile!LeaveByLoad

LEMMA CpuStep ==
  ASSUME CpuTypeOK, [CpuNext]_cpuVars
  PROVE  CpuTypeOK' /\ [RegisterFile!FilNext]_<<File, cpu.cpsr, Saved, cpu.pc, stored>>
<1>1. CASE FastBoot
  BY <1>1, BootStep DEF RegisterFile!FilNext
<1>2. ASSUME NEW n \in {8, 13, 14}, NEW x \in Values, WriteReg(n, x)
      PROVE  CpuTypeOK' /\ RegisterFile!FilNext
  BY <1>2, WriteStep DEF RegisterFile!FilNext
<1>3. ASSUME NEW n \in {8, 13, 14}, NEW x \in Values, LoadUser(n, x)
      PROVE  CpuTypeOK' /\ RegisterFile!FilNext
  BY <1>3, LoadUserStep DEF RegisterFile!FilNext
<1>4. ASSUME NEW n \in {8, 13, 14}, StoreUser(n)
      PROVE  CpuTypeOK' /\ RegisterFile!FilNext
  BY <1>4, StoreUserStep DEF RegisterFile!FilNext
<1>5. ASSUME NEW p \in Statuses, NEW control \in BOOLEAN, NEW flags \in BOOLEAN, MsrCpsr(p, control, flags)
      PROVE  CpuTypeOK' /\ RegisterFile!FilNext
  BY <1>5, PsrStep DEF RegisterFile!FilNext
<1>6. ASSUME NEW p \in Statuses, MsrSpsr(p)
      PROVE  CpuTypeOK' /\ RegisterFile!FilNext
  BY <1>6, SavedStep DEF RegisterFile!FilNext
<1>7. CASE Swi
  BY <1>7, SwiStep DEF RegisterFile!FilNext
<1>8. CASE Irq
  BY <1>8, IrqStep DEF RegisterFile!FilNext
<1>9. ASSUME NEW offset \in {0, 4}, Return(offset)
      PROVE  CpuTypeOK' /\ RegisterFile!FilNext
  BY <1>9, ReturnStep DEF RegisterFile!FilNext
<1>10. ASSUME NEW x \in Values, LoadReturn(x)
      PROVE  CpuTypeOK' /\ RegisterFile!FilNext
  BY <1>10, LoadReturnStep DEF RegisterFile!FilNext
<1>11. ASSUME NEW x \in Values, JumpTo(x)
      PROVE  CpuTypeOK' /\ RegisterFile!FilNext
  BY <1>11, JumpStep DEF RegisterFile!FilNext
<1>12. CASE UNCHANGED cpuVars
  <2>1. cpu' = cpu /\ stored' = stored /\ booted' = booted
    BY <1>12 DEF cpuVars
  <2>2. File' = File /\ Saved' = Saved
    BY <2>1, FileIs
  <2>3. CpuTypeOK'
    BY <2>1 DEF CpuTypeOK
  <2> QED  BY <2>1, <2>2, <2>3
<1> QED  BY <1>1, <1>2, <1>3, <1>4, <1>5, <1>6, <1>7, <1>8, <1>9, <1>10, <1>11, <1>12 DEF CpuNext

(* Every copy of a register and of a status has its type, whatever modes    *)
(* programs, interrupts and the boot move the CPU through.                  *)
THEOREM CpuTypes == CpuSpec => []CpuTypeOK
<1>1. CpuInit => CpuTypeOK
  BY CpuStart
<1>2. CpuTypeOK /\ [CpuNext]_cpuVars => CpuTypeOK'
  BY CpuStep
<1> QED  BY <1>1, <1>2, PTL DEF CpuSpec

(* The copying between regs_ and the fields of a bank implements the        *)
(* register banks a program sees, for any set of modes, statuses and values.*)
THEOREM CpuRegisters == CpuSpec => ImplementsRegisterFile
<1>1. CpuInit => RegisterFile!FilInit
  BY CpuStart
<1>2. CpuTypeOK /\ [CpuNext]_cpuVars => [RegisterFile!FilNext]_<<File, cpu.cpsr, Saved, cpu.pc, stored>>
  BY CpuStep
<1>3. CpuTypeOK /\ [CpuNext]_cpuVars => [RegisterFile!FilNext]_(RegisterFile!filVars)
  BY <1>2 DEF RegisterFile!filVars
<1> QED  BY <1>1, <1>3, CpuTypes, PTL DEF CpuSpec, ImplementsRegisterFile, RegisterFile!FilSpec

(***************************************************************************)
(* The cartridge's clock: hours, minutes and seconds in mixed radix.       *)
(***************************************************************************)
LEMMA BelowNext ==
  ASSUME NEW q \in Nat \ {0}, NEW n \in Nat \ {0}, NEW a \in 0..(n - 1), NEW r \in 0..(q - 1)
  PROVE  q * a + r \in 0..(q * n - 1)
<1>1. q * a >= 0
  OBVIOUS
<1>2. q * (n - 1 - a) >= 0
  OBVIOUS
<1>3. q * (n - 1 - a) = q * n - q - q * a
  OBVIOUS
<1> QED  BY <1>1, <1>2, <1>3

LEMMA Positive ==
  ASSUME NEW p \in Nat \ {0}, NEW q \in Nat \ {0}
  PROVE  p * q \in Nat \ {0}
<1>1. p * (q - 1) >= 0
  OBVIOUS
<1>2. p * (q - 1) = p * q - p
  OBVIOUS
<1> QED  BY <1>1, <1>2

Timed(M, H, D, s, m, h, d) == M * (H * (D * d + h) + m) + s
Shown(t, M, H, D, s, m, h, d) ==
  /\ t \in Int /\ t % M = s /\ (t \div M) % H = m /\ (t \div (M * H)) % D = h
  /\ t \div (M * H * D) = d
LEMMA MixedRadix ==
  ASSUME NEW M \in Nat \ {0}, NEW H \in Nat \ {0}, NEW D \in Nat \ {0},
         NEW s \in 0..(M - 1), NEW m \in 0..(H - 1), NEW h \in 0..(D - 1), NEW d \in Int
  PROVE  Shown(Timed(M, H, D, s, m, h, d), M, H, D, s, m, h, d)
<1> DEFINE t == Timed(M, H, D, s, m, h, d)
           hours == D * d + h
           minutes == H * hours + m
           r2 == M * m + s
           r3 == (M * H) * h + r2
<1>1. D * d \in Int
  OBVIOUS
<1>2. hours \in Int /\ hours % D = h
  BY <1>1, DivMod
<1>3. t = M * minutes + s
  BY DEF Timed
<1> HIDE DEF t
<1> HIDE DEF hours
<1>4. H * hours \in Int
  BY <1>2
<1>5. minutes \in Int /\ minutes % H = m
  BY <1>2, <1>4, DivMod
<1> HIDE DEF minutes
<1>6. M * minutes \in Int
  BY <1>5
<1>7. t \in Int /\ t % M = s /\ t \div M = minutes
  BY <1>3, <1>5, <1>6, DivMod
<1>8. M * H \in Nat \ {0} /\ M * H * D \in Nat \ {0}
  BY Positive
<1>9. r2 \in 0..(M * H - 1)
  BY BelowNext
<1>10. t = (M * H) * hours + r2
  <2>1. M * (H * hours) = (M * H) * hours
    BY <1>2
  <2>2. M * (H * hours + m) = M * (H * hours) + M * m
    BY <1>4
  <2>3. M * minutes = (M * H) * hours + M * m
    BY <2>1, <2>2 DEF minutes
  <2>4. (M * H) * hours \in Int /\ M * m \in Int
    BY <1>2
  <2> QED  BY <1>3, <2>3, <2>4
<1>11. t \div (M * H) = hours
  <2> DEFINE q == M * H
  <2>1. q \in Nat \ {0} /\ r2 \in 0..(q - 1) /\ t = q * hours + r2
    BY <1>8, <1>9, <1>10
  <2> HIDE DEF q, r2
  <2>2. t \div q = hours
    BY <1>2, <2>1, DivMod
  <2> QED  BY <2>2 DEF q
<1>12. r3 \in 0..((M * H) * D - 1) /\ t = ((M * H) * D) * d + r3
  <2> DEFINE q == M * H
  <2>1. q \in Nat \ {0} /\ r2 \in 0..(q - 1) /\ t = q * hours + r2
    BY <1>8, <1>9, <1>10
  <2> HIDE DEF q, r2
  <2>2. q * h + r2 \in 0..(q * D - 1)
    BY <2>1, BelowNext
  <2>3. q * (D * d) = (q * D) * d
    BY <2>1
  <2>4. q * (D * d + h) = q * (D * d) + q * h
    BY <1>1, <2>1
  <2>5. t = (q * D) * d + (q * h + r2)
    BY <2>1, <2>3, <2>4 DEF hours
  <2> QED  BY <2>2, <2>5 DEF q
<1>13. t \div (M * H * D) = d
  <2> DEFINE q == M * H * D
  <2>1. q \in Nat \ {0} /\ r3 \in 0..(q - 1) /\ t = q * d + r3
    BY <1>8, <1>12
  <2> HIDE DEF q, r3
  <2>2. t \div q = d
    BY <2>1, DivMod
  <2> QED  BY <2>2 DEF q
<1> QED  BY <1>2, <1>5, <1>7, <1>11, <1>13 DEF t, Shown

LEMMA Radices ==
  /\ PerMinute \in Nat \ {0} /\ PerHour \in Nat \ {0} /\ PerDay \in Nat \ {0}
  /\ PerMinute * PerHour \in Nat \ {0} /\ PerMinute * PerHour * PerDay \in Nat \ {0}
  /\ Days \in Nat \ {0} /\ Days \div 2 \in Nat \ {0}
<1>1. /\ PerMinute \in Nat \ {0} /\ PerHour \in Nat \ {0} /\ PerDay \in Nat \ {0}
      /\ Days \in Nat \ {0} /\ Days \div 2 \in Nat \ {0}
  BY CartAssumption
<1>2. PerMinute * PerHour \in Nat \ {0}
  BY <1>1, Positive
<1>3. PerMinute * PerHour * PerDay \in Nat \ {0}
  BY <1>1, <1>2, Positive
<1> QED  BY <1>1, <1>2, <1>3

(* The times a clock can show, and the numbers its registers can hold.      *)
Times == {g \in [1..5 -> Nat] :
            /\ g[1] < PerMinute /\ g[2] < PerHour /\ g[3] < PerDay /\ g[4] < Days \div 2}

LEMMA RegistersAre ==
  ASSUME NEW total \in Int
  PROVE  Registers(total) \in Times
<1> DEFINE t == IF total < 0 THEN 0 ELSE total
           days == t \div (PerMinute * PerHour * PerDay)
           r1 == t % PerMinute
           r2 == (t \div PerMinute) % PerHour
           r3 == (t \div (PerMinute * PerHour)) % PerDay
           r4 == days % (Days \div 2)
           r5 == (days % Days) \div (Days \div 2) + (IF days >= Days THEN 128 ELSE 0)
<1>1. t \in Int
  OBVIOUS
<1> HIDE DEF t
<1>2. r1 \in 0..(PerMinute - 1)
  BY <1>1, Radices, DivIs
<1>3. t \div PerMinute \in Int
  BY <1>1, Radices, DivIs
<1>4. r2 \in 0..(PerHour - 1)
  BY <1>3, Radices, DivIs
<1>5. t \div (PerMinute * PerHour) \in Int
  BY <1>1, Radices, DivIs
<1>6. r3 \in 0..(PerDay - 1)
  BY <1>5, Radices, DivIs
<1>7. days \in Int
  BY <1>1, Radices, DivIs
<1> HIDE DEF days
<1>8. r4 \in 0..(Days \div 2 - 1)
  BY <1>7, Radices, DivIs
<1>9. r5 \in Nat
  <2>1. days % Days \in 0..(Days - 1)
    BY <1>7, Radices, DivIs
  <2> DEFINE e == days % Days
             half == Days \div 2
  <2>2. e \in Nat /\ half \in Nat \ {0}
    BY <2>1, Radices
  <2> HIDE DEF e, half
  <2>3. e \div half \in Int /\ e % half \in 0..(half - 1) /\ e = half * (e \div half) + (e % half)
    BY <2>2, DivIs
  <2>4. e \div half >= 0
    <3> DEFINE z == e \div half
    <3>1. z \in Int /\ half * z > -half
      BY <2>2, <2>3
    <3> HIDE DEF z
    <3>2. ASSUME z <= -1 PROVE FALSE
      <4>1. half * (-1 - z) >= 0
        BY <2>2, <3>1, <3>2
      <4>2. half * (-1 - z) = -half - half * z
        BY <2>2, <3>1
      <4> QED  BY <2>2, <3>1, <4>1, <4>2
    <3>3. z \in Int
      BY <3>1
    <3>4. z >= 0
      BY <3>2, <3>3
    <3> QED  BY <3>4 DEF z
  <2>5. e \div half \in Nat
    BY <2>3, <2>4
  <2> QED  BY <2>5 DEF e, half
<1> HIDE DEF r1, r2, r3, r4, r5
<1>10. /\ r1 \in Nat /\ r2 \in Nat /\ r3 \in Nat /\ r4 \in Nat /\ r5 \in Nat
       /\ r1 < PerMinute /\ r2 < PerHour /\ r3 < PerDay /\ r4 < Days \div 2
  BY <1>2, <1>4, <1>6, <1>8, <1>9, Radices
<1>11. Registers(total) = <<r1, r2, r3, r4, r5>>
  BY DEF Registers, r1, r2, r3, r4, r5, days, t
<1> QED  BY <1>10, <1>11 DEF Times

(* The seconds of a time are a sum of its registers' units.                 *)
Summed(M, H, D, s, m, h, d) ==
  Timed(M, H, D, s, m, h, d) = (M * H * D) * d + (M * H) * h + M * m + s
LEMMA TimedSum ==
  ASSUME NEW M \in Int, NEW H \in Int, NEW D \in Int,
         NEW s \in Int, NEW m \in Int, NEW h \in Int, NEW d \in Int
  PROVE  Summed(M, H, D, s, m, h, d)
<1> DEFINE hours == D * d + h
           minutes == H * hours + m
<1>1. D * d \in Int /\ M * H \in Int /\ hours \in Int
  OBVIOUS
<1>2. Timed(M, H, D, s, m, h, d) = M * minutes + s
  BY DEF Timed
<1>3. (M * H) * hours = (M * H) * (D * d) + (M * H) * h
  <2> DEFINE q == M * H
             y == D * d
  <2>1. q \in Int /\ y \in Int
    BY <1>1
  <2> HIDE DEF q, y
  <2>2. q * (y + h) = q * y + q * h
    BY <2>1
  <2> QED  BY <2>2 DEF q, y
<1>4. (M * H) * (D * d) = (M * H * D) * d
  <2> DEFINE q == M * H
  <2>1. q \in Int
    BY <1>1
  <2> HIDE DEF q
  <2>2. q * (D * d) = (q * D) * d
    BY <2>1
  <2> QED  BY <2>2 DEF q
<1> HIDE DEF hours
<1>5. M * minutes = M * (H * hours) + M * m
  <2> DEFINE y == H * hours
  <2>1. y \in Int
    BY <1>1
  <2> HIDE DEF y
  <2>2. M * (y + m) = M * y + M * m
    BY <2>1
  <2> QED  BY <2>2 DEF y
<1>6. M * (H * hours) = (M * H) * hours
  BY <1>1
<1> HIDE DEF minutes
<1> QED  BY <1>2, <1>3, <1>4, <1>5, <1>6 DEF Summed

LEMMA TimedBelow ==
  ASSUME NEW M \in Nat \ {0}, NEW H \in Nat \ {0}, NEW D \in Nat \ {0}, NEW n \in Nat \ {0},
         NEW s \in 0..(M - 1), NEW m \in 0..(H - 1), NEW h \in 0..(D - 1), NEW d \in 0..(n - 1)
  PROVE  Timed(M, H, D, s, m, h, d) \in 0..(M * (H * (D * n)) - 1)
<1>1. D * d + h \in 0..(D * n - 1) /\ D * n \in Nat \ {0}
  BY BelowNext, Positive
<1> DEFINE a == D * d + h
           x == D * n
<1> HIDE DEF a, x
<1>2. H * a + m \in 0..(H * x - 1) /\ H * x \in Nat \ {0}
  BY <1>1, BelowNext, Positive DEF a, x
<1> DEFINE b == H * a + m
           y == H * x
<1> HIDE DEF b, y
<1>3. M * b + s \in 0..(M * y - 1)
  BY <1>2, BelowNext DEF b, y
<1> QED  BY <1>3 DEF Timed, a, b, x, y

(* A register counts with its low bits.                                     *)
LEMMA CountedIs ==
  ASSUME NEW x \in Nat
  PROVE  /\ LowBits(1, x) = x % 64 /\ LowBits(2, x) = x % 64 /\ LowBits(3, x) = x % 32
         /\ LowBits(4, x) = x % (Days \div 2) /\ LowBits(5, x) = x % 2
         /\ LowBits(4, x) \in 0..(Days \div 2 - 1) /\ LowBits(5, x) \in {0, 1}
         /\ \A k \in 1..5 : LowBits(k, x) \in Nat
<1>1. /\ LowBits(1, x) = x % 64 /\ LowBits(2, x) = x % 64 /\ LowBits(3, x) = x % 32
      /\ LowBits(4, x) = x % (Days \div 2) /\ LowBits(5, x) = x % 2
  BY DEF LowBits
<1>2. x % 64 \in Nat /\ x % 32 \in Nat /\ x % 2 \in {0, 1}
  OBVIOUS
<1>3. x % (Days \div 2) \in 0..(Days \div 2 - 1)
  BY Radices, DivIs
<1>4. x % (Days \div 2) \in Nat
  BY <1>3, Radices
<1> QED  BY <1>1, <1>2, <1>3, <1>4

(* The number a clock's registers hold.                                     *)
LEMMA SecondsTimed ==
  ASSUME NEW g \in [1..5 -> Nat]
  PROVE  LET c(n) == LowBits(n, g[n])
             d == c(4) + (Days \div 2) * c(5)
         IN  /\ Seconds(g) = Timed(PerMinute, PerHour, PerDay, c(1), c(2), c(3), d)
             /\ c(1) \in Nat /\ c(2) \in Nat /\ c(3) \in Nat /\ d \in Nat
             /\ Seconds(g) \in Nat
<1> DEFINE c(n) == LowBits(n, g[n])
           d == c(4) + (Days \div 2) * c(5)
<1>1. Seconds(g) = Timed(PerMinute, PerHour, PerDay, c(1), c(2), c(3), d)
  BY DEF Seconds, Timed
<1>2. \A n \in 1..5 : c(n) \in Nat
  BY CountedIs
<1> HIDE DEF c
<1>3. d \in Nat
  BY <1>2, Radices
<1> HIDE DEF d
<1> DEFINE hours == PerDay * d + c(3)
           minutes == PerHour * hours + c(2)
<1>4. hours \in Nat
  BY <1>2, <1>3, Radices
<1> HIDE DEF hours
<1>5. minutes \in Nat
  BY <1>2, <1>4, Radices
<1> HIDE DEF minutes
<1>6. PerMinute * minutes + c(1) \in Nat
  BY <1>2, <1>5, Radices
<1>7. Seconds(g) \in Nat
  BY <1>1, <1>6 DEF Timed, hours, minutes
<1> QED  BY <1>1, <1>2, <1>3, <1>7 DEF c, d

(* One register more or less moves the time by its units.                   *)
LEMMA SecondsMoved ==
  ASSUME NEW v \in [1..5 -> Nat], NEW g \in [1..5 -> Nat], NEW k \in 1..5,
         \A n \in (1..5) \ {k} : g[n] = v[n]
  PROVE  Seconds(g) = Seconds(v) + Unit[k] * (LowBits(k, g[k]) - LowBits(k, v[k]))
<1> DEFINE U2 == PerMinute
           U3 == PerMinute * PerHour
           U4 == PerMinute * PerHour * PerDay
           half == Days \div 2
           a(n) == LowBits(n, g[n])
           b(n) == LowBits(n, v[n])
           Sum(c1, c2, c3, c4, c5) == U4 * c4 + (U4 * half) * c5 + U3 * c3 + U2 * c2 + c1
<1>1. U2 \in Int /\ U3 \in Int /\ U4 \in Int /\ half \in Int
      /\ PerMinute \in Int /\ PerHour \in Int /\ PerDay \in Int
  BY Radices
<1>2. \A n \in 1..5 : a(n) \in Int /\ b(n) \in Int
  <2>1. \A n \in 1..5 : a(n) \in Nat /\ b(n) \in Nat
    BY CountedIs
  <2> QED  BY <2>1
<1>3. \A n \in (1..5) \ {k} : a(n) = b(n)
  OBVIOUS
<1>4. Unit[1] = 1 /\ Unit[2] = U2 /\ Unit[3] = U3 /\ Unit[4] = U4 /\ Unit[5] = U4 * half
  BY DEF Unit
<1>5. Seconds(g) = Timed(PerMinute, PerHour, PerDay, a(1), a(2), a(3), a(4) + half * a(5))
  BY SecondsTimed
<1>6. Seconds(v) = Timed(PerMinute, PerHour, PerDay, b(1), b(2), b(3), b(4) + half * b(5))
  BY SecondsTimed
<1> HIDE DEF U2, U3, U4, half, a, b
<1> DEFINE Splits(c1, c2, c3, c4, c5) ==
             Timed(PerMinute, PerHour, PerDay, c1, c2, c3, c4 + half * c5) = Sum(c1, c2, c3, c4, c5)
<1>7. ASSUME NEW c1 \in Int, NEW c2 \in Int, NEW c3 \in Int, NEW c4 \in Int, NEW c5 \in Int
      PROVE  Splits(c1, c2, c3, c4, c5)
  <2> DEFINE y == half * c5
             d == c4 + y
  <2>1. y \in Int /\ d \in Int
    BY <1>1
  <2>2. U4 * d = U4 * c4 + (U4 * half) * c5
    <3>1. U4 * y = (U4 * half) * c5
      BY <1>1
    <3> HIDE DEF y
    <3>2. U4 * (c4 + y) = U4 * c4 + U4 * y
      BY <1>1, <2>1
    <3> QED  BY <3>1, <3>2
  <2> HIDE DEF d
  <2>3. Timed(PerMinute, PerHour, PerDay, c1, c2, c3, d) =
          (PerMinute * PerHour * PerDay) * d + (PerMinute * PerHour) * c3 + PerMinute * c2 + c1
    <3>1. /\ PerMinute \in Int /\ PerHour \in Int /\ PerDay \in Int /\ d \in Int
          /\ c1 \in Int /\ c2 \in Int /\ c3 \in Int
      BY <1>1, <1>7, <2>1
    <3>2. Summed(PerMinute, PerHour, PerDay, c1, c2, c3, d)
      BY ONLY <3>1, TimedSum
    <3> QED  BY <3>2 DEF Summed
  <2>4. Timed(PerMinute, PerHour, PerDay, c1, c2, c3, d) = U4 * d + U3 * c3 + U2 * c2 + c1
    BY <2>3 DEF U2, U3, U4
  <2> QED  BY <2>2, <2>4 DEF d
<1> HIDE DEF Sum, Splits
<1>8. Seconds(g) = Sum(a(1), a(2), a(3), a(4), a(5)) /\ Seconds(v) = Sum(b(1), b(2), b(3), b(4), b(5))
  <2>1. /\ a(1) \in Int /\ a(2) \in Int /\ a(3) \in Int /\ a(4) \in Int /\ a(5) \in Int
        /\ b(1) \in Int /\ b(2) \in Int /\ b(3) \in Int /\ b(4) \in Int /\ b(5) \in Int
    BY <1>2
  <2>2. Splits(a(1), a(2), a(3), a(4), a(5))
    BY ONLY <1>7, <2>1
  <2>3. Splits(b(1), b(2), b(3), b(4), b(5))
    BY ONLY <1>7, <2>1
  <2> QED  BY <1>5, <1>6, <2>2, <2>3 DEF Splits
<1> DEFINE U5 == U4 * half
<1>9. U5 \in Int
  BY <1>1
<1>10. /\ Seconds(g) = U4 * a(4) + U5 * a(5) + U3 * a(3) + U2 * a(2) + a(1)
       /\ Seconds(v) = U4 * b(4) + U5 * b(5) + U3 * b(3) + U2 * b(2) + b(1)
  BY <1>8 DEF Sum
<1> HIDE DEF U5
<1>11. ASSUME NEW u \in Int, NEW x \in Int, NEW y \in Int PROVE u * (x - y) = u * x - u * y
  BY <1>11
<1>12. ASSUME NEW u \in Int, NEW x \in Int PROVE u * x \in Int
  BY <1>12
<1>13. Seconds(g) = Seconds(v) + Unit[k] * (a(k) - b(k))
  <2>0. \A n \in 1..5 : \A u \in {U2, U3, U4, U5} : u * a(n) \in Int /\ u * b(n) \in Int
    BY <1>1, <1>2, <1>9, <1>12
  <2>1. CASE k = 1
    BY <1>2, <1>3, <1>4, <1>10, <2>0, <2>1
  <2>2. CASE k = 2
    <3>1. U2 * (a(2) - b(2)) = U2 * a(2) - U2 * b(2)
      BY <1>1, <1>2, <1>11
    <3> QED  BY <1>2, <1>3, <1>4, <1>10, <2>0, <2>2, <3>1
  <2>3. CASE k = 3
    <3>1. U3 * (a(3) - b(3)) = U3 * a(3) - U3 * b(3)
      BY <1>1, <1>2, <1>11
    <3> QED  BY <1>2, <1>3, <1>4, <1>10, <2>0, <2>3, <3>1
  <2>4. CASE k = 4
    <3>1. U4 * (a(4) - b(4)) = U4 * a(4) - U4 * b(4)
      BY <1>1, <1>2, <1>11
    <3> QED  BY <1>2, <1>3, <1>4, <1>10, <2>0, <2>4, <3>1
  <2>5. CASE k = 5
    <3>1. U5 * (a(5) - b(5)) = U5 * a(5) - U5 * b(5)
      BY <1>1, <1>2, <1>9, <1>11
    <3>2. Unit[5] = U5
      BY <1>4 DEF U5
    <3> QED  BY <1>2, <1>3, <1>10, <2>0, <2>5, <3>1, <3>2
  <2> QED  BY <2>1, <2>2, <2>3, <2>4, <2>5
<1> QED  BY <1>13 DEF a, b

(* What is set is what the clock then shows, but for the carry.             *)
LEMMA SecondsAre ==
  ASSUME NEW g \in [1..5 -> Nat],
         g[1] % 64 < PerMinute, g[2] % 64 < PerHour, g[3] % 32 < PerDay
  PROVE  LET u == Registers(Seconds(g))
         IN  /\ Seconds(g) \in Nat
             /\ u[1] = g[1] % 64 /\ u[2] = g[2] % 64 /\ u[3] = g[3] % 32 /\ u[4] = g[4] % (Days \div 2)
<1> DEFINE half == Days \div 2
           s == g[1] % 64
           m == g[2] % 64
           h == g[3] % 32
           b == g[5] % 2
           r == g[4] % half
           d == r + half * b
           t == Timed(PerMinute, PerHour, PerDay, s, m, h, d)
<1>1. Seconds(g) = t /\ Seconds(g) \in Nat
  BY SecondsTimed, CountedIs
<1>2. /\ s \in 0..(PerMinute - 1) /\ m \in 0..(PerHour - 1) /\ h \in 0..(PerDay - 1) /\ b \in {0, 1}
  BY Radices
<1>3. half \in Nat \ {0} /\ r \in 0..(half - 1)
  <2>1. g[4] \in Int
    OBVIOUS
  <2> QED  BY <2>1, Radices, DivIs
<1> HIDE DEF s, m, h, b, half, r
<1>4. d \in Int /\ d % half = r
  <2>1. half * b \in Int
    BY <1>2, <1>3
  <2>2. (half * b + r) % half = r
    <3>1. b \in Int
      BY <1>2
    <3> QED  BY <1>3, <3>1, DivMod
  <2>3. d = half * b + r
    BY <1>3, <2>1
  <2> HIDE DEF d
  <2> QED  BY <1>3, <2>1, <2>2, <2>3
<1> HIDE DEF d
<1>5. Shown(t, PerMinute, PerHour, PerDay, s, m, h, d)
  <2>1. PerMinute \in Nat \ {0} /\ PerHour \in Nat \ {0} /\ PerDay \in Nat \ {0}
    BY Radices
  <2> QED  BY <1>2, <1>4, <2>1, MixedRadix
<1> HIDE DEF t
<1>6. t \in Nat
  BY <1>1
<1>7. Registers(t)[1] = s /\ Registers(t)[2] = m /\ Registers(t)[3] = h /\ Registers(t)[4] = d % half
  BY <1>5, <1>6 DEF Registers, Shown, half
<1> QED  BY <1>1, <1>4, <1>7 DEF s, m, h, r, half

LEMMA SmallMod ==
  ASSUME NEW q \in Nat \ {0}, NEW r \in 0..(q - 1)
  PROVE  r % q = r
<1> DEFINE a == 0
<1>1. a \in Int /\ q * a + r = r
  OBVIOUS
<1> HIDE DEF a
<1>2. (q * a + r) % q = r
  BY <1>1, DivMod
<1> QED  BY ONLY <1>1, <1>2

(* A clock that is not latched shows its time but for the carry.            *)
LEMMA ShownTime ==
  ASSUME NEW t \in Nat
  PROVE  Seconds(Registers(t)) = t % Calendar
<1> DEFINE M == PerMinute
           H == PerHour
           D == PerDay
           half == Days \div 2
           q1 == t \div M
           s == t % M
           q2 == q1 \div H
           m == q1 % H
           q3 == q2 \div D
           h == q2 % D
           z == q3 \div Days
           e == q3 % Days
           T(d) == Timed(M, H, D, s, m, h, d)
<1>1. M \in Nat \ {0} /\ H \in Nat \ {0} /\ D \in Nat \ {0} /\ Days \in Nat \ {0} /\ half \in Nat \ {0}
      /\ M <= 64 /\ H <= 64 /\ D <= 32 /\ Days = 2 * half
  BY Radices, CartAssumption
<1> HIDE DEF half
<1>2. q1 \in Int /\ s \in 0..(M - 1) /\ t = M * q1 + s
  BY <1>1, DivIs
<1> HIDE DEF q1, s
<1>3. q2 \in Int /\ m \in 0..(H - 1) /\ q1 = H * q2 + m
  BY <1>1, <1>2, DivIs
<1> HIDE DEF q2, m
<1>4. q3 \in Int /\ h \in 0..(D - 1) /\ q2 = D * q3 + h
  BY <1>1, <1>3, DivIs
<1> HIDE DEF q3, h
<1>5. z \in Int /\ e \in 0..(Days - 1) /\ q3 = Days * z + e
  BY <1>1, <1>4, DivIs
<1>6. t = T(q3)
  BY <1>2, <1>3, <1>4 DEF Timed
<1> HIDE DEF z, T
<1>7. Shown(t, M, H, D, s, m, h, q3)
  <2>1. Shown(Timed(M, H, D, s, m, h, q3), M, H, D, s, m, h, q3)
    BY <1>1, <1>2, <1>3, <1>4, MixedRadix
  <2> QED  BY <1>6, <2>1 DEF T
<1> DEFINE r == q3 % half
           f == e \div half
           r5 == f + (IF q3 >= Days THEN 128 ELSE 0)
           u == <<s, m, h, r, r5>>
<1>8. Registers(t) = u
  BY <1>7 DEF Registers, Shown, half
<1> HIDE DEF e
<1>9. f \in {0, 1} /\ r \in 0..(half - 1) /\ e = r + half * f
  <2>1. f \in Int /\ e % half \in 0..(half - 1) /\ e = half * f + (e % half)
    BY <1>1, <1>5, DivIs
  <2> DEFINE x == e % half
  <2>2. x \in 0..(half - 1) /\ e = half * f + x
    BY <2>1
  <2> HIDE DEF x, f
  <2>3. f \in {0, 1}
    <3>1. ASSUME f >= 2 PROVE FALSE
      <4>1. half * (f - 2) >= 0 /\ half * (f - 2) = half * f - half * 2
        BY <1>1, <2>1, <3>1
      <4> QED  BY <1>1, <1>5, <2>1, <2>2, <4>1
    <3>2. ASSUME f <= -1 PROVE FALSE
      <4>1. half * (-1 - f) >= 0 /\ half * (-1 - f) = -half - half * f
        BY <1>1, <2>1, <3>2
      <4> QED  BY <1>1, <1>5, <2>1, <2>2, <4>1
    <3> QED  BY <2>1, <3>1, <3>2
  <2>4. r = x
    <3> DEFINE a == 2 * z + f
    <3>1. a \in Int
      BY <1>5, <2>1
    <3>2. half * a = Days * z + half * f
      <4>1. half * a = half * (2 * z) + half * f /\ half * (2 * z) = (2 * half) * z
        BY <1>1, <1>5, <2>1
      <4> QED  BY <1>1, <4>1
    <3> HIDE DEF a
    <3>3. half * a \in Int /\ Days * z \in Int /\ half * f \in Int
      BY <1>1, <1>5, <2>1, <3>1
    <3>4. q3 = half * a + x
      BY <1>5, <2>2, <3>2, <3>3
    <3>5. (half * a + x) % half = x
      BY <1>1, <2>2, <3>1, DivMod
    <3> QED  BY <3>4, <3>5
  <2> QED  BY <1>1, <2>2, <2>3, <2>4
<1> HIDE DEF r, f
<1>10. u \in [1..5 -> Nat]
  <2>1. s \in Nat /\ m \in Nat /\ h \in Nat /\ r \in Nat /\ r5 \in Nat
    BY <1>1, <1>2, <1>3, <1>4, <1>9
  <2> HIDE DEF r5
  <2> QED  BY <2>1
<1>11. /\ LowBits(1, u[1]) = s /\ LowBits(2, u[2]) = m /\ LowBits(3, u[3]) = h
       /\ LowBits(4, u[4]) = r /\ LowBits(5, u[5]) = f
  <2>1. u[1] = s /\ u[2] = m /\ u[3] = h /\ u[4] = r /\ u[5] = r5
    OBVIOUS
  <2>2. s % 64 = s /\ m % 64 = m /\ h % 32 = h /\ r5 % 2 = f
    BY <1>1, <1>2, <1>3, <1>4, <1>9
  <2>3. r % half = r
    BY <1>1, <1>9, SmallMod
  <2> HIDE DEF u, r5
  <2> QED  BY <2>1, <2>2, <2>3 DEF LowBits, half
<1> HIDE DEF u
<1>12. Seconds(u) = T(e)
  <2>1. Seconds(u) = Timed(M, H, D, s, m, h, r + half * f)
    BY <1>11 DEF Seconds, Timed, half
  <2> QED  BY <1>9, <2>1 DEF T
<1>13. T(e) \in 0..(Calendar - 1)
  <2>1. Timed(M, H, D, s, m, h, e) \in 0..(M * (H * (D * Days)) - 1)
    BY <1>1, <1>2, <1>3, <1>4, <1>5, TimedBelow
  <2>2. M * (H * (D * Days)) = Calendar
    <3> DEFINE y == D * Days
               w == M * H
    <3>1. y \in Int /\ w \in Int
      BY <1>1
    <3>2. w * y = (w * D) * Days
      <4> HIDE DEF w
      <4> QED  BY <1>1, <3>1
    <3> HIDE DEF y
    <3>3. M * (H * y) = (M * H) * y
      BY <1>1, <3>1
    <3> QED  BY <3>2, <3>3 DEF Calendar, w, y
  <2> QED  BY <2>1, <2>2 DEF T
<1>14. T(q3) = Calendar * z + T(e) /\ Calendar \in Nat \ {0}
  <2> DEFINE P == M * H * D
             rest == (M * H) * h + M * m + s
  <2>1. P \in Nat \ {0} /\ (M * H) * h \in Int /\ M * m \in Int
    <3>1. M * H \in Int
      BY <1>1
    <3>2. (M * H) * h \in Int
      <4> DEFINE y == M * H
      <4> HIDE DEF y
      <4>1. y \in Int => y * h \in Int
        BY <1>4
      <4> QED  BY <3>1, <4>1 DEF y
    <3>3. M * m \in Int
      BY <1>1, <1>3
    <3> QED  BY <3>2, <3>3, Radices
  <2>2. Summed(M, H, D, s, m, h, q3) /\ Summed(M, H, D, s, m, h, e)
    <3>1. /\ M \in Int /\ H \in Int /\ D \in Int /\ s \in Int /\ m \in Int /\ h \in Int
          /\ q3 \in Int /\ e \in Int
      BY <1>1, <1>2, <1>3, <1>4, <1>5
    <3> QED  BY ONLY <3>1, TimedSum
  <2>3. T(q3) = P * q3 + (M * H) * h + M * m + s /\ T(e) = P * e + (M * H) * h + M * m + s
    BY <2>2 DEF Summed, T
  <2>4. Calendar = P * Days
    BY DEF Calendar
  <2> HIDE DEF P
  <2>5. P * q3 = (P * Days) * z + P * e
    <3> DEFINE y == Days * z
    <3>1. y \in Int /\ P * y = (P * Days) * z
      BY <1>1, <1>5, <2>1
    <3> HIDE DEF y
    <3>2. P * (y + e) = P * y + P * e
      BY <1>5, <2>1, <3>1
    <3> QED  BY <1>5, <3>1, <3>2 DEF y
  <2>6. P * e \in Int /\ (P * Days) * z \in Int /\ P * Days \in Nat \ {0}
    <3>1. P * Days \in Nat \ {0}
      BY <1>1, <2>1, Positive
    <3> DEFINE y == P * Days
    <3> HIDE DEF y
    <3>2. y \in Nat \ {0} => y * z \in Int
      BY <1>5
    <3>3. P * e \in Int
      BY <1>5, <2>1
    <3> QED  BY <3>1, <3>2, <3>3 DEF y
  <2> DEFINE a == (P * Days) * z
             b == P * e
             c == (M * H) * h
             w == M * m
  <2>7. /\ a \in Int /\ b \in Int /\ c \in Int /\ w \in Int /\ s \in Int
        /\ T(q3) = (a + b) + c + w + s /\ T(e) = b + c + w + s
    BY <1>1, <1>2, <2>1, <2>3, <2>5, <2>6
  <2>8. Calendar * z = a
    BY <2>4
  <2> HIDE DEF a, b, c, w
  <2>9. T(q3) = a + T(e)
    BY ONLY <2>7
  <2> QED  BY <2>4, <2>6, <2>8, <2>9
<1>15. (Calendar * z + T(e)) % Calendar = T(e)
  BY <1>5, <1>13, <1>14, DivMod
<1> QED  BY <1>6, <1>8, <1>12, <1>14, <1>15

(* What a clock shows has no halt bit.                                      *)
LEMMA NoHaltBit ==
  ASSUME NEW t \in Nat
  PROVE  (Registers(t)[5] \div 64) % 2 = 0
<1> DEFINE days == t \div (PerMinute * PerHour * PerDay)
           half == Days \div 2
           e == days % Days
           f == e \div half
           r5 == f + (IF days >= Days THEN 128 ELSE 0)
<1>1. Days \in Nat \ {0} /\ half \in Nat \ {0} /\ Days = 2 * half
  BY Radices, CartAssumption
<1>2. days \in Int
  BY Radices, DivIs
<1> HIDE DEF days, half
<1>3. e \in 0..(Days - 1)
  BY <1>1, <1>2, DivIs
<1> HIDE DEF e
<1>4. f \in Int /\ e % half \in 0..(half - 1) /\ e = half * f + (e % half)
  BY <1>1, <1>3, DivIs
<1> DEFINE x == e % half
<1> HIDE DEF f
<1>5. f \in Int /\ x \in 0..(half - 1) /\ e = half * f + x
  BY <1>4
<1> HIDE DEF x
<1>6. f \in {0, 1}
  <2>1. ASSUME f >= 2 PROVE FALSE
    <3>1. half * (f - 2) >= 0 /\ half * (f - 2) = half * f - half * 2
      BY <1>1, <1>5, <2>1
    <3> QED  BY <1>1, <1>3, <1>5, <3>1
  <2>2. ASSUME f <= -1 PROVE FALSE
    <3>1. half * (-1 - f) >= 0 /\ half * (-1 - f) = -half - half * f
      BY <1>1, <1>5, <2>2
    <3> QED  BY <1>1, <1>3, <1>5, <3>1
  <2> QED  BY <1>5, <2>1, <2>2
<1>7. (r5 \div 64) % 2 = 0
  BY <1>6
<1>8. Registers(t)[5] = r5
  BY DEF Registers, days, half, e, f
<1> QED  BY <1>7, <1>8

(* Setting one register of a clock to a number it shows leaves the others   *)
(* of its time.                                                             *)
LEMMA SetKeepsOthers ==
  ASSUME NEW v \in Times, NEW k \in 1..5, NEW g \in [1..5 -> Nat],
         Fits(k, g[k]), \A n \in (1..5) \ {k} : g[n] = v[n]
  PROVE  \A n \in (1..4) \ {k} : Registers(Seconds(g))[n] = v[n]
<1>1. /\ v \in [1..5 -> Nat] /\ v[1] < PerMinute /\ v[2] < PerHour /\ v[3] < PerDay /\ v[4] < Days \div 2
  BY DEF Times
<1>4. PerMinute \in 2..64 /\ PerHour \in 2..64 /\ PerDay \in 2..32
  BY CartAssumption
<1>2. /\ k = 1 => g[1] % 64 < PerMinute
      /\ k = 2 => g[2] % 64 < PerHour
      /\ k = 3 => g[3] % 32 < PerDay
  BY DEF Fits, LowBits
<1>3. /\ g[1] \in Nat /\ g[2] \in Nat /\ g[3] \in Nat
      /\ v[1] \in Nat /\ v[2] \in Nat /\ v[3] \in Nat
      /\ (k # 1 => g[1] = v[1]) /\ (k # 2 => g[2] = v[2]) /\ (k # 3 => g[3] = v[3])
  BY <1>1
<1>5. /\ g[1] % 64 < PerMinute /\ (k # 1 => g[1] % 64 = v[1])
      /\ g[2] % 64 < PerHour /\ (k # 2 => g[2] % 64 = v[2])
      /\ g[3] % 32 < PerDay /\ (k # 3 => g[3] % 32 = v[3])
  <2>1. ASSUME NEW x \in Nat, x < 64 PROVE x % 64 = x
    BY <2>1
  <2>2. ASSUME NEW x \in Nat, x < 32 PROVE x % 32 = x
    BY <2>2
  <2>3. v[1] < 64 /\ v[2] < 64 /\ v[3] < 32
    BY <1>1, <1>3, <1>4
  <2>4. v[1] % 64 = v[1] /\ v[2] % 64 = v[2] /\ v[3] % 32 = v[3]
    BY <1>3, <2>1, <2>2, <2>3
  <2> QED  BY <1>1, <1>2, <1>3, <2>4
<1>6. k # 4 => g[4] % (Days \div 2) = v[4]
  <2>1. SUFFICES ASSUME k # 4 PROVE g[4] % (Days \div 2) = v[4]
    OBVIOUS
  <2> DEFINE half == Days \div 2
  <2>2. half \in Nat \ {0} /\ v[4] \in Nat /\ v[4] < half
    BY <1>1, Radices
  <2>3. g[4] = v[4]
    BY <1>1, <2>1
  <2> HIDE DEF half
  <2>4. v[4] \in 0..(half - 1)
    BY <2>2
  <2>5. v[4] % half = v[4]
    BY <2>2, <2>4, SmallMod
  <2> QED  BY <2>3, <2>5 DEF half
<1>7. /\ Registers(Seconds(g))[1] = g[1] % 64 /\ Registers(Seconds(g))[2] = g[2] % 64
      /\ Registers(Seconds(g))[3] = g[3] % 32 /\ Registers(Seconds(g))[4] = g[4] % (Days \div 2)
  BY <1>5, SecondsAre
<1> QED  BY <1>5, <1>6, <1>7

(***************************************************************************)
(* The cartridge's types, and that no clock is ahead of the host's.        *)
(***************************************************************************)
Carts == [mbc : {"mbc1", "mbc2", "mbc3", "mbc5"}, roms : Nat \ {0, 1}, rams : Nat,
          on : BOOLEAN, low : Nat, high : Nat, mode : Nat, bank : Nat]
Clocks == [offset : Nat, base : Nat, halt : BOOLEAN, latched : BOOLEAN, latch : [1..5 -> Nat], phase : Nat]
SavedClocks ==
  [none : {FALSE}, offset : Nat, base : Nat, halt : BOOLEAN, latched : BOOLEAN, latch : [1..4 -> Nat]]
Rams(c) == [0..(c.rams - 1) -> Nat]
SavedFiles(c) == [sav : [none : {FALSE}, ram : Rams(c)], rtc : SavedClocks]
NoFiles == [sav |-> NoFile, rtc |-> NoFile]
DiskOK(c, d, t) == d = NoFiles \/ (d \in SavedFiles(c) /\ d.rtc.base <= t)
CartTypeOK ==
  /\ cart \in Carts /\ eram \in Rams(cart) /\ rtc \in Clocks /\ now \in Nat /\ cartSteps \in Nat
  /\ rtc.base <= now
  /\ DiskOK(cart, disk, now)

LEMMA NoFileIs == NoFiles.sav = NoFile /\ NoFiles.sav.none = TRUE
BY DEF NoFiles, NoFile

LEMMA FilesAre ==
  ASSUME NEW c, NEW d \in SavedFiles(c)
  PROVE  d.sav # NoFile /\ d.sav.none = FALSE /\ d # NoFiles
<1>1. d.sav.none = FALSE
  BY DEF SavedFiles
<1> QED  BY <1>1, NoFileIs

LEMMA FreshIs ==
  ASSUME NEW k, k.mbc \in {"mbc1", "mbc2", "mbc3", "mbc5"}, k.roms \in Nat \ {0, 1}, k.rams \in Nat
  PROVE  /\ Fresh(k) \in Carts /\ Fresh(k).rams = k.rams /\ Fresh(k).mbc = k.mbc
         /\ FreshRam(k) \in Rams(k)
BY DEF Fresh, FreshRam, Carts, Rams

LEMMA FreshClockIs == now \in Nat => FreshClock \in Clocks /\ FreshClock.base = now
<1>1. <<0, 0, 0, 0, 0>> \in [1..5 -> Nat]
  OBVIOUS
<1> QED  BY <1>1 DEF FreshClock, Clocks

LEMMA ClockTypes ==
  ASSUME CartTypeOK
  PROVE  /\ Elapsed(rtc) \in Nat /\ View(rtc) \in [1..5 -> Nat] /\ (~rtc.latched => View(rtc) \in Times)
         /\ Registers(Elapsed(rtc)) \in [1..5 -> Nat]
<1>1. rtc \in Clocks /\ now \in Nat /\ rtc.base <= now
  BY DEF CartTypeOK
<1>2. Elapsed(rtc) \in Nat
  BY <1>1 DEF Elapsed, Clocks
<1>3. Registers(Elapsed(rtc)) \in Times
  BY <1>2, RegistersAre
<1>4. Registers(Elapsed(rtc)) \in [1..5 -> Nat]
  BY <1>3 DEF Times
<1>5. rtc.latch \in [1..5 -> Nat]
  BY <1>1 DEF Clocks
<1> QED  BY <1>2, <1>3, <1>4, <1>5 DEF View

LEMMA CartStart == CartInit => CartTypeOK
<1> SUFFICES ASSUME CartInit PROVE CartTypeOK
  OBVIOUS
<1>1. PICK kind \in Kinds : cart = Fresh(kind) /\ eram = FreshRam(kind)
  BY DEF CartInit
<1>2. kind.mbc \in {"mbc1", "mbc2", "mbc3", "mbc5"} /\ kind.roms \in Nat \ {0, 1} /\ kind.rams \in Nat
  BY CartAssumption
<1>3. cart \in Carts /\ eram \in Rams(cart)
  <2>1. /\ Fresh(kind) \in Carts /\ Fresh(kind).rams = kind.rams /\ FreshRam(kind) \in Rams(kind)
    BY <1>2, FreshIs
  <2> QED  BY <1>1, <2>1 DEF Rams
<1>4. now = 0 /\ rtc = FreshClock /\ cartSteps = 0 /\ disk = NoFiles
  BY DEF CartInit, NoFiles
<1>5. now \in Nat /\ cartSteps \in Nat
  BY <1>4
<1>6. rtc \in Clocks /\ rtc.base = now
  BY <1>4, <1>5, FreshClockIs
<1> QED  BY <1>3, <1>4, <1>5, <1>6 DEF CartTypeOK, DiskOK

(* The banks a program sees, from the registers' types alone.               *)
LEMMA BanksInRange == CartTypeOK => BanksMapped
<1> SUFFICES ASSUME CartTypeOK PROVE BanksMapped
  OBVIOUS
<1>1. /\ cart.mbc \in {"mbc1", "mbc2", "mbc3", "mbc5"} /\ cart.roms \in Nat \ {0, 1}
      /\ cart.low \in Nat /\ cart.high \in Nat
  BY DEF CartTypeOK, Carts
<1>2. \A x \in Int : x % cart.roms \in 0..(cart.roms - 1)
  BY <1>1, DivIs
<1>3. RomBank < cart.roms /\ (cart.mbc # "mbc5" => RomBank # 0)
  <2> DEFINE chosen == CASE cart.mbc = "mbc1" -> NotZero(32 * cart.high + cart.low)
                         [] cart.mbc \in {"mbc2", "mbc3"} -> NotZero(cart.low)
                         [] cart.mbc = "mbc5" -> 256 * cart.high + cart.low
             bank == chosen % cart.roms
  <2>1. chosen \in Int
    BY <1>1 DEF NotZero
  <2>2. RomBank = IF cart.mbc = "mbc5" THEN bank ELSE NotZero(bank)
    BY DEF RomBank
  <2> HIDE DEF chosen
  <2>3. bank \in 0..(cart.roms - 1)
    BY <1>2, <2>1
  <2> HIDE DEF bank
  <2> QED  BY <1>1, <2>2, <2>3 DEF NotZero
<1>4. LowerBank < cart.roms
  <2>1. 32 * cart.high \in Int
    BY <1>1
  <2>2. (32 * cart.high) % cart.roms \in 0..(cart.roms - 1)
    BY <1>2, <2>1
  <2> QED  BY <1>1, <2>2 DEF LowerBank
<1> QED  BY <1>3, <1>4 DEF BanksMapped

(* A write to the bank registers moves nothing else.                        *)
LEMMA BankWritten ==
  ASSUME CartTypeOK, CartStep, cart' \in Carts, cart'.rams = cart.rams, UNCHANGED <<eram, rtc, disk, now>>
  PROVE  CartTypeOK' /\ disk' = disk /\ StoresLand /\ ClockGoesOn
<1>1. CartTypeOK'
  <2>1. Rams(cart') = Rams(cart) /\ SavedFiles(cart') = SavedFiles(cart)
    BY DEF Rams, SavedFiles
  <2>2. DiskOK(cart', disk', now')
    BY <2>1 DEF CartTypeOK, DiskOK
  <2>3. cartSteps' \in Nat
    BY DEF CartTypeOK, CartStep
  <2> QED  BY <2>1, <2>2, <2>3 DEF CartTypeOK
<1>2. Elapsed(rtc)' = Elapsed(rtc) /\ View(rtc)' = View(rtc)
  BY DEF Elapsed, View
<1>3. Elapsed(rtc)' - Elapsed(rtc) = (IF rtc.halt THEN 0 ELSE now' - now)
  BY <1>2, ClockTypes DEF CartTypeOK
<1>4. StoresLand
  BY DEF StoresLand
<1> QED  BY <1>1, <1>2, <1>3, <1>4 DEF ClockGoesOn

LEMMA RegisterSteps ==
  ASSUME CartTypeOK, NEW x \in Nat,
         WriteEnable(x) \/ WriteRomBank(x) \/ WriteHigh(x) \/ WriteRamBank(x) \/ WriteMode(x)
  PROVE  CartTypeOK' /\ disk' = disk /\ StoresLand /\ ClockGoesOn
<1> USE DEF Carts
<1>0. cart \in Carts
  BY DEF CartTypeOK
<1>1. CASE WriteEnable(x)
  <2>1. (x % 16 = 10) \in BOOLEAN
    OBVIOUS
  <2>2. cart' \in Carts /\ cart'.rams = cart.rams
    BY <1>0, <1>1, <2>1 DEF WriteEnable
  <2> QED  BY <1>1, <2>2, BankWritten DEF WriteEnable
<1>2. CASE WriteRomBank(x)
  <2> DEFINE y == CASE cart.mbc = "mbc1" -> NotZero(x % 32)
                    [] cart.mbc = "mbc2" -> NotZero(x % 16)
                    [] cart.mbc = "mbc3" -> NotZero(x % 128)
                    [] cart.mbc = "mbc5" -> x
  <2>1. y \in Nat
    BY <1>0 DEF NotZero
  <2>2. cart' = [cart EXCEPT !.low = y]
    BY <1>2 DEF WriteRomBank
  <2> HIDE DEF y
  <2>3. cart' \in Carts /\ cart'.rams = cart.rams
    BY <1>0, <2>1, <2>2
  <2> QED  BY <1>2, <2>3, BankWritten DEF WriteRomBank
<1>3. CASE WriteHigh(x)
  <2>1. cart' \in Carts /\ cart'.rams = cart.rams
    BY <1>0, <1>3 DEF WriteHigh
  <2> QED  BY <1>3, <2>1, BankWritten DEF WriteHigh
<1>4. CASE WriteRamBank(x)
  <2>1. cart' \in Carts /\ cart'.rams = cart.rams
    <3>1. CASE cart.mbc = "mbc1"
      <4> DEFINE y == x % 4
      <4>1. y \in Nat /\ cart' = [cart EXCEPT !.high = y, !.bank = y]
        BY <1>4, <3>1 DEF WriteRamBank
      <4> HIDE DEF y
      <4> QED  BY <1>0, <4>1
    <3>2. CASE cart.mbc = "mbc3"
      BY <1>0, <1>4, <3>2 DEF WriteRamBank
    <3>3. CASE cart.mbc = "mbc5"
      BY <1>0, <1>4, <3>3 DEF WriteRamBank
    <3> QED  BY <1>0, <3>1, <3>2, <3>3, <1>4 DEF WriteRamBank
  <2> QED  BY <1>4, <2>1, BankWritten DEF WriteRamBank
<1>5. CASE WriteMode(x)
  <2>1. cart' \in Carts /\ cart'.rams = cart.rams
    BY <1>0, <1>5 DEF WriteMode
  <2> QED  BY <1>5, <2>1, BankWritten DEF WriteMode
<1> QED  BY <1>1, <1>2, <1>3, <1>4, <1>5

(* The latch takes what the clock shows; the clock goes on.                 *)
LEMMA LatchStep ==
  ASSUME CartTypeOK, NEW x \in Nat, WriteLatch(x)
  PROVE  CartTypeOK' /\ disk' = disk /\ StoresLand /\ ClockGoesOn
<1> DEFINE latch == IF rtc.phase = 0 /\ x = 1 THEN Registers(Elapsed(rtc)) ELSE rtc.latch
           latched == CASE x = 0 -> FALSE
                        [] x = 1 /\ rtc.phase = 0 -> TRUE
                        [] OTHER -> rtc.latched
<1>1. rtc' = [rtc EXCEPT !.latch = latch, !.latched = latched, !.phase = x]
  BY DEF WriteLatch
<1>2. cart' = cart /\ eram' = eram /\ disk' = disk /\ now' = now /\ CartStep
  BY DEF WriteLatch
<1>3. rtc \in Clocks /\ now \in Nat /\ rtc.latched \in BOOLEAN /\ rtc.latch \in [1..5 -> Nat] /\ rtc.phase \in Nat
  BY DEF CartTypeOK, Clocks
<1>4. latch \in [1..5 -> Nat] /\ latched \in BOOLEAN
  <2>1. latch \in [1..5 -> Nat]
    BY <1>3, ClockTypes
  <2>2. latched \in BOOLEAN
    BY <1>3
  <2> QED  BY <2>1, <2>2
<1>5. rtc.phase = x => latch = rtc.latch
  OBVIOUS
<1> HIDE DEF latch, latched
<1>7. /\ rtc' \in Clocks /\ rtc'.offset = rtc.offset /\ rtc'.base = rtc.base /\ rtc'.halt = rtc.halt
      /\ rtc'.latch = latch /\ rtc'.latched = latched /\ rtc'.phase = x
  BY <1>1, <1>3, <1>4 DEF Clocks
<1>8. CartTypeOK'
  BY <1>2, <1>7 DEF CartTypeOK, CartStep, DiskOK
<1>11. Elapsed(rtc)' = Elapsed(rtc)
  BY <1>2, <1>7 DEF Elapsed
<1>12. Elapsed(rtc)' - Elapsed(rtc) = (IF rtc.halt THEN 0 ELSE now' - now)
  BY <1>2, <1>3, <1>11, ClockTypes
<1>13. rtc.latched /\ rtc'.latched /\ rtc'.phase = rtc.phase => View(rtc)' = View(rtc)
  BY <1>5, <1>7 DEF View
<1>14. StoresLand
  BY <1>2 DEF StoresLand
<1> QED  BY <1>2, <1>7, <1>8, <1>12, <1>13, <1>14 DEF ClockGoesOn

(* A store into a register of the clock.                                    *)
LEMMA ClockStep ==
  ASSUME CartTypeOK, NEW x \in Nat, WriteClock(x)
  PROVE  CartTypeOK' /\ disk' = disk /\ StoresLand /\ ClockSet(x)
<1> DEFINE k == cart.bank - 7
           v == View(rtc)
           regs == [v EXCEPT ![k] = x]
           halt == (regs[5] \div 64) % 2 = 1
           offset == Seconds(regs)
           flags == IF k = 5 THEN x ELSE IF rtc.latched THEN v[5] ELSE 0
<1>1. rtc' = [rtc EXCEPT !.halt = halt, !.offset = offset, !.base = now, !.latch = regs]
  BY DEF WriteClock
<1>2. cart' = cart /\ eram' = eram /\ disk' = disk /\ now' = now /\ CartStep /\ k \in 1..5
  BY DEF WriteClock, ClockSelected
<1>3. rtc \in Clocks /\ now \in Nat /\ Elapsed(rtc) \in Nat
  BY ClockTypes DEF CartTypeOK
<1>4. v \in [1..5 -> Nat] /\ (~rtc.latched => v \in Times)
  BY ClockTypes
<1>5. regs \in [1..5 -> Nat] /\ regs[k] = x /\ \A n \in (1..5) \ {k} : regs[n] = v[n]
  BY <1>2, <1>4
<1>6. halt \in BOOLEAN
  OBVIOUS
<1> HIDE DEF regs, v, k
<1>7. offset \in Nat
  BY <1>5, SecondsTimed
<1>8. offset = Seconds(v) + Unit[k] * (LowBits(k, x) - LowBits(k, v[k]))
  BY <1>2, <1>4, <1>5, SecondsMoved
<1>9. halt <=> (flags \div 64) % 2 = 1
  <2>1. CASE k = 5
    BY <1>5, <2>1
  <2>2. CASE k # 5 /\ rtc.latched
    <3>1. regs[5] = v[5]
      BY <1>2, <1>5, <2>2
    <3> QED  BY <2>2, <3>1
  <2>3. CASE k # 5 /\ ~rtc.latched
    <3>1. regs[5] = v[5] /\ v = Registers(Elapsed(rtc))
      BY <1>2, <1>5, <2>3 DEF View, v
    <3>2. (v[5] \div 64) % 2 = 0
      BY <1>3, <3>1, NoHaltBit
    <3> QED  BY <2>3, <3>1, <3>2
  <2> QED  BY <2>1, <2>2, <2>3
<1>10. ~rtc.latched => Seconds(v) = Elapsed(rtc) % Calendar
  BY <1>3, ShownTime DEF View, v
<1> HIDE DEF halt, offset, flags
<1>11. /\ rtc' \in Clocks /\ rtc'.offset = offset /\ rtc'.base = now /\ rtc'.halt = halt
       /\ rtc'.latch = regs /\ rtc'.latched = rtc.latched /\ rtc'.phase = rtc.phase
  BY <1>1, <1>3, <1>5, <1>6, <1>7 DEF Clocks
<1>12. CartTypeOK'
  BY <1>2, <1>3, <1>11 DEF CartTypeOK, CartStep, DiskOK
<1>13. Elapsed(rtc)' = offset
  BY <1>2, <1>3, <1>7, <1>11 DEF Elapsed
<1>14. StoresLand
  BY <1>2 DEF StoresLand
<1>15. ASSUME rtc.latched \/ Fits(k, x), NEW n \in (1..4) \ {k}
       PROVE  View(rtc)'[n] = v[n]
  <2>1. CASE rtc.latched
    <3>1. View(rtc)' = regs
      BY <1>11, <2>1 DEF View
    <3> QED  BY <1>5, <1>15, <3>1
  <2>2. CASE ~rtc.latched
    <3>1. View(rtc)' = Registers(offset)
      BY <1>11, <1>13, <2>2 DEF View, Registers
    <3>2. Fits(k, regs[k]) /\ v \in Times /\ k \in 1..5
      BY <1>2, <1>4, <1>5, <1>15, <2>2
    <3>3. \A j \in (1..4) \ {k} : Registers(Seconds(regs))[j] = v[j]
      BY <1>5, <3>2, SetKeepsOthers
    <3> QED  BY <1>15, <3>1, <3>3 DEF offset
  <2> QED  BY <2>1, <2>2
<1>16. ClockSet(x)
  BY <1>8, <1>9, <1>10, <1>11, <1>13, <1>15 DEF ClockSet, k, v, flags
<1> QED  BY <1>2, <1>12, <1>14, <1>16

(* A store lands in the bank that then reads it back.                       *)
LEMMA RamStep ==
  ASSUME CartTypeOK, NEW x \in Nat, WriteRam(x)
  PROVE  CartTypeOK' /\ disk' = disk /\ StoresLand /\ ClockGoesOn
<1> DEFINE takes == cart.on /\ RamBank \in DOMAIN eram
           y == IF cart.mbc = "mbc2" THEN x % 16 ELSE x
<1>1. cart' = cart /\ rtc' = rtc /\ disk' = disk /\ now' = now /\ CartStep /\ ~ClockSelected
  BY DEF WriteRam
<1>2. eram' = IF takes THEN [eram EXCEPT ![RamBank] = y] ELSE eram
  BY DEF WriteRam
<1>3. eram \in Rams(cart)
  BY DEF CartTypeOK
<1>4. y \in Nat
  OBVIOUS
<1>5. RamBank' = RamBank /\ ClockSelected' = ClockSelected
  BY <1>1 DEF RamBank, ClockSelected
<1>6. cart.mbc = "mbc2" => RamBank = 0 /\ y % 16 = y /\ y \in Nat
  BY DEF RamBank
<1>7. ASSUME NEW b \in DOMAIN eram, eram'[b] # eram[b]
      PROVE  /\ cart.on /\ ~ClockSelected
             /\ (cart.mbc = "mbc2" => ReadRam' = 240 + eram'[b]) /\ (cart.mbc # "mbc2" => ReadRam' = eram'[b])
  <2>1. takes /\ b = RamBank
    BY <1>2, <1>7
  <2>2. eram'[b] = y /\ RamBank \in DOMAIN eram'
    BY <1>2, <2>1
  <2>3. ReadRam' = IF cart.mbc = "mbc2" THEN 240 + (eram'[0] % 16) ELSE eram'[RamBank]
    BY <1>1, <1>5, <2>1, <2>2 DEF ReadRam
  <2> HIDE DEF y
  <2>4. cart.mbc = "mbc2" => eram'[0] = y /\ y % 16 = y
    BY <1>6, <2>1, <2>2
  <2> QED  BY <1>1, <2>1, <2>2, <2>3, <2>4
<1>8. StoresLand
  BY <1>7 DEF StoresLand
<1> HIDE DEF y, takes
<1>9. eram' \in Rams(cart')
  BY <1>1, <1>2, <1>3, <1>4 DEF Rams
<1>10. CartTypeOK'
  <2>1. cartSteps' \in Nat
    BY <1>1 DEF CartTypeOK, CartStep
  <2> QED  BY <1>1, <1>9, <2>1 DEF CartTypeOK, DiskOK
<1>11. Elapsed(rtc)' = Elapsed(rtc) /\ View(rtc)' = View(rtc)
  BY <1>1 DEF Elapsed, View
<1>12. Elapsed(rtc)' - Elapsed(rtc) = (IF rtc.halt THEN 0 ELSE now' - now)
  BY <1>1, <1>11, ClockTypes DEF CartTypeOK
<1> QED  BY <1>1, <1>8, <1>10, <1>11, <1>12 DEF ClockGoesOn

(* Time passes for a clock that runs.                                       *)
LEMMA PassStep ==
  ASSUME CartTypeOK, NEW s \in Nat, Pass(s)
  PROVE  CartTypeOK' /\ disk' = disk /\ StoresLand /\ ClockGoesOn
<1>1. cart' = cart /\ eram' = eram /\ rtc' = rtc /\ disk' = disk /\ now' = now + s /\ CartStep
  BY DEF Pass
<1>2. now \in Nat /\ now' \in Nat /\ rtc \in Clocks /\ rtc.base <= now
  BY <1>1 DEF CartTypeOK
<1>3. rtc.base \in Nat /\ rtc.offset \in Nat /\ rtc.halt \in BOOLEAN
  BY <1>2 DEF Clocks
<1>4. DiskOK(cart', disk', now')
  <2>1. ASSUME disk \in SavedFiles(cart), disk.rtc.base <= now PROVE disk.rtc.base <= now'
    <3>1. disk.rtc.base \in Nat
      BY <2>1 DEF SavedFiles, SavedClocks
    <3> QED  BY <1>1, <1>2, <2>1, <3>1
  <2> QED  BY <1>1, <2>1 DEF CartTypeOK, DiskOK
<1>5. rtc'.base <= now'
  BY <1>1, <1>2, <1>3
<1>6. CartTypeOK'
  <2>1. cartSteps' \in Nat
    BY <1>1 DEF CartTypeOK, CartStep
  <2> QED  BY <1>1, <1>2, <1>4, <1>5, <2>1 DEF CartTypeOK
<1>7. StoresLand
  BY <1>1 DEF StoresLand
<1>8. Elapsed(rtc)' - Elapsed(rtc) = (IF rtc.halt THEN 0 ELSE now' - now)
  BY <1>1, <1>2, <1>3 DEF Elapsed
<1>9. rtc.latched => View(rtc)' = View(rtc)
  BY <1>1 DEF View
<1> QED  BY <1>1, <1>6, <1>7, <1>8, <1>9 DEF ClockGoesOn

(* The files are written with what there is, and read back.                 *)
LEMMA OffStep ==
  ASSUME CartTypeOK, PowerOff
  PROVE  CartTypeOK' /\ disk' # disk /\ disk.sav = NoFile
<1> DEFINE onDisk == RtcData
<1>1. /\ disk = NoFiles /\ CartStep /\ cart' = Fresh(cart) /\ eram' = FreshRam(cart) /\ rtc' = FreshClock
      /\ now' = now /\ disk' = [sav |-> [none |-> FALSE, ram |-> eram], rtc |-> onDisk]
  BY DEF PowerOff, NoFiles
<1>2. cart \in Carts /\ eram \in Rams(cart) /\ rtc \in Clocks /\ now \in Nat /\ rtc.base <= now
  BY DEF CartTypeOK
<1>3. onDisk \in SavedClocks /\ onDisk.base = rtc.base
  <2>1. /\ rtc.base \in Nat /\ rtc.halt \in BOOLEAN /\ rtc.latched \in BOOLEAN /\ rtc.latch \in [1..5 -> Nat]
    BY <1>2 DEF Clocks
  <2>2. [n \in 1..4 |-> rtc.latch[n]] \in [1..4 -> Nat]
    BY <2>1
  <2> QED  BY <2>1, <2>2, ClockTypes DEF RtcData, SavedClocks
<1> HIDE DEF onDisk
<1>4. cart' \in Carts /\ cart'.rams = cart.rams /\ eram' \in Rams(cart)
  <2>1. cart.mbc \in {"mbc1", "mbc2", "mbc3", "mbc5"} /\ cart.roms \in Nat \ {0, 1} /\ cart.rams \in Nat
    BY <1>2 DEF Carts
  <2> QED  BY <1>1, <2>1, FreshIs
<1>5. Rams(cart') = Rams(cart) /\ SavedFiles(cart') = SavedFiles(cart)
  BY <1>4 DEF Rams, SavedFiles
<1>6. disk' \in SavedFiles(cart) /\ disk'.rtc.base <= now
  BY <1>1, <1>2, <1>3 DEF SavedFiles
<1>7. rtc' \in Clocks /\ rtc'.base = now
  BY <1>1, <1>2, FreshClockIs
<1>8. CartTypeOK'
  <2>1. cartSteps' \in Nat
    BY <1>1 DEF CartTypeOK, CartStep
  <2>2. rtc'.base <= now'
    BY <1>1, <1>2, <1>7
  <2> QED  BY <1>1, <1>2, <1>4, <1>5, <1>6, <1>7, <2>1, <2>2 DEF CartTypeOK, DiskOK
<1>9. disk' # disk /\ disk.sav = NoFile
  BY <1>1, <1>6, FilesAre, NoFileIs
<1> QED  BY <1>8, <1>9

LEMMA OnStep ==
  ASSUME CartTypeOK, PowerOn
  PROVE  CartTypeOK' /\ disk' # disk /\ BatteryReturns
<1> DEFINE file == disk.rtc
           loaded == LoadRtcData(file)
<1>1. /\ disk.sav.none # TRUE /\ CartStep /\ cart' = cart /\ now' = now /\ eram' = disk.sav.ram /\ disk' = NoFiles
      /\ rtc' = IF cart.mbc = "mbc3" THEN loaded ELSE rtc
  BY DEF PowerOn, NoFiles
<1>2. cart \in Carts /\ rtc \in Clocks /\ now \in Nat /\ rtc.base <= now
  BY DEF CartTypeOK
<1>3. disk \in SavedFiles(cart) /\ disk.rtc.base <= now
  BY <1>1, NoFileIs DEF CartTypeOK, DiskOK
<1>4. file \in SavedClocks /\ disk.sav.ram \in Rams(cart) /\ disk' # disk
  BY <1>1, <1>3, FilesAre DEF SavedFiles
<1>5. /\ file.offset \in Nat /\ file.base \in Nat /\ file.halt \in BOOLEAN /\ file.latched \in BOOLEAN
      /\ file.latch \in [1..4 -> Nat] /\ file.base <= now
  BY <1>3, <1>4 DEF SavedClocks
<1> HIDE DEF file
<1>6. /\ loaded \in Clocks /\ loaded.offset = file.offset /\ loaded.base = file.base
      /\ loaded.halt = file.halt
  <2> DEFINE latch == [n \in 1..5 |-> IF n < 5 THEN file.latch[n] ELSE IF file.latched THEN 2 ELSE 0]
  <2>1. latch \in [1..5 -> Nat]
    BY <1>5
  <2>2. loaded = [offset |-> file.offset, base |-> file.base, halt |-> file.halt, latched |-> file.latched,
                  latch |-> latch, phase |-> 0]
    BY DEF LoadRtcData
  <2> HIDE DEF latch, loaded
  <2> QED  BY <1>5, <2>1, <2>2 DEF Clocks
<1> HIDE DEF loaded
<1>7. rtc' \in Clocks /\ rtc'.base <= now'
  BY <1>1, <1>2, <1>5, <1>6
<1>8. CartTypeOK'
  <2>1. cartSteps' \in Nat
    BY <1>1 DEF CartTypeOK, CartStep
  <2> QED  BY <1>1, <1>2, <1>4, <1>7, <2>1 DEF CartTypeOK, DiskOK
<1>9. cart.mbc = "mbc3" => Elapsed(rtc)' >= file.offset
  <2>1. SUFFICES ASSUME cart.mbc = "mbc3" PROVE Elapsed(rtc)' >= file.offset
    OBVIOUS
  <2>2. Elapsed(rtc)' = IF file.halt THEN file.offset ELSE file.offset + now - file.base
    BY <1>1, <1>6, <2>1 DEF Elapsed
  <2> QED  BY <1>2, <1>5, <2>2
<1> QED  BY <1>1, <1>4, <1>8, <1>9 DEF BatteryReturns, file

CartKept ==
  /\ disk' = disk => StoresLand /\ ClockKeeps
  /\ disk.sav # NoFile /\ disk'.sav = NoFile => BatteryReturns

LEMMA CartSteps ==
  ASSUME CartTypeOK, [CartNext]_cartVars
  PROVE  CartTypeOK' /\ (cartSteps' # cartSteps => CartKept)
<1>0. Selections \subseteq Nat /\ Cells \subseteq Nat /\ Wait \subseteq Nat /\ ClockBytes \subseteq Nat
  BY CartAssumption
<1>a. ASSUME disk' = disk => StoresLand, ClockGoesOn, disk' = disk PROVE CartKept
  <2>1. \A x \in ClockBytes : WriteClock(x) => ClockSet(x)
    BY <1>0, ClockStep
  <2>2. ~ (disk.sav # NoFile /\ disk'.sav = NoFile)
    BY <1>a
  <2> QED  BY <1>a, <2>1, <2>2 DEF CartKept, ClockKeeps
<1> DEFINE Kept == CartTypeOK' /\ CartKept
<1>1. ASSUME NEW x \in {0, 10, 26}, WriteEnable(x) PROVE Kept
  <2>1. x \in Nat
    OBVIOUS
  <2> QED  BY <1>a, <1>1, <2>1, RegisterSteps
<1>2. ASSUME NEW x \in Selections, WriteRomBank(x) \/ WriteHigh(x) \/ WriteRamBank(x) \/ WriteMode(x) PROVE Kept
  BY <1>0, <1>a, <1>2, RegisterSteps
<1>3. ASSUME NEW x \in {0, 1, 2}, WriteLatch(x) PROVE Kept
  <2>1. x \in Nat
    OBVIOUS
  <2> QED  BY <1>a, <1>3, <2>1, LatchStep
<1>4. ASSUME NEW x \in ClockBytes, WriteClock(x) PROVE Kept
  <2>1. CartTypeOK' /\ disk' = disk /\ StoresLand
    BY <1>0, <1>4, ClockStep
  <2>2. \A y \in ClockBytes : WriteClock(y) => ClockSet(y)
    BY <1>0, ClockStep
  <2> QED  BY <1>4, <2>1, <2>2 DEF CartKept, ClockKeeps
<1>5. ASSUME NEW x \in Cells, WriteRam(x) PROVE Kept
  BY <1>0, <1>a, <1>5, RamStep
<1>6. ASSUME NEW s \in Wait, Pass(s) PROVE Kept
  BY <1>0, <1>a, <1>6, PassStep
<1>7. ASSUME PowerOff PROVE Kept
  BY <1>7, OffStep DEF CartKept
<1>8. ASSUME PowerOn PROVE Kept
  BY <1>8, OnStep DEF CartKept
<1>9. CASE UNCHANGED cartVars
  <2>1. cart' = cart /\ eram' = eram /\ rtc' = rtc /\ disk' = disk /\ now' = now /\ cartSteps' = cartSteps
    BY <1>9 DEF cartVars
  <2>2. CartTypeOK'
    BY <2>1 DEF CartTypeOK, DiskOK
  <2> QED  BY <2>1, <2>2
<1> HIDE DEF Kept
<1>10. CASE CartNext
  <2>1. Kept
    <3>1. CASE \E x \in {0, 10, 26} : WriteEnable(x)
      BY <1>1, <3>1
    <3>2. CASE \E x \in Selections : WriteRomBank(x) \/ WriteHigh(x) \/ WriteRamBank(x) \/ WriteMode(x)
      BY <1>2, <3>2
    <3>3. CASE \E x \in {0, 1, 2} : WriteLatch(x)
      BY <1>3, <3>3
    <3>4. CASE \E x \in ClockBytes : WriteClock(x)
      BY <1>4, <3>4
    <3>5. CASE \E x \in Cells : WriteRam(x)
      BY <1>5, <3>5
    <3>6. CASE \E s \in Wait : Pass(s)
      BY <1>6, <3>6
    <3> QED  BY <1>7, <1>8, <1>10, <3>1, <3>2, <3>3, <3>4, <3>5, <3>6, Zenon DEF CartNext
  <2> QED  BY <2>1 DEF Kept
<1> QED  BY <1>9, <1>10

(* The bank registers stay bytes and banks of the cartridge, RAM and clock  *)
(* stay in their ranges, and a file on the disk is none or a whole one,     *)
(* none of the host's future (Cartridge's registers, load_ram, load_rtc).   *)
THEOREM CartTypes == CartSpec => []CartTypeOK
<1>1. CartTypeOK /\ [CartNext]_cartVars => CartTypeOK'
  BY CartSteps
<1> QED  BY <1>1, CartStart, PTL DEF CartSpec

(* For every cartridge, every value written and every length of a minute,   *)
(* an hour and a day: the CPU sees banks the ROM has, RAM changes only by a *)
(* store that reads back, the battery brings it back, and the clock keeps   *)
(* the host's time whatever is banked, written or latched and is never set  *)
(* back by a power cycle; a byte stored into one of its registers, in range *)
(* or not, moves it by that register's seconds from the time of the         *)
(* calendar it shows, and it runs on but for a halt bit stored              *)
(* (Mmu::write_u8, rtc_regs_from_seconds, load_ram, load_rtc).              *)
THEOREM CartridgeIsKept == CartSpec => CartridgeKeeps
<1> DEFINE A == cartSteps' # cartSteps =>
                  /\ BanksMapped'
                  /\ disk' = disk => StoresLand /\ ClockKeeps
                  /\ disk.sav # NoFile /\ disk'.sav = NoFile => BatteryReturns
<1>1. CartTypeOK' => BanksMapped'
  BY BanksInRange, PTL
<1>2. CartTypeOK /\ [CartNext]_cartVars => [A]_cartVars
  BY <1>1, CartSteps DEF CartKept
<1> HIDE DEF A
<1>3. CartSpec => [][A]_cartVars
  BY <1>2, CartTypes, PTL DEF CartSpec
<1> QED  BY <1>3 DEF A, CartridgeKeeps

(***************************************************************************)
(* The sound channels.                                                     *)
(***************************************************************************)
Fields == {"enabled", "length", "limited", "volume", "period", "up", "timer",
           "sweepPeriod", "sweepShift", "falling", "sweepTimer", "shadow"}
Channel(s) ==
    /\ DOMAIN s = Fields
    /\ s.enabled \in BOOLEAN /\ s.length \in Nat /\ s.limited \in BOOLEAN
    /\ s.volume \in 0..15 /\ s.period \in 0..7 /\ s.up \in BOOLEAN
    /\ s.timer \in Int /\ s.sweepPeriod \in 0..7 /\ s.sweepShift \in 0..7
    /\ s.falling \in BOOLEAN /\ s.sweepTimer \in Int
    /\ s.shadow \in 0..LastFrequency

LEMMA LengthIs ==
    ASSUME NEW c, NEW n \in NoteSet
    PROVE  LengthOf(c, n) \in Nat \ {0}
BY DEF LengthOf, NoteSet, LastLength

LEMMA TriggeredIs ==
    ASSUME NEW c, NEW n \in NoteSet
    PROVE  Channel(Triggered(c, n)) /\ Triggered(c, n).enabled
BY LengthIs DEF Triggered, Channel, NoteSet, Fields

LEMMA SilentIs == Channel(Silent) /\ ~Silent.enabled
<1>1. NoNote \in NoteSet
  BY DEF NoNote, NoteSet, LastLength, LastFrequency
<1>2. Channel(Triggered(1, NoNote))
  BY <1>1, TriggeredIs
<1>3. ASSUME NEW t, Channel(t),
             NEW u, u = [t EXCEPT !.enabled = FALSE, !.length = 0, !.timer = 0,
                                  !.sweepTimer = 0, !.up = TRUE]
      PROVE  Channel(u) /\ ~u.enabled
  BY <1>3 DEF Channel, Fields
<1> QED  BY <1>2, <1>3 DEF Silent

LEMMA Shift ==
    ASSUME NEW x \in Nat, NEW n \in 0..7
    PROVE  x \div Pow(n) \in Nat /\ x \div Pow(n) <= x
<1>1. Pow(n) \in {1, 2, 4, 8, 16, 32, 64, 128}
  BY DEF Pow
<1> QED  BY <1>1

(* What the note n has come to in s after l length clocks, e envelope      *)
(* clocks and w sweep clocks, which have brought it to the frequency f.    *)
Loudness(n, e) ==
    LET turns == IF n.period = 0 THEN 0 ELSE e \div n.period
        v == IF n.up THEN n.volume + turns ELSE n.volume - turns
    IN  IF v > 15 THEN 15 ELSE IF v < 0 THEN 0 ELSE v
Sounds(c, n, l, e, w, f, s) ==
    /\ s.limited = n.limited /\ s.period = n.period /\ s.up = n.up
    /\ s.falling = n.falling /\ s.sweepPeriod = n.sweepPeriod /\ s.sweepShift = n.sweepShift
    /\ s.length = IF ~n.limited THEN LengthOf(c, n)
                  ELSE IF l < LengthOf(c, n) THEN LengthOf(c, n) - l ELSE 0
    /\ n.limited /\ l >= LengthOf(c, n) => ~s.enabled
    /\ ~s.enabled => f > LastFrequency \/ (n.limited /\ l >= LengthOf(c, n))
    /\ s.enabled => s.shadow = f
    /\ s.enabled /\ c = 1 /\ n.sweepPeriod # 0 =>
         s.sweepTimer = n.sweepPeriod - (w % n.sweepPeriod)
    /\ c # 3 => s.volume = Loudness(n, e)
    /\ c # 3 /\ n.period # 0 => s.timer = n.period - (e % n.period)

(* Clocking starts no note.                                                *)
Fades(s, t) == t.enabled => s.enabled

LEMMA SweptIs ==
    ASSUME NEW c, NEW n \in NoteSet, NEW w \in Nat, NEW f \in Nat
    PROVE  Swept(c, n, w, f) \in Nat
<1>1. n.sweepShift \in 0..7
  BY DEF NoteSet
<1>2. f \div Pow(n.sweepShift) \in Nat /\ f \div Pow(n.sweepShift) <= f
  BY <1>1, Shift
<1>3. Bent(n, f) \in Nat
  BY <1>2 DEF Bent
<1> QED  BY <1>3 DEF Swept

LEMMA GlideIs ==
    ASSUME NEW c, NEW n \in NoteSet, NEW w \in Nat, NEW f \in Nat, NEW m \in {0, 1}
    PROVE  /\ Glide(c, n, w, f, m) \in Nat
           /\ Glide(c, n, w, f, 0) = f /\ Glide(c, n, w, f, 1) = Swept(c, n, w, f)
           /\ Glide(c, n, w, f, m + 1) = Swept(c, n, w + m, Glide(c, n, w, f, m))
           /\ Glide(c, n, w, f, m + 1) \in Nat
<1>1. Swept(c, n, w, f) \in Nat
  BY SweptIs
<1>2. Swept(c, n, w + 1, Swept(c, n, w, f)) \in Nat
  <2>1. w + 1 \in Nat
    OBVIOUS
  <2> HIDE DEF Swept
  <2> QED  BY <1>1, <2>1, SweptIs
<1>3. w + 0 = w /\ 0 + 1 = 1 /\ 1 + 1 = 2
  OBVIOUS
<1>4. /\ Glide(c, n, w, f, 0) = f /\ Glide(c, n, w, f, 1) = Swept(c, n, w, f)
      /\ Glide(c, n, w, f, 2) = Swept(c, n, w + 1, Swept(c, n, w, f))
  BY DEF Glide
<1>5. CASE m = 0
  BY <1>1, <1>3, <1>4, <1>5
<1>6. CASE m = 1
  BY <1>1, <1>2, <1>3, <1>4, <1>6
<1> QED  BY <1>4, <1>5, <1>6

LEMMA LengthClock ==
    ASSUME NEW c, NEW s, Channel(s)
    PROVE  /\ Channel(ClockLength(s)) /\ Fades(s, ClockLength(s))
           /\ \A n \in NoteSet, l \in Nat, e \in Nat, w \in Nat, f \in Nat :
                Sounds(c, n, l, e, w, f, s) => Sounds(c, n, l + 1, e, w, f, ClockLength(s))
<1> DEFINE t == ClockLength(s)
<1>1. CASE ~s.limited \/ s.length =< 0
  <2>1. t = s
    BY <1>1 DEF ClockLength
  <2> HIDE DEF t
  <2>2. ASSUME NEW n \in NoteSet, NEW l \in Nat, NEW e \in Nat,
             NEW w \in Nat, NEW f \in Nat, Sounds(c, n, l, e, w, f, s)
        PROVE  Sounds(c, n, l + 1, e, w, f, s)
    <3>1. LengthOf(c, n) \in Nat \ {0}
      BY LengthIs
    <3>2. s.limited = n.limited
      BY <2>2 DEF Sounds
    <3>3. s.length = IF ~n.limited THEN LengthOf(c, n)
                     ELSE IF l < LengthOf(c, n) THEN LengthOf(c, n) - l ELSE 0
      BY <2>2 DEF Sounds
    <3>4. n.limited => l >= LengthOf(c, n)
      BY <1>1, <3>1, <3>2, <3>3
    <3>5. ~s.enabled => f > LastFrequency \/ (n.limited /\ l + 1 >= LengthOf(c, n))
      BY <2>2, <3>1 DEF Sounds
    <3> QED  BY <2>2, <3>1, <3>3, <3>4, <3>5 DEF Sounds
  <2> QED  BY <2>1, <2>2 DEF Fades, t
<1>2. CASE s.limited /\ ~ (s.length =< 0)
  <2>1. t = [s EXCEPT !.length = @ - 1, !.enabled = @ /\ s.length # 1]
    BY <1>2 DEF ClockLength
  <2>2. s.length \in Nat /\ s.length > 0 /\ s.length - 1 \in Nat
    BY <1>2 DEF Channel
  <2> HIDE DEF t
  <2>3. Channel(t) /\ t.length = s.length - 1
    BY <2>1, <2>2 DEF Channel, Fields
  <2>4. /\ t.enabled <=> (s.enabled /\ s.length # 1)
        /\ t.limited = s.limited /\ t.period = s.period /\ t.up = s.up
        /\ t.falling = s.falling /\ t.volume = s.volume /\ t.timer = s.timer
        /\ t.sweepPeriod = s.sweepPeriod /\ t.sweepShift = s.sweepShift
        /\ t.sweepTimer = s.sweepTimer /\ t.shadow = s.shadow
    BY <2>1, <2>2 DEF Channel, Fields
  <2>5. Fades(s, t)
    BY <2>2, <2>3, <2>4 DEF Fades
  <2>6. ASSUME NEW n \in NoteSet, NEW l \in Nat, NEW e \in Nat,
             NEW w \in Nat, NEW f \in Nat, Sounds(c, n, l, e, w, f, s)
        PROVE  Sounds(c, n, l + 1, e, w, f, t)
    <3>1. LengthOf(c, n) \in Nat \ {0}
      BY LengthIs
    <3>2. s.limited = n.limited
      BY <2>6 DEF Sounds
    <3>3. s.length = IF l < LengthOf(c, n) THEN LengthOf(c, n) - l ELSE 0
      BY <1>2, <2>6, <3>2 DEF Sounds
    <3>4. l < LengthOf(c, n) /\ s.length = LengthOf(c, n) - l
      BY <2>2, <3>1, <3>3
    <3>5. t.length = IF l + 1 < LengthOf(c, n) THEN LengthOf(c, n) - (l + 1) ELSE 0
      BY <2>2, <2>3, <3>1, <3>4
    <3>6. l + 1 >= LengthOf(c, n) => ~t.enabled
      BY <2>2, <2>4, <3>1, <3>4
    <3>7. ~t.enabled => f > LastFrequency \/ l + 1 >= LengthOf(c, n)
      <4>1. ~s.enabled => f > LastFrequency \/ l >= LengthOf(c, n)
        BY <2>6 DEF Sounds
      <4> QED  BY <2>2, <2>4, <3>1, <3>4, <4>1
    <3> QED  BY <1>2, <2>4, <2>6, <3>2, <3>5, <3>6, <3>7 DEF Sounds
  <2> QED  BY <2>3, <2>5, <2>6 DEF t
<1> QED  BY <1>1, <1>2

LEMMA SweepClock ==
    ASSUME NEW c, NEW s, Channel(s)
    PROVE  /\ Channel(ClockSweep(c, s)) /\ Fades(s, ClockSweep(c, s))
           /\ \A n \in NoteSet, l \in Nat, e \in Nat, w \in Nat, f \in Nat :
                Sounds(c, n, l, e, w, f, s) =>
                  Sounds(c, n, l, e, w + 1, Swept(c, n, w, f), ClockSweep(c, s))
<1> DEFINE delta == s.shadow \div Pow(s.sweepShift)
           next == IF s.falling THEN s.shadow - delta ELSE s.shadow + delta
           x == IF s.sweepShift > 0 THEN next ELSE s.shadow
           t == ClockSweep(c, s)
           Still == c # 1 \/ ~s.enabled \/ s.sweepPeriod = 0
           Alike == /\ t.length = s.length /\ t.limited = s.limited
                    /\ t.period = s.period /\ t.up = s.up /\ t.falling = s.falling
                    /\ t.volume = s.volume /\ t.timer = s.timer
                    /\ t.sweepPeriod = s.sweepPeriod /\ t.sweepShift = s.sweepShift
<1>0. LastFrequency \in Nat
  BY DEF LastFrequency
<1>1. /\ s.shadow \in Nat /\ s.shadow <= LastFrequency /\ LastFrequency \in Nat
      /\ s.sweepShift \in 0..7 /\ s.sweepPeriod \in 0..7 /\ s.sweepTimer \in Int
  BY <1>0 DEF Channel
<1>2. delta \in Nat /\ delta <= s.shadow
  BY <1>1, Shift
<1>3. next \in Nat /\ (s.falling => next <= LastFrequency)
  <2> HIDE DEF delta
  <2> QED  BY <1>1, <1>2
<1>4. t = IF Still THEN s
          ELSE IF s.sweepTimer > 1 THEN [s EXCEPT !.sweepTimer = @ - 1]
          ELSE IF next > LastFrequency
               THEN [s EXCEPT !.sweepTimer = s.sweepPeriod, !.enabled = FALSE]
          ELSE [s EXCEPT !.sweepTimer = s.sweepPeriod, !.shadow = x]
  BY DEF ClockSweep
<1>5. ASSUME NEW n \in NoteSet, NEW f \in Nat, ~Still, n.sweepShift = s.sweepShift,
             n.falling = s.falling, s.shadow = f
      PROVE  Bent(n, f) = IF next > LastFrequency THEN next ELSE x
  <2>1. Bent(n, f) = IF f > LastFrequency \/ (s.sweepShift = 0 /\ next =< LastFrequency)
                     THEN f ELSE next
    BY <1>5 DEF Bent
  <2> HIDE DEF next
  <2> QED  BY <1>1, <1>3, <1>5, <2>1
<1> HIDE DEF delta, next, t
<1>6. CASE Still
  <2>1. t = s
    BY <1>4, <1>6
  <2>2. ASSUME NEW n \in NoteSet, NEW l \in Nat, NEW e \in Nat,
               NEW w \in Nat, NEW f \in Nat, Sounds(c, n, l, e, w, f, s)
        PROVE  Sounds(c, n, l, e, w + 1, Swept(c, n, w, f), s)
    <3>1. CASE c # 1 \/ n.sweepPeriod = 0
      <4>1. Swept(c, n, w, f) = f
        BY <3>1 DEF Swept
      <4> QED  BY <2>2, <3>1, <4>1 DEF Sounds
    <3>2. CASE c = 1 /\ n.sweepPeriod # 0
      <4>1. ~s.enabled
        BY <1>6, <2>2, <3>2 DEF Sounds
      <4>2. f > LastFrequency => Swept(c, n, w, f) = f
        BY DEF Swept, Bent
      <4> HIDE DEF Swept
      <4> QED  BY <2>2, <4>1, <4>2 DEF Sounds
    <3> QED  BY <3>1, <3>2
  <2> QED  BY <2>1, <2>2 DEF Fades, t
<1>7. CASE ~Still
  <2>1. c = 1 /\ s.enabled /\ s.sweepPeriod # 0
    BY <1>7 DEF Channel
  <2>2. Channel(t) /\ Alike
    <3>1. CASE s.sweepTimer > 1
      <4>1. t = [s EXCEPT !.sweepTimer = @ - 1]
        BY <1>4, <1>7, <3>1
      <4> QED  BY <4>1 DEF Channel, Fields
    <3>2. CASE ~ (s.sweepTimer > 1) /\ next > LastFrequency
      <4>1. t = [s EXCEPT !.sweepTimer = s.sweepPeriod, !.enabled = FALSE]
        BY <1>4, <1>7, <3>2
      <4> QED  BY <4>1 DEF Channel, Fields
    <3>3. CASE ~ (s.sweepTimer > 1) /\ ~ (next > LastFrequency)
      <4>1. t = [s EXCEPT !.sweepTimer = s.sweepPeriod, !.shadow = x]
        BY <1>4, <1>7, <3>3
      <4>2. x \in 0..LastFrequency
        BY <1>1, <1>3, <3>3
      <4> HIDE DEF x
      <4> QED  BY <4>1, <4>2 DEF Channel, Fields
    <3> QED  BY <3>1, <3>2, <3>3
  <2>3. Fades(s, t)
    BY <2>1 DEF Fades
  <2>4. ASSUME NEW n \in NoteSet, NEW l \in Nat, NEW e \in Nat,
               NEW w \in Nat, NEW f \in Nat, Sounds(c, n, l, e, w, f, s)
        PROVE  Sounds(c, n, l, e, w + 1, Swept(c, n, w, f), t)
    <3> DEFINE p == n.sweepPeriod
               r == w % p
               m == (w + 1) % p
               g == Swept(c, n, w, f)
    <3>1. /\ p \in 1..7 /\ s.sweepPeriod = p /\ s.sweepTimer = p - r
          /\ n.sweepShift = s.sweepShift /\ n.falling = s.falling /\ s.shadow = f
      BY <2>1, <2>4 DEF Sounds, NoteSet
    <3>2. r \in 0..(p - 1) /\ m = IF r = p - 1 THEN 0 ELSE r + 1
      <4> HIDE DEF p
      <4>1. p \in Nat \ {0}
        BY <3>1
      <4> QED  BY <4>1, DivNext
    <3>3. g = IF m = 0 THEN (IF next > LastFrequency THEN next ELSE x) ELSE f
      <4>1. g = IF m = 0 THEN Bent(n, f) ELSE f
        BY <2>1, <3>1 DEF Swept
      <4> HIDE DEF g, m, x
      <4> QED  BY <1>5, <1>7, <3>1, <4>1
    <3>4. /\ n.limited /\ l >= LengthOf(c, n) => ~t.enabled
          /\ ~t.enabled => g > LastFrequency
          /\ t.enabled => t.shadow = g
          /\ t.enabled => t.sweepTimer = p - m
      <4>0. n.limited /\ l >= LengthOf(c, n) => FALSE
        BY <2>1, <2>4 DEF Sounds
      <4> HIDE DEF p, r, m, g
      <4>1. CASE s.sweepTimer > 1
        <5>1. t = [s EXCEPT !.sweepTimer = @ - 1]
          BY <1>4, <1>7, <4>1
        <5>2. t.enabled = s.enabled /\ t.shadow = s.shadow /\ t.sweepTimer = s.sweepTimer - 1
          BY <5>1 DEF Channel, Fields
        <5>3. r # p - 1 /\ m # 0
          BY <3>1, <3>2, <4>1
        <5>4. g = f /\ t.sweepTimer = p - m
          BY <1>1, <3>1, <3>2, <3>3, <5>2, <5>3
        <5> QED  BY <2>1, <3>1, <4>0, <5>2, <5>4
      <4>2. CASE ~ (s.sweepTimer > 1) /\ next > LastFrequency
        <5>1. t = [s EXCEPT !.sweepTimer = s.sweepPeriod, !.enabled = FALSE]
          BY <1>4, <1>7, <4>2
        <5>2. ~t.enabled
          BY <5>1 DEF Channel, Fields
        <5>3. m = 0
          BY <3>1, <3>2, <4>2
        <5> QED  BY <3>3, <4>2, <5>2, <5>3
      <4>3. CASE ~ (s.sweepTimer > 1) /\ ~ (next > LastFrequency)
        <5>1. t = [s EXCEPT !.sweepTimer = s.sweepPeriod, !.shadow = x]
          BY <1>4, <1>7, <4>3
        <5> HIDE DEF x
        <5>2. t.enabled = s.enabled /\ t.shadow = x /\ t.sweepTimer = s.sweepPeriod
          BY <5>1 DEF Channel, Fields
        <5>3. m = 0
          BY <3>1, <3>2, <4>3
        <5>4. g = x /\ t.sweepTimer = p - m
          BY <3>1, <3>3, <4>3, <5>2, <5>3
        <5> QED  BY <2>1, <4>0, <5>2, <5>4
      <4> QED  BY <4>1, <4>2, <4>3
    <3>5. /\ t.limited = n.limited /\ t.period = n.period /\ t.up = n.up
          /\ t.falling = n.falling /\ t.sweepPeriod = p /\ t.sweepShift = n.sweepShift
      BY <2>2, <2>4 DEF Sounds
    <3>6. /\ t.length = IF ~n.limited THEN LengthOf(c, n)
                        ELSE IF l < LengthOf(c, n) THEN LengthOf(c, n) - l ELSE 0
          /\ c # 3 => t.volume = Loudness(n, e)
          /\ c # 3 /\ n.period # 0 => t.timer = n.period - (e % n.period)
      BY <2>2, <2>4 DEF Sounds
    <3> HIDE DEF g
    <3> QED  BY <3>4, <3>5, <3>6 DEF Sounds, g
  <2> QED  BY <2>2, <2>3, <2>4 DEF t
<1> QED  BY <1>6, <1>7

LEMMA EnvelopeClock ==
    ASSUME NEW c, NEW s, Channel(s)
    PROVE  /\ Channel(ClockEnvelope(c, s)) /\ Fades(s, ClockEnvelope(c, s))
           /\ \A n \in NoteSet, l \in Nat, e \in Nat, w \in Nat, f \in Nat :
                Sounds(c, n, l, e, w, f, s) => Sounds(c, n, l, e + 1, w, f, ClockEnvelope(c, s))
<1> DEFINE next == IF s.up THEN s.volume + 1 ELSE s.volume - 1
           t == ClockEnvelope(c, s)
           v == IF next \in 0..15 THEN next ELSE s.volume
           Alike == /\ t.length = s.length /\ t.limited = s.limited
                    /\ t.period = s.period /\ t.up = s.up /\ t.falling = s.falling
                    /\ t.enabled = s.enabled /\ t.sweepPeriod = s.sweepPeriod
                    /\ t.sweepShift = s.sweepShift /\ t.sweepTimer = s.sweepTimer
                    /\ t.shadow = s.shadow
<1>1. t = IF c = 3 \/ s.period = 0 THEN s
          ELSE IF s.timer > 1 THEN [s EXCEPT !.timer = @ - 1]
          ELSE [s EXCEPT !.timer = s.period, !.volume = v]
  BY DEF ClockEnvelope
<1>2. v \in 0..15
  BY DEF Channel
<1> HIDE DEF t, v
<1>3. CASE c = 3 \/ s.period = 0
  <2>1. t = s
    BY <1>1, <1>3
  <2>2. ASSUME NEW n \in NoteSet, NEW l \in Nat, NEW e \in Nat,
             NEW w \in Nat, NEW f \in Nat, Sounds(c, n, l, e, w, f, s)
        PROVE  Sounds(c, n, l, e + 1, w, f, s)
    <3>1. CASE c = 3
      BY <2>2, <3>1 DEF Sounds
    <3>2. CASE c # 3
      <4>1. n.period = 0
        BY <1>3, <2>2, <3>2 DEF Sounds
      <4>2. Loudness(n, e + 1) = Loudness(n, e)
        BY <4>1 DEF Loudness
      <4> QED  BY <2>2, <4>1, <4>2 DEF Sounds
    <3> QED  BY <3>1, <3>2
  <2> QED  BY <2>1, <2>2 DEF Fades, t
<1>4. CASE ~ (c = 3 \/ s.period = 0)
  <2>1. Channel(t) /\ Alike
    <3>1. CASE s.timer > 1
      <4>1. t = [s EXCEPT !.timer = @ - 1]
        BY <1>1, <1>4, <3>1
      <4> QED  BY <4>1 DEF Channel, Fields
    <3>2. CASE ~ (s.timer > 1)
      <4>1. t = [s EXCEPT !.timer = s.period, !.volume = v]
        BY <1>1, <1>4, <3>2
      <4> QED  BY <1>2, <4>1 DEF Channel, Fields
    <3> QED  BY <3>1, <3>2
  <2>2. Fades(s, t)
    BY <2>1 DEF Fades
  <2>3. ASSUME NEW n \in NoteSet, NEW l \in Nat, NEW e \in Nat,
             NEW w \in Nat, NEW f \in Nat, Sounds(c, n, l, e, w, f, s)
        PROVE  Sounds(c, n, l, e + 1, w, f, t)
    <3> DEFINE p == n.period
               a == e \div p
               r == e % p
               b == (e + 1) \div p
               m == (e + 1) % p
    <3>1. p \in 1..7 /\ n.volume \in 0..15 /\ n.up \in BOOLEAN
          /\ s.period = p /\ s.up = n.up
          /\ s.volume = Loudness(n, e) /\ s.timer = p - r /\ s.volume \in 0..15
      BY <1>4, <2>3 DEF Sounds, NoteSet, Channel
    <3>2. /\ a \in Nat /\ r \in 0..(p - 1)
          /\ b = a + (IF r = p - 1 THEN 1 ELSE 0)
          /\ m = IF r = p - 1 THEN 0 ELSE r + 1
      <4> HIDE DEF p
      <4>1. p \in Nat \ {0}
        BY <3>1
      <4> QED  BY <4>1, DivNext
    <3>3. /\ Loudness(n, e) =
               LET x == IF n.up THEN n.volume + a ELSE n.volume - a
               IN  IF x > 15 THEN 15 ELSE IF x < 0 THEN 0 ELSE x
          /\ Loudness(n, e + 1) =
               LET x == IF n.up THEN n.volume + b ELSE n.volume - b
               IN  IF x > 15 THEN 15 ELSE IF x < 0 THEN 0 ELSE x
      BY <3>1 DEF Loudness
    <3>4. p # 0 /\ (e + 1) % n.period = m
      BY <3>1
    <3> HIDE DEF a, r, b, m
    <3>5. t.volume = Loudness(n, e + 1) /\ t.timer = p - m
      <4>1. CASE s.timer > 1
        <5>1. t = [s EXCEPT !.timer = @ - 1]
          BY <1>1, <1>4, <4>1
        <5>2. t.timer = s.timer - 1 /\ t.volume = s.volume
          BY <5>1 DEF Channel, Fields
        <5>3. r # p - 1
          BY <3>1, <3>2, <4>1
        <5> QED  BY <3>1, <3>2, <3>3, <5>2, <5>3
      <4>2. CASE ~ (s.timer > 1)
        <5>1. t = [s EXCEPT !.timer = s.period, !.volume = v]
          BY <1>1, <1>4, <4>2
        <5>2. t.timer = s.period /\ t.volume = v
          BY <5>1 DEF Channel, Fields
        <5>3. r = p - 1
          BY <3>1, <3>2, <4>2
        <5>4. b = a + 1 /\ m = 0
          BY <3>2, <5>3
        <5>5. v = Loudness(n, e + 1)
          <6>1. /\ n.volume \in 0..15 /\ a \in Nat /\ b = a + 1
                /\ s.volume = Loudness(n, e)
            BY <3>1, <3>2, <5>4
          <6>2. CASE s.up
            <7>1. n.up /\ v = IF s.volume + 1 \in 0..15 THEN s.volume + 1 ELSE s.volume
              BY <3>1, <6>2 DEF v
            <7>2. /\ s.volume = IF n.volume + a > 15 THEN 15 ELSE n.volume + a
                  /\ Loudness(n, e + 1) = IF n.volume + b > 15 THEN 15 ELSE n.volume + b
              BY <3>3, <6>1, <7>1
            <7> QED  BY ONLY <6>1, <7>1, <7>2
          <6>3. CASE ~s.up
            <7>1. ~n.up /\ v = IF s.volume - 1 \in 0..15 THEN s.volume - 1 ELSE s.volume
              BY <3>1, <6>3 DEF v
            <7>2. /\ s.volume = IF n.volume - a < 0 THEN 0 ELSE n.volume - a
                  /\ Loudness(n, e + 1) = IF n.volume - b < 0 THEN 0 ELSE n.volume - b
              BY <3>3, <6>1, <7>1
            <7> QED  BY ONLY <6>1, <7>1, <7>2
          <6> QED  BY <6>2, <6>3
        <5> QED  BY <3>1, <5>2, <5>4, <5>5
      <4> QED  BY <4>1, <4>2
    <3>6. t.timer = n.period - ((e + 1) % n.period)
      BY <3>4, <3>5
    <3> QED  BY <2>1, <2>3, <3>5, <3>6 DEF Sounds
  <2> QED  BY <2>1, <2>2, <2>3 DEF t
<1> QED  BY <1>3, <1>4

(***************************************************************************)
(* The frames of the sequencer.                                            *)
(***************************************************************************)
LengthsOf(step) == IF step \in {0, 2, 4, 6} THEN 1 ELSE 0
EnvelopesOf(step) == IF step = 7 THEN 1 ELSE 0
SweepsOf(step) == IF step \in {2, 6} THEN 1 ELSE 0

LEMMA FadesTwice ==
    ASSUME NEW s, NEW t, NEW u, Fades(s, t), Fades(t, u)
    PROVE  Fades(s, u)
BY DEF Fades

LEMMA FrameClock ==
    ASSUME NEW c, NEW s, Channel(s), NEW step \in 0..7
    PROVE  /\ Channel(ClockFrame(step, c, s)) /\ Fades(s, ClockFrame(step, c, s))
           /\ \A n \in NoteSet, l \in Nat, e \in Nat, w \in Nat, f \in Nat :
                Sounds(c, n, l, e, w, f, s) =>
                  Sounds(c, n, l + LengthsOf(step), e + EnvelopesOf(step),
                         w + SweepsOf(step), Glide(c, n, w, f, SweepsOf(step)),
                         ClockFrame(step, c, s))
<1>0. \A n \in NoteSet, w \in Nat, f \in Nat :
        /\ Glide(c, n, w, f, 0) = f /\ Glide(c, n, w, f, 1) = Swept(c, n, w, f)
  BY DEF Glide
<1>1. CASE step \in {0, 4}
  <2>1. ClockFrame(step, c, s) = ClockLength(s)
    BY <1>1 DEF ClockFrame
  <2>2. LengthsOf(step) = 1 /\ EnvelopesOf(step) = 0 /\ SweepsOf(step) = 0
    BY <1>1 DEF LengthsOf, EnvelopesOf, SweepsOf
  <2> QED  BY <1>0, <2>1, <2>2, LengthClock
<1>2. CASE step \in {2, 6}
  <2> DEFINE t == ClockLength(s)
  <2>1. ClockFrame(step, c, s) = ClockSweep(c, t)
    BY <1>2 DEF ClockFrame
  <2>2. LengthsOf(step) = 1 /\ EnvelopesOf(step) = 0 /\ SweepsOf(step) = 1
    BY <1>2 DEF LengthsOf, EnvelopesOf, SweepsOf
  <2>3. /\ Channel(t) /\ Fades(s, t)
        /\ \A n \in NoteSet, l \in Nat, e \in Nat, w \in Nat, f \in Nat :
             Sounds(c, n, l, e, w, f, s) => Sounds(c, n, l + 1, e, w, f, t)
    BY LengthClock
  <2> HIDE DEF t
  <2>4. /\ Channel(ClockSweep(c, t)) /\ Fades(t, ClockSweep(c, t))
        /\ \A n \in NoteSet, l \in Nat, e \in Nat, w \in Nat, f \in Nat :
             Sounds(c, n, l, e, w, f, t) =>
               Sounds(c, n, l, e, w + 1, Swept(c, n, w, f), ClockSweep(c, t))
    BY <2>3, SweepClock
  <2>5. Fades(s, ClockSweep(c, t))
    BY <2>3, <2>4, FadesTwice
  <2> QED  BY <1>0, <2>1, <2>2, <2>3, <2>4, <2>5
<1>3. CASE step = 7
  <2>1. ClockFrame(step, c, s) = ClockEnvelope(c, s)
    BY <1>3 DEF ClockFrame
  <2>2. LengthsOf(step) = 0 /\ EnvelopesOf(step) = 1 /\ SweepsOf(step) = 0
    BY <1>3 DEF LengthsOf, EnvelopesOf, SweepsOf
  <2> QED  BY <1>0, <2>1, <2>2, EnvelopeClock
<1>4. CASE step \in {1, 3, 5}
  <2>1. ClockFrame(step, c, s) = s
    BY <1>4 DEF ClockFrame
  <2>2. LengthsOf(step) = 0 /\ EnvelopesOf(step) = 0 /\ SweepsOf(step) = 0
    BY <1>4 DEF LengthsOf, EnvelopesOf, SweepsOf
  <2> QED  BY <1>0, <2>1, <2>2 DEF Fades
<1> QED  BY <1>1, <1>2, <1>3, <1>4

LEMMA StepsGrow ==
    ASSUME NEW first \in 0..7, NEW k \in 0..7
    PROVE  /\ (first + k) % 8 \in 0..7
           /\ Steps(first, k + 1) = Steps(first, k) \union {(first + k) % 8}
           /\ (first + k) % 8 \notin Steps(first, k)
<1>1. (first + k) % 8 \in 0..7
  OBVIOUS
<1>2. 0..(k + 1 - 1) = (0..(k - 1)) \union {k}
  OBVIOUS
<1>3. Steps(first, k + 1) = Steps(first, k) \union {(first + k) % 8}
  <2> DEFINE at(j) == (first + j) % 8
  <2>1. Steps(first, k + 1) = {at(j) : j \in 0..(k + 1 - 1)}
    BY DEF Steps
  <2>2. Steps(first, k) = {at(j) : j \in 0..(k - 1)}
    BY DEF Steps
  <2> HIDE DEF at
  <2>3. {at(j) : j \in (0..(k - 1)) \union {k}} = {at(j) : j \in 0..(k - 1)} \union {at(k)}
    OBVIOUS
  <2>4. Steps(first, k + 1) = Steps(first, k) \union {at(k)}
    BY <1>2, <2>1, <2>2, <2>3
  <2> QED  BY <2>4 DEF at
<1>4. ASSUME NEW j \in 0..(k - 1), (first + j) % 8 = (first + k) % 8 PROVE FALSE
  BY <1>4
<1> QED  BY <1>1, <1>3, <1>4 DEF Steps

LEMMA CountsGrow ==
    ASSUME NEW S, NEW x \in 0..7, x \notin S
    PROVE  /\ LengthCount(S \union {x}) = LengthCount(S) + LengthsOf(x)
           /\ EnvelopeCount(S \union {x}) = EnvelopeCount(S) + EnvelopesOf(x)
           /\ SweepCount(S \union {x}) = SweepCount(S) + SweepsOf(x)
           /\ LengthCount(S) \in Nat /\ EnvelopeCount(S) \in Nat
           /\ SweepCount(S) \in Nat /\ (SweepsOf(x) = 1 => SweepCount(S) \in {0, 1})
<1>1. x \in {0, 1, 2, 3, 4, 5, 6, 7}
  OBVIOUS
<1>2. LengthCount(S) \in Nat /\ EnvelopeCount(S) \in Nat
  BY DEF LengthCount, EnvelopeCount
<1>3. EnvelopeCount(S \union {x}) = EnvelopeCount(S) + EnvelopesOf(x)
  BY DEF EnvelopeCount, EnvelopesOf
<1>4. LengthCount(S \union {x}) = LengthCount(S) + LengthsOf(x)
  <2>1. CASE x = 0
    BY <2>1 DEF LengthCount, LengthsOf
  <2>2. CASE x = 2
    BY <2>2 DEF LengthCount, LengthsOf
  <2>3. CASE x = 4
    BY <2>3 DEF LengthCount, LengthsOf
  <2>4. CASE x = 6
    BY <2>4 DEF LengthCount, LengthsOf
  <2>5. CASE x \in {1, 3, 5, 7}
    BY <2>5 DEF LengthCount, LengthsOf
  <2> QED  BY <1>1, <2>1, <2>2, <2>3, <2>4, <2>5
<1>5. SweepCount(S \union {x}) = SweepCount(S) + SweepsOf(x)
  <2>1. CASE x = 2
    BY <2>1 DEF SweepCount, SweepsOf
  <2>2. CASE x = 6
    BY <2>2 DEF SweepCount, SweepsOf
  <2>3. CASE x \notin {2, 6}
    BY <2>3 DEF SweepCount, SweepsOf
  <2> QED  BY <2>1, <2>2, <2>3
<1>6. SweepCount(S) \in Nat /\ (SweepsOf(x) = 1 => SweepCount(S) \in {0, 1})
  BY DEF SweepCount, SweepsOf
<1> QED  BY <1>2, <1>3, <1>4, <1>5, <1>6

(* From s to t the channel has met the frames of S.                        *)
Clocked(c, s, t, S) ==
    /\ Channel(t) /\ Fades(s, t)
    /\ \A n \in NoteSet, l \in Nat, e \in Nat, w \in Nat, f \in Nat :
         Sounds(c, n, l, e, w, f, s) =>
           Sounds(c, n, l + LengthCount(S), e + EnvelopeCount(S), w + SweepCount(S),
                  Glide(c, n, w, f, SweepCount(S)), t)

GlidesOn(c, n, w, f, S, x) ==
    /\ Glide(c, n, w, f, SweepCount(S)) \in Nat
    /\ Glide(c, n, w, f, SweepCount(S \union {x})) =
         Glide(c, n, w + SweepCount(S), Glide(c, n, w, f, SweepCount(S)), SweepsOf(x))

LEMMA GlideGrows ==
    ASSUME NEW c, NEW n \in NoteSet, NEW w \in Nat, NEW f \in Nat,
           NEW S, NEW x \in 0..7, x \notin S
    PROVE  GlidesOn(c, n, w, f, S, x)
<1> DEFINE m == SweepCount(S)
           g == Glide(c, n, w, f, m)
<1>1. /\ m \in {0, 1, 2} /\ SweepsOf(x) \in {0, 1}
      /\ SweepCount(S \union {x}) = m + SweepsOf(x)
      /\ SweepsOf(x) = 1 => m \in {0, 1}
  BY CountsGrow DEF SweepCount, SweepsOf
<1> HIDE DEF m
<1>2. g \in Nat
  <2>1. CASE m \in {0, 1}
    BY <2>1, GlideIs
  <2>2. CASE m = 2
    <3>1. Glide(c, n, w, f, 1 + 1) \in Nat
      BY GlideIs
    <3> QED  BY <2>2, <3>1
  <2> QED  BY <1>1, <2>1, <2>2
<1>3. Glide(c, n, w, f, m + SweepsOf(x)) = Glide(c, n, w + m, g, SweepsOf(x))
  <2>1. CASE SweepsOf(x) = 0
    <3>1. Glide(c, n, w + m, g, 0) = g
      BY DEF Glide
    <3>2. m + 0 = m
      BY <1>1
    <3> QED  BY <2>1, <3>1, <3>2
  <2>2. CASE SweepsOf(x) = 1
    <3>1. m \in {0, 1}
      BY <1>1, <2>2
    <3>2. Glide(c, n, w, f, m + 1) = Swept(c, n, w + m, g)
      BY <3>1, GlideIs
    <3> HIDE DEF g
    <3>3. Glide(c, n, w + m, g, 1) = Swept(c, n, w + m, g)
      BY DEF Glide
    <3> QED  BY <2>2, <3>2, <3>3
  <2> QED  BY <1>1, <2>1, <2>2
<1> QED  BY <1>1, <1>2, <1>3 DEF GlidesOn, m

LEMMA ClockedOnce ==
    ASSUME NEW c, NEW s, NEW t, NEW S, NEW step \in 0..7, step \notin S,
           Clocked(c, s, t, S)
    PROVE  Clocked(c, s, ClockFrame(step, c, t), S \union {step})
<1> DEFINE u == ClockFrame(step, c, t)
<1>1. /\ LengthCount(S \union {step}) = LengthCount(S) + LengthsOf(step)
      /\ EnvelopeCount(S \union {step}) = EnvelopeCount(S) + EnvelopesOf(step)
      /\ LengthCount(S) \in Nat /\ EnvelopeCount(S) \in Nat
      /\ LengthsOf(step) \in Nat /\ EnvelopesOf(step) \in Nat
      /\ SweepCount(S \union {step}) = SweepCount(S) + SweepsOf(step)
      /\ SweepCount(S) \in Nat /\ SweepsOf(step) \in Nat
  BY CountsGrow DEF LengthsOf, EnvelopesOf, SweepsOf
<1>2. /\ Channel(u) /\ Fades(t, u)
      /\ \A n \in NoteSet, l \in Nat, e \in Nat, w \in Nat, f \in Nat :
           Sounds(c, n, l, e, w, f, t) =>
             Sounds(c, n, l + LengthsOf(step), e + EnvelopesOf(step), w + SweepsOf(step),
                    Glide(c, n, w, f, SweepsOf(step)), u)
  BY FrameClock DEF Clocked
<1> HIDE DEF u
<1>3. Fades(s, u)
  BY <1>2, FadesTwice DEF Clocked
<1>4. ASSUME NEW n \in NoteSet, NEW l \in Nat, NEW e \in Nat,
             NEW w \in Nat, NEW f \in Nat, Sounds(c, n, l, e, w, f, s)
      PROVE  Sounds(c, n, l + LengthCount(S \union {step}),
                    e + EnvelopeCount(S \union {step}), w + SweepCount(S \union {step}),
                    Glide(c, n, w, f, SweepCount(S \union {step})), u)
  <2>0. /\ Glide(c, n, w, f, SweepCount(S)) \in Nat
        /\ Glide(c, n, w, f, SweepCount(S \union {step})) =
             Glide(c, n, w + SweepCount(S), Glide(c, n, w, f, SweepCount(S)), SweepsOf(step))
    <3>1. GlidesOn(c, n, w, f, S, step)
      BY GlideGrows
    <3> QED  BY <3>1 DEF GlidesOn
  <2> DEFINE l1 == l + LengthCount(S)
             e1 == e + EnvelopeCount(S)
             w1 == w + SweepCount(S)
             f1 == Glide(c, n, w, f, SweepCount(S))
  <2>1. Sounds(c, n, l1, e1, w1, f1, t) /\ l1 \in Nat /\ e1 \in Nat /\ w1 \in Nat
    <3>1. l1 \in Nat /\ e1 \in Nat /\ w1 \in Nat
      BY <1>1
    <3>2. \A k \in NoteSet, a \in Nat, b \in Nat, v \in Nat, g \in Nat :
            Sounds(c, k, a, b, v, g, s) =>
              Sounds(c, k, a + LengthCount(S), b + EnvelopeCount(S), v + SweepCount(S),
                     Glide(c, k, v, g, SweepCount(S)), t)
      BY DEF Clocked
    <3> QED  BY <1>4, <3>1, <3>2
  <2>2. /\ l1 + LengthsOf(step) = l + LengthCount(S \union {step})
        /\ e1 + EnvelopesOf(step) = e + EnvelopeCount(S \union {step})
        /\ w1 + SweepsOf(step) = w + SweepCount(S \union {step})
    BY <1>1
  <2>3. /\ f1 \in Nat
        /\ Glide(c, n, w, f, SweepCount(S \union {step})) = Glide(c, n, w1, f1, SweepsOf(step))
    BY <2>0
  <2> HIDE DEF l1, e1, w1, f1
  <2>4. Sounds(c, n, l1 + LengthsOf(step), e1 + EnvelopesOf(step), w1 + SweepsOf(step),
               Glide(c, n, w1, f1, SweepsOf(step)), u)
    BY <1>2, <2>1, <2>3
  <2> QED  BY <2>2, <2>3, <2>4
<1> QED  BY <1>2, <1>3, <1>4 DEF Clocked, u

LEMMA ClockedNever ==
    ASSUME NEW c, NEW s, Channel(s)
    PROVE  Clocked(c, s, s, {})
<1>1. LengthCount({}) = 0 /\ EnvelopeCount({}) = 0 /\ SweepCount({}) = 0
  BY DEF LengthCount, EnvelopeCount, SweepCount
<1>2. \A n, w, f : Glide(c, n, w, f, 0) = f
  BY DEF Glide
<1> QED  BY <1>1, <1>2 DEF Clocked, Fades

(* Frames is a recursion over the frames.                                  *)
Run(run, first, n, c, s) ==
    /\ Frames(first, n, c, s) = run[n]
    /\ \A k \in 0..n :
         run[k] = IF k = 0 THEN s ELSE ClockFrame((first + k - 1) % 8, c, run[k - 1])

LEMMA FramesRule ==
    ASSUME NEW first, NEW n \in Nat, NEW c, NEW s
    PROVE  \E run : Run(run, first, n, c, s)
<1> DEFINE Next(k, x) == ClockFrame((first + k - 1) % 8, c, x)
           Rec(f) == f = [k \in 0..n |-> IF k = 0 THEN s ELSE Next(k, f[k - 1])]
           Is(f, m) == f = [k \in 0..m |-> IF k = 0 THEN s ELSE Next(k, f[k - 1])]
           S == {m \in Nat : m <= n => \E f : Is(f, m)}
<1>1. Frames(first, n, c, s) = (CHOOSE f : Rec(f))[n]
  BY DEF Frames
<1> HIDE DEF Next
<1>2. 0 \in S
  <2>1. Is([k \in 0..0 |-> s], 0)
    OBVIOUS
  <2> QED  BY <2>1
<1>3. ASSUME NEW m \in Nat, m \in S PROVE m + 1 \in S
  <2>1. SUFFICES ASSUME m + 1 <= n PROVE \E f : Is(f, m + 1)
    OBVIOUS
  <2>2. PICK f : Is(f, m)
    BY <1>3, <2>1
  <2> DEFINE g == [k \in 0..(m + 1) |-> IF k <= m THEN f[k] ELSE Next(m + 1, f[m])]
  <2>3. /\ \A k \in 0..m : g[k] = f[k]
        /\ g[m + 1] = Next(m + 1, f[m])
        /\ g = [k \in 0..(m + 1) |-> g[k]]
    OBVIOUS
  <2> HIDE DEF g
  <2>4. ASSUME NEW k \in 0..(m + 1)
        PROVE  g[k] = IF k = 0 THEN s ELSE Next(k, g[k - 1])
    <3>1. CASE k = 0
      <4>1. 0 \in 0..m
        OBVIOUS
      <4>2. g[0] = f[0]
        BY <2>3, <4>1
      <4>3. f[0] = s
        BY <2>2, <4>1
      <4> QED  BY <3>1, <4>2, <4>3
    <3>2. CASE k \in 1..m
      <4>1. k \in 0..m /\ k - 1 \in 0..m /\ k # 0
        BY <3>2
      <4>2. g[k] = f[k] /\ g[k - 1] = f[k - 1] /\ f[k] = Next(k, f[k - 1])
        BY <2>2, <2>3, <4>1
      <4> QED  BY <4>1, <4>2
    <3>3. CASE k = m + 1
      <4>1. k # 0 /\ k - 1 = m /\ m \in 0..m
        BY <3>3
      <4>2. g[m] = f[m]
        BY <2>3, <4>1
      <4> QED  BY <2>3, <3>3, <4>1, <4>2
    <3> QED  BY <3>1, <3>2, <3>3
  <2>5. Is(g, m + 1)
    BY <2>3, <2>4
  <2> QED  BY <2>5
<1>4. n \in S
  <2> HIDE DEF S
  <2> QED  BY <1>2, <1>3, SetInduction
<1>5. PICK f : Rec(f)
  BY <1>4
<1> HIDE DEF Rec
<1>6. Rec(CHOOSE g : Rec(g))
  BY <1>5
<1> DEFINE r == CHOOSE g : Rec(g)
<1> HIDE DEF r
<1>7. \A k \in 0..n : r[k] = IF k = 0 THEN s ELSE Next(k, r[k - 1])
  BY <1>6 DEF Rec, r
<1>8. Frames(first, n, c, s) = r[n]
  BY <1>1 DEF r
<1> QED  BY <1>7, <1>8 DEF Next, Run

LEMMA FramesAre ==
    ASSUME NEW c, NEW s, Channel(s), NEW first \in 0..7, NEW n \in 0..8
    PROVE  Clocked(c, s, Frames(first, n, c, s), Steps(first, n))
<1>1. PICK run : Run(run, first, n, c, s)
  BY FramesRule
<1> DEFINE P(k) == Clocked(c, s, run[k], Steps(first, k))
           S == {k \in Nat : k <= n => P(k)}
<1>2. P(0)
  <2>1. run[0] = s
    BY <1>1 DEF Run
  <2>2. Steps(first, 0) = {}
    BY DEF Steps
  <2> QED  BY <2>1, <2>2, ClockedNever
<1>3. ASSUME NEW k \in Nat, k + 1 <= n, P(k) PROVE P(k + 1)
  <2>1. /\ k \in 0..7 /\ k + 1 \in 0..n /\ k + 1 # 0 /\ k + 1 - 1 = k
        /\ first + (k + 1) - 1 = first + k
    BY <1>3
  <2>2. run[k + 1] = ClockFrame((first + k) % 8, c, run[k])
    BY <1>1, <2>1 DEF Run
  <2>3. /\ (first + k) % 8 \in 0..7
        /\ Steps(first, k + 1) = Steps(first, k) \union {(first + k) % 8}
        /\ (first + k) % 8 \notin Steps(first, k)
    BY <2>1, StepsGrow
  <2> DEFINE x == (first + k) % 8
  <2> HIDE DEF x
  <2>4. /\ run[k + 1] = ClockFrame(x, c, run[k]) /\ x \in 0..7
        /\ Steps(first, k + 1) = Steps(first, k) \union {x}
        /\ x \notin Steps(first, k)
    BY <2>2, <2>3 DEF x
  <2>5. Clocked(c, s, run[k], Steps(first, k))
    BY <1>3
  <2>6. Clocked(c, s, ClockFrame(x, c, run[k]), Steps(first, k) \union {x})
    BY <2>4, <2>5, ClockedOnce
  <2> QED  BY <2>4, <2>6
<1> HIDE DEF P
<1>4. 0 \in S
  BY <1>2
<1>5. ASSUME NEW k \in Nat, k \in S PROVE k + 1 \in S
  BY <1>3, <1>5
<1> HIDE DEF S
<1>6. n \in S
  BY <1>4, <1>5, SetInduction
<1> QED  BY <1>1, <1>6 DEF S, P, Run

(***************************************************************************)
(* The noise register.                                                     *)
(***************************************************************************)
LEMMA ShiftedIs ==
    ASSUME NEW x \in Nat, x <= LastNoise, NEW short \in BOOLEAN
    PROVE  /\ Shifted(x, short) \in Nat /\ Shifted(x, short) <= LastNoise
           /\ Shifted(x, short) = 0 <=> (x = 0 \/ (short /\ x = 128))
<1> DEFINE h == x \div 2
           bit == (x + h) % 2
           long == h + bit * 16384
           sixth == (long \div 64) % 2
<1>1. LastNoise = 32767
  BY DEF LastNoise
<1>2. h \in Nat /\ x \in {2 * h, 2 * h + 1} /\ h < 16384
  BY <1>1
<1>3. bit \in {0, 1} /\ (bit = 0 <=> (x + h) % 2 = 0)
  BY <1>2
<1>4. Shifted(x, short) = IF short THEN long - sixth * 64 + bit * 64 ELSE long
  BY DEF Shifted
<1> HIDE DEF h
<1>5. x = 1 => bit = 1
  <2>1. x = 1 => h = 0
    BY <1>2
  <2> QED  BY <2>1
<1>6. x = 129 => bit = 1
  <2>1. x = 129 => h = 64
    BY <1>2
  <2> QED  BY <2>1
<1>7. (x = 128 => h = 64 /\ bit = 0) /\ (x = 0 => h = 0 /\ bit = 0)
  <2>1. (x = 128 => h = 64) /\ (x = 0 => h = 0)
    BY <1>2
  <2> QED  BY <2>1
<1> HIDE DEF bit
<1>8. /\ long \in Nat /\ long <= LastNoise /\ (long = 0 <=> h = 0 /\ bit = 0)
      /\ bit = 0 => long = h
      /\ bit = 1 => long = h + 16384
  BY <1>1, <1>2, <1>3
<1> HIDE DEF long
<1>9. /\ sixth \in {0, 1} /\ sixth * 64 <= long
      /\ (long = 64 => sixth = 1) /\ (long = 0 => sixth = 0)
      /\ long - sixth * 64 = 0 <=> long \in {0, 64}
      /\ sixth = 0 => long + 64 <= LastNoise
  BY <1>1, <1>8
<1> HIDE DEF sixth
<1>10. CASE ~short
  <2>1. Shifted(x, short) = long
    BY <1>4, <1>10
  <2>2. long = 0 <=> x = 0
    BY <1>2, <1>5, <1>7, <1>8
  <2> QED  BY <1>8, <1>10, <2>1, <2>2
<1>11. CASE short
  <2> DEFINE y == long - sixth * 64 + bit * 64
  <2>1. y \in Nat /\ y <= LastNoise
    BY <1>1, <1>3, <1>8, <1>9
  <2>2. y = 0 <=> bit = 0 /\ long \in {0, 64}
    BY <1>3, <1>8, <1>9
  <2>3. bit = 0 /\ long \in {0, 64} <=> x = 0 \/ x = 128
    <3>1. ASSUME bit = 0, long \in {0, 64} PROVE x = 0 \/ x = 128
      <4>1. h \in {0, 64}
        BY <1>8, <3>1
      <4>2. x \in {0, 1, 128, 129}
        BY <1>2, <4>1
      <4> QED  BY <1>5, <1>6, <3>1, <4>2
    <3>2. ASSUME x = 0 \/ x = 128 PROVE bit = 0 /\ long \in {0, 64}
      BY <1>7, <1>8, <3>2
    <3> QED  BY <3>1, <3>2
  <2> QED  BY <1>4, <1>11, <2>1, <2>2, <2>3
<1> QED  BY <1>10, <1>11

(***************************************************************************)
(* The invariant of the sound: every channel that has heard a note has     *)
(* come exactly as far in it as the clocks since its trigger.              *)
(***************************************************************************)
Played(p) ==
    /\ DOMAIN p = {"note", "heard", "lengths", "envelopes", "sweeps", "freq"}
    /\ p.note \in NoteSet /\ p.heard \in BOOLEAN
    /\ p.lengths \in Nat /\ p.envelopes \in Nat /\ p.sweeps \in Nat /\ p.freq \in Nat
Hears(c, p, s) ==
    IF p.heard THEN Sounds(c, p.note, p.lengths, p.envelopes, p.sweeps, p.freq, s)
    ELSE ~s.enabled
ChannelsOK ==
    /\ DOMAIN ch = Channels /\ DOMAIN played = Channels
    /\ \A c \in Channels :
         Channel(ch[c]) /\ Played(played[c]) /\ Hears(c, played[c], ch[c])
RegistersOK ==
    /\ DOMAIN reg = {"power", "status", "shown", "notes", "trigger"}
    /\ DOMAIN reg.notes = Channels
    /\ \A c \in Channels : reg.notes[c] \in NoteSet
    /\ reg.shown => reg.status = {c \in Channels : ch[c].enabled}
SequencerOK ==
    /\ sequencer.step \in 0..7
    /\ sequencer.counter \in Nat /\ sequencer.counter < Period
NoiseOK ==
    /\ lfsr \in Nat /\ lfsr <= LastNoise /\ narrowed \in BOOLEAN
    /\ lfsr = 0 <=> narrowed
SoundIInv == ChannelsOK /\ RegistersOK /\ SequencerOK /\ NoiseOK

LEMMA SoundInitially == ApuInit => SoundIInv
<1> SUFFICES ASSUME ApuInit PROVE SoundIInv
  OBVIOUS
<1>1. NoNote \in NoteSet
  BY DEF NoNote, NoteSet, LastLength, LastFrequency
<1>2. /\ ch = [c \in Channels |-> Silent]
      /\ reg = [power |-> FALSE, status |-> {}, shown |-> TRUE,
                notes |-> [c \in Channels |-> NoNote], trigger |-> {}]
      /\ played = [c \in Channels |-> [note |-> NoNote, heard |-> FALSE, lengths |-> 0,
                                       envelopes |-> 0, sweeps |-> 0, freq |-> 0]]
      /\ sequencer = [step |-> 0, counter |-> 0]
      /\ lfsr \in NoiseRegisters /\ narrowed = FALSE
  BY DEF ApuInit
<1>3. ChannelsOK
  <2>1. DOMAIN ch = Channels /\ DOMAIN played = Channels
    BY <1>2
  <2>2. ASSUME NEW c \in Channels
        PROVE  Channel(ch[c]) /\ Played(played[c]) /\ Hears(c, played[c], ch[c])
    <3>1. ch[c] = Silent
          /\ played[c] = [note |-> NoNote, heard |-> FALSE, lengths |-> 0,
                          envelopes |-> 0, sweeps |-> 0, freq |-> 0]
      BY <1>2
    <3> QED  BY <1>1, <3>1, SilentIs DEF Played, Hears
  <2> QED  BY <2>1, <2>2 DEF ChannelsOK
<1>4. RegistersOK
  <2>1. \A c \in Channels : ~ch[c].enabled
    BY <1>2, SilentIs
  <2> QED  BY <1>1, <1>2, <2>1 DEF RegistersOK
<1>5. SequencerOK
  BY <1>2 DEF SequencerOK, Period
<1>6. NoiseOK
  <2>1. \A x \in NoiseRegisters : x \in Nat /\ x <= LastNoise /\ x # 0
    <3>1. LastNoise \in Nat
      BY DEF LastNoise
    <3> QED  BY <3>1, SoundAssumption
  <2> QED  BY <1>2, <2>1 DEF NoiseOK
<1> QED  BY <1>3, <1>4, <1>5, <1>6 DEF SoundIInv

LEMMA PlayKeeps ==
    ASSUME SoundIInv, NEW c \in Channels, NEW n \in Notes, Play(c, n)
    PROVE  SoundIInv'
<1>1. n \in NoteSet
  BY SoundAssumption
<1>2. /\ reg' = [reg EXCEPT !.notes[c] = n, !.trigger = @ \union {c}]
      /\ UNCHANGED <<ch, sequencer, lfsr, narrowed, played>>
  BY DEF Play
<1>3. /\ DOMAIN reg' = {"power", "status", "shown", "notes", "trigger"}
      /\ reg'.shown = reg.shown /\ reg'.status = reg.status /\ reg'.notes = [reg.notes EXCEPT ![c] = n]
  BY <1>2 DEF SoundIInv, RegistersOK
<1>4. RegistersOK'
  BY <1>1, <1>2, <1>3 DEF SoundIInv, RegistersOK
<1>5. ChannelsOK' /\ SequencerOK' /\ NoiseOK'
  BY <1>2 DEF SoundIInv, ChannelsOK, SequencerOK, NoiseOK
<1> QED  BY <1>4, <1>5 DEF SoundIInv

LEMMA PowerKeeps ==
    ASSUME SoundIInv, NEW on \in BOOLEAN, NEW bits \in SUBSET Channels, SetPower(on, bits)
    PROVE  SoundIInv'
<1>1. /\ reg' = [reg EXCEPT !.power = on, !.status = bits, !.shown = FALSE]
      /\ UNCHANGED <<ch, sequencer, lfsr, narrowed, played>>
  BY DEF SetPower
<1>2. /\ DOMAIN reg' = {"power", "status", "shown", "notes", "trigger"}
      /\ reg'.shown = FALSE /\ reg'.notes = reg.notes
  BY <1>1 DEF SoundIInv, RegistersOK
<1> QED  BY <1>1, <1>2 DEF SoundIInv, ChannelsOK, RegistersOK, SequencerOK, NoiseOK

LEMMA NoiseKeeps ==
    ASSUME SoundIInv, NEW short \in BOOLEAN, Noise(short)
    PROVE  SoundIInv'
<1>1. /\ lfsr' = Shifted(lfsr, short) /\ narrowed' = (narrowed \/ (short /\ lfsr = 128))
      /\ UNCHANGED <<reg, ch, sequencer, played>>
  BY DEF Noise
<1>2. NoiseOK'
  BY <1>1, ShiftedIs DEF SoundIInv, NoiseOK
<1> QED  BY <1>1, <1>2 DEF SoundIInv, ChannelsOK, RegistersOK, SequencerOK

LEMMA TriggerIsHeard ==
    ASSUME NEW c, NEW n \in NoteSet
    PROVE  LET p == [note |-> n, heard |-> TRUE, lengths |-> 0, envelopes |-> 0,
                     sweeps |-> 0, freq |-> n.freq]
           IN  Played(p) /\ Hears(c, p, Triggered(c, n))
<1> DEFINE p == [note |-> n, heard |-> TRUE, lengths |-> 0, envelopes |-> 0,
                 sweeps |-> 0, freq |-> n.freq]
           s == Triggered(c, n)
<1>1. /\ s.limited = n.limited /\ s.period = n.period /\ s.up = n.up
      /\ s.falling = n.falling /\ s.length = LengthOf(c, n) /\ s.enabled
      /\ s.volume = n.volume /\ s.timer = IF n.period = 0 THEN 8 ELSE n.period
      /\ s.sweepPeriod = n.sweepPeriod /\ s.sweepShift = n.sweepShift /\ s.shadow = n.freq
      /\ s.sweepTimer = IF n.sweepPeriod = 0 THEN 8 ELSE n.sweepPeriod
  BY DEF Triggered
<1> HIDE DEF s
<1>2. /\ n.volume \in 0..15 /\ n.period \in 0..7 /\ n.up \in BOOLEAN
      /\ n.sweepPeriod \in 0..7 /\ n.freq \in Nat
  <2>1. n.freq \in 0..LastFrequency
    BY DEF NoteSet
  <2>2. n.freq \in Nat
    BY <2>1
  <2> QED  BY <2>2 DEF NoteSet
<1>3. LengthOf(c, n) \in Nat \ {0}
  BY LengthIs
<1>4. /\ n.period # 0 => 0 \div n.period = 0 /\ 0 % n.period = 0
      /\ n.sweepPeriod # 0 => 0 % n.sweepPeriod = 0
  BY <1>2
<1>5. Loudness(n, 0) = n.volume
  BY <1>2, <1>4 DEF Loudness
<1>6. Sounds(c, n, 0, 0, 0, n.freq, s)
  BY <1>1, <1>2, <1>3, <1>4, <1>5 DEF Sounds
<1>7. Hears(c, p, s)
  BY <1>6 DEF Hears
<1>8. Played(p)
  BY <1>2 DEF Played
<1> QED  BY <1>7, <1>8 DEF s

(* The channel at the end of a step without a trigger.                     *)
LEMMA ClockedIsHeard ==
    ASSUME NEW c, NEW p, Played(p), NEW s, Channel(s), Hears(c, p, s),
           NEW t, NEW S, Clocked(c, s, t, S),
           NEW q, q = [p EXCEPT !.lengths = @ + LengthCount(S),
                                !.envelopes = @ + EnvelopeCount(S),
                                !.sweeps = @ + SweepCount(S),
                                !.freq = Glide(c, p.note, p.sweeps, @, SweepCount(S))]
    PROVE  Played(q) /\ Hears(c, q, t)
<1>1. LengthCount(S) \in Nat /\ EnvelopeCount(S) \in Nat /\ SweepCount(S) \in {0, 1, 2}
  BY DEF LengthCount, EnvelopeCount, SweepCount
<1>2. /\ DOMAIN q = DOMAIN p /\ q.note = p.note /\ q.heard = p.heard
      /\ q.lengths = p.lengths + LengthCount(S)
      /\ q.envelopes = p.envelopes + EnvelopeCount(S)
      /\ q.sweeps = p.sweeps + SweepCount(S)
      /\ q.freq = Glide(c, p.note, p.sweeps, p.freq, SweepCount(S))
  BY DEF Played
<1>3. p.note \in NoteSet /\ p.sweeps \in Nat /\ p.freq \in Nat
  BY DEF Played
<1>4. q.freq \in Nat
  <2> DEFINE m == SweepCount(S)
  <2>1. CASE m \in {0, 1}
    BY <1>2, <1>3, <2>1, GlideIs
  <2>2. CASE m = 2
    <3>1. Glide(c, p.note, p.sweeps, p.freq, 1 + 1) \in Nat
      BY <1>3, GlideIs
    <3> QED  BY <1>2, <2>2, <3>1
  <2> QED  BY <1>1, <2>1, <2>2
<1>5. Played(q)
  BY <1>1, <1>2, <1>4 DEF Played
<1>6. ASSUME q.heard PROVE Hears(c, q, t)
  <2>1. Sounds(c, p.note, p.lengths, p.envelopes, p.sweeps, p.freq, s)
    BY <1>2, <1>6 DEF Hears
  <2>2. Sounds(c, p.note, q.lengths, q.envelopes, q.sweeps, q.freq, t)
    <3>1. \A k \in NoteSet, a \in Nat, b \in Nat, v \in Nat, g \in Nat :
            Sounds(c, k, a, b, v, g, s) =>
              Sounds(c, k, a + LengthCount(S), b + EnvelopeCount(S), v + SweepCount(S),
                     Glide(c, k, v, g, SweepCount(S)), t)
      BY DEF Clocked
    <3>2. p.lengths \in Nat /\ p.envelopes \in Nat
      BY DEF Played
    <3>3. Sounds(c, p.note, p.lengths + LengthCount(S), p.envelopes + EnvelopeCount(S),
                 p.sweeps + SweepCount(S),
                 Glide(c, p.note, p.sweeps, p.freq, SweepCount(S)), t)
      BY <1>3, <2>1, <3>1, <3>2
    <3> QED  BY <1>2, <3>3
  <2> QED  BY <1>2, <1>6, <2>2 DEF Hears
<1>7. ASSUME ~q.heard PROVE Hears(c, q, t)
  <2>1. ~p.heard
    BY <1>2, <1>7
  <2>2. ~s.enabled
    BY <2>1 DEF Hears
  <2>3. ~t.enabled
    BY <2>2 DEF Clocked, Fades
  <2>4. q.heard = FALSE
    BY <1>2, <2>1 DEF Played
  <2> QED  BY <2>3, <2>4 DEF Hears
<1> QED  BY <1>5, <1>6, <1>7

LEMMA FrameNumber ==
    ASSUME SequencerOK, NEW cycles \in Nat, cycles <= 8 * Period
    PROVE  /\ (sequencer.counter + cycles) \div Period \in 0..8
           /\ (sequencer.counter + cycles) % Period \in Nat
           /\ (sequencer.counter + cycles) % Period < Period
<1> DEFINE x == sequencer.counter + cycles
           q == x \div Period
           r == x % Period
<1>1. Period = 8192
  BY DEF Period
<1>2. x \in Nat /\ x < 9 * Period
  BY <1>1 DEF SequencerOK
<1>3. q \in Nat /\ r \in Nat /\ r < Period /\ x = Period * q + r
  <2>1. Period \in Nat \ {0}
    BY <1>1
  <2> HIDE DEF x
  <2>2. q \in Nat /\ r \in 0..(Period - 1)
    BY <1>2, <2>1, DivNext
  <2>3. x = Period * q + r
    BY <1>2, <2>1, DivIs
  <2> QED  BY <2>1, <2>2, <2>3
<1> HIDE DEF q, r, x
<1>4. q <= 8
  BY <1>1, <1>2, <1>3
<1> QED  BY <1>3, <1>4 DEF q, r, x

LEMMA StepApuKeeps ==
    ASSUME SoundIInv, NEW cycles \in Spans, StepApu(cycles)
    PROVE  SoundIInv'
<1> DEFINE n == (sequencer.counter + cycles) \div Period
           S == Steps(sequencer.step, n)
           t == [c \in Channels |-> Frames(sequencer.step, n, c, ch[c])]
           Counted(c) ==
             [played[c] EXCEPT !.lengths = @ + LengthCount(S),
                               !.envelopes = @ + EnvelopeCount(S),
                               !.sweeps = @ + SweepCount(S),
                               !.freq = Glide(c, played[c].note, played[c].sweeps, @,
                                              SweepCount(S))]
           Begun(c) == [note |-> reg.notes[c], heard |-> TRUE, lengths |-> 0,
                        envelopes |-> 0, sweeps |-> 0, freq |-> reg.notes[c].freq]
<1>1. cycles \in Nat /\ cycles <= 8 * Period
  BY SoundAssumption
<1>2. /\ n \in 0..8 /\ sequencer.step \in 0..7
      /\ (sequencer.counter + cycles) % Period \in Nat
      /\ (sequencer.counter + cycles) % Period < Period
  BY <1>1, FrameNumber DEF SoundIInv, SequencerOK
<1>3. /\ sequencer' = [step |-> (sequencer.step + n) % 8,
                       counter |-> (sequencer.counter + cycles) % Period]
      /\ ch' = [c \in Channels |-> IF c \in reg.trigger THEN Triggered(c, reg.notes[c])
                                   ELSE t[c]]
      /\ reg' = [reg EXCEPT !.trigger = {}, !.shown = TRUE,
                           !.status = {c \in Channels : ch'[c].enabled}]
      /\ UNCHANGED <<lfsr, narrowed>>
  BY DEF StepApu
<1>4. played' = [c \in Channels |-> IF c \in reg.trigger THEN Begun(c) ELSE Counted(c)]
  BY DEF StepApu
<1>5. SequencerOK'
  <2> HIDE DEF n
  <2>1. (sequencer.step + n) % 8 \in 0..7
    BY <1>2
  <2> QED  BY <1>2, <1>3, <2>1 DEF SequencerOK
<1>6. \A c \in Channels : Clocked(c, ch[c], t[c], S)
  <2> HIDE DEF n
  <2> SUFFICES ASSUME NEW c \in Channels PROVE Clocked(c, ch[c], t[c], S)
    OBVIOUS
  <2>1. Channel(ch[c])
    BY DEF SoundIInv, ChannelsOK
  <2>2. Clocked(c, ch[c], Frames(sequencer.step, n, c, ch[c]), S)
    BY <1>2, <2>1, FramesAre
  <2> QED  BY <2>2
<1> HIDE DEF t, S
<1>7. \A c \in Channels : reg.notes[c] \in NoteSet
  BY DEF SoundIInv, RegistersOK
<1>8. ASSUME NEW c \in Channels
      PROVE  /\ Channel(ch'[c]) /\ Played(played'[c])
             /\ Hears(c, played'[c], ch'[c])
  <2>1. CASE c \in reg.trigger
    <3>1. ch'[c] = Triggered(c, reg.notes[c]) /\ played'[c] = Begun(c)
      BY <1>3, <1>4, <2>1
    <3>2. Channel(Triggered(c, reg.notes[c]))
      BY <1>7, TriggeredIs
    <3>3. Played(Begun(c)) /\ Hears(c, Begun(c), Triggered(c, reg.notes[c]))
      BY <1>7, TriggerIsHeard
    <3> QED  BY <3>1, <3>2, <3>3
  <2>2. CASE c \notin reg.trigger
    <3>1. ch'[c] = t[c] /\ played'[c] = Counted(c)
      BY <1>3, <1>4, <2>2
    <3>2. /\ Played(played[c]) /\ Channel(ch[c])
          /\ Hears(c, played[c], ch[c])
      BY DEF SoundIInv, ChannelsOK
    <3>3. Clocked(c, ch[c], t[c], S)
      BY <1>6
    <3> DEFINE q == Counted(c)
    <3>4. Played(q) /\ Hears(c, q, t[c])
      BY <3>2, <3>3, ClockedIsHeard
    <3>5. Channel(t[c])
      BY <3>3 DEF Clocked
    <3> HIDE DEF q
    <3> QED  BY <3>1, <3>4, <3>5 DEF q
  <2> QED  BY <2>1, <2>2
<1>9. ChannelsOK'
  BY <1>3, <1>4, <1>8 DEF ChannelsOK
<1>10. RegistersOK'
  <2>1. /\ DOMAIN reg' = DOMAIN reg /\ reg'.notes = reg.notes
        /\ reg'.status = {c \in Channels : ch'[c].enabled}
    BY <1>3 DEF SoundIInv, RegistersOK
  <2> QED  BY <2>1 DEF SoundIInv, RegistersOK
<1>11. NoiseOK'
  BY <1>3 DEF SoundIInv, NoiseOK
<1> QED  BY <1>5, <1>9, <1>10, <1>11 DEF SoundIInv

LEMMA SoundKept == SoundIInv /\ [ApuNext]_apuVars => SoundIInv'
<1> SUFFICES ASSUME SoundIInv, [ApuNext]_apuVars PROVE SoundIInv'
  OBVIOUS
<1>1. CASE UNCHANGED apuVars
  BY <1>1 DEF apuVars, SoundIInv, ChannelsOK, RegistersOK, SequencerOK, NoiseOK
<1> QED  BY <1>1, PlayKeeps, PowerKeeps, StepApuKeeps, NoiseKeeps DEF ApuNext

LEMMA SoundIsExact == SoundIInv => SoundExact
<1> SUFFICES ASSUME SoundIInv PROVE SoundExact
  OBVIOUS
<1>1. lfsr = 0 <=> narrowed
  BY DEF SoundIInv, NoiseOK
<1>2. reg.shown => reg.status = {c \in Channels : ch[c].enabled}
  BY DEF SoundIInv, RegistersOK
<1>3. ASSUME NEW c \in Channels, played[c].heard
      PROVE  LET p == played[c]
                 turns == IF p.note.period = 0 THEN 0 ELSE p.envelopes \div p.note.period
                 louder == IF p.note.up THEN p.note.volume + turns ELSE p.note.volume - turns
             IN  /\ ch[c].enabled <=>
                      /\ p.freq =< LastFrequency
                      /\ p.note.limited =>
                           p.lengths < (IF c = 3 THEN 256 - p.note.length ELSE 64 - (p.note.length % 64))
                 /\ ch[c].enabled => ch[c].shadow = p.freq
                 /\ c # 3 => ch[c].volume = (IF louder > 15 THEN 15 ELSE IF louder < 0 THEN 0 ELSE louder)
  <2> DEFINE p == played[c]
             s == ch[c]
             L == LengthOf(c, p.note)
  <2>1. Hears(c, p, s) /\ Played(p) /\ Channel(s)
    BY <1>3 DEF SoundIInv, ChannelsOK
  <2>2. L = IF c = 3 THEN 256 - p.note.length ELSE 64 - (p.note.length % 64)
    BY DEF LengthOf
  <2>3. L \in Nat \ {0} /\ p.lengths \in Nat /\ p.freq \in Nat /\ LastFrequency \in Nat
    BY <2>1, LengthIs DEF Played, LastFrequency
  <2>4. Sounds(c, p.note, p.lengths, p.envelopes, p.sweeps, p.freq, s)
    BY <1>3, <2>1 DEF Hears
  <2> HIDE DEF L
  <2>5. s.enabled <=> p.freq =< LastFrequency /\ (p.note.limited => p.lengths < L)
    <3>1. /\ p.note.limited /\ p.lengths >= L => ~s.enabled
          /\ ~s.enabled => p.freq > LastFrequency \/ (p.note.limited /\ p.lengths >= L)
          /\ s.enabled => s.shadow = p.freq
      BY <2>4 DEF Sounds, L
    <3>2. s.shadow <= LastFrequency
      BY <2>1, <2>3 DEF Channel
    <3> HIDE DEF p, s
    <3> QED  BY <2>3, <3>1, <3>2
  <2>6. s.enabled => s.shadow = p.freq
    BY <2>4 DEF Sounds
  <2>7. c # 3 => s.volume = Loudness(p.note, p.envelopes)
    BY <2>4 DEF Sounds
  <2> HIDE DEF p, s
  <2>8. s.enabled <=>
          /\ p.freq =< LastFrequency
          /\ p.note.limited =>
               p.lengths < (IF c = 3 THEN 256 - p.note.length ELSE 64 - (p.note.length % 64))
    BY <2>2, <2>5
  <2> QED  BY <2>6, <2>7, <2>8 DEF Loudness, p, s
<1>4. \A c \in Channels : ~played[c].heard => ~ch[c].enabled
  BY DEF SoundIInv, ChannelsOK, Hears
<1> QED  BY <1>1, <1>2, <1>3, <1>4 DEF SoundExact

(* Whatever notes the program plays over one another, whatever it stores   *)
(* in NR52, and however the CPU cuts the time into steps: a channel stops  *)
(* at the length clock its registers promised, its volume is where the     *)
(* envelope's clocks put it and its frequency where the sweep's do, only a *)
(* sweep over the last frequency ends it early, NR52 shows what sounds     *)
(* from every powered step to the next store to it, and the noise register *)
(* dies only by the change to the short mode at 128.                       *)
THEOREM SoundsAreExact == ApuSpec => []SoundExact
BY SoundInitially, SoundKept, SoundIsExact, PTL DEF ApuSpec

(***************************************************************************)
(* The place of the beam.                                                  *)
(***************************************************************************)
(* Line l, cycle c.                                                        *)
LEMMA PlaceIs ==
    ASSUME NEW l \in Nat, NEW c \in 0..(Line - 1)
    PROVE  /\ (Line * l + c) \div Line = l /\ (Line * l + c) % Line = c
           /\ (Line * l + c + Line - Drawn) \div Line = l + (IF c >= Drawn THEN 1 ELSE 0)
           /\ Line * l + c \in Nat
<1>1. Line \in Nat \ {0} /\ Drawn \in Nat /\ 0 < Drawn /\ Drawn < Line
  BY VideoAssumption
<1>2. (Line * l + c) \div Line = l /\ (Line * l + c) % Line = c
  BY <1>1, DivMod
<1>3. Line * l \in Nat /\ Line * (l + 1) = Line * l + Line
  BY <1>1
<1>4. CASE c >= Drawn
  <2>1. c - Drawn \in 0..(Line - 1) /\ l + 1 \in Int
    BY <1>1, <1>4
  <2>2. (Line * (l + 1) + (c - Drawn)) \div Line = l + 1
    BY <1>1, <2>1, DivMod
  <2>3. Line * l + c + Line - Drawn = Line * (l + 1) + (c - Drawn)
    BY <1>1, <1>3
  <2> QED  BY <1>1, <1>2, <1>3, <1>4, <2>2, <2>3
<1>5. CASE ~ (c >= Drawn)
  <2>1. c + Line - Drawn \in 0..(Line - 1)
    BY <1>1, <1>5
  <2>2. (Line * l + (c + Line - Drawn)) \div Line = l
    BY <1>1, <2>1, DivMod
  <2>3. Line * l + c + Line - Drawn = Line * l + (c + Line - Drawn)
    BY <1>1, <1>3
  <2> QED  BY <1>1, <1>2, <1>3, <1>5, <2>2, <2>3
<1> QED  BY <1>4, <1>5

(* The next line of the frame, and the frames' lines numbered line.        *)
LEMMA NextLineIs ==
    ASSUME NEW l \in Nat
    PROVE  /\ l % Lines \in 0..(Lines - 1)
           /\ (l + 1) % Lines = IF l % Lines = Lines - 1 THEN 0 ELSE (l % Lines) + 1
           /\ ((l % Lines) + 1) % Lines = (l + 1) % Lines
<1>1. Lines \in Nat \ {0, 1}
  BY VideoAssumption
<1>2. /\ l % Lines \in 0..(Lines - 1)
      /\ (l + 1) % Lines = IF l % Lines = Lines - 1 THEN 0 ELSE (l % Lines) + 1
  BY <1>1, DivNext
<1> DEFINE v == l % Lines
<1> HIDE DEF v
<1>3. v \in Nat /\ v < Lines
  BY <1>1, <1>2 DEF v
<1>4. (v + 1) % Lines = IF v = Lines - 1 THEN 0 ELSE v + 1
  <2>1. v % Lines = v
    <3>1. v = Lines * 0 + v /\ v \in 0..(Lines - 1)
      BY <1>1, <1>3
    <3>2. (Lines * 0 + v) % Lines = v
      BY <1>1, <3>1, DivMod
    <3> QED  BY <3>1, <3>2
  <2> QED  BY <1>1, <1>3, <2>1, DivNext
<1> QED  BY <1>2, <1>4 DEF v

LEMMA StartingIs ==
    ASSUME NEW l \in Nat, NEW line \in 0..(Lines - 1)
    PROVE  /\ Starting(line, l) \in Int
           /\ Starting(line, l + 1) =
                Starting(line, l) + (IF (l + 1) % Lines = line THEN 1 ELSE 0)
<1>1. Lines \in Nat \ {0, 1}
  BY VideoAssumption
<1> DEFINE x == l + Lines - line
           f == l \div Lines
           v == l % Lines
<1>2. x \in Nat /\ (l + 1) + Lines - line = x + 1
  BY <1>1
<1>3. /\ x \div Lines \in Nat
      /\ (x + 1) \div Lines = (x \div Lines) + (IF x % Lines = Lines - 1 THEN 1 ELSE 0)
  <2> HIDE DEF x
  <2> QED  BY <1>1, <1>2, DivNext
<1>4. f \in Int /\ v \in 0..(Lines - 1) /\ l = Lines * f + v
  BY <1>1, DivIs
<1>5. (l + 1) % Lines = IF v = Lines - 1 THEN 0 ELSE v + 1
  BY NextLineIs
<1> HIDE DEF f, v
<1>6. x % Lines = IF v >= line THEN v - line ELSE v + Lines - line
  <2>1. CASE v >= line
    <3>1. Lines * (f + 1) = Lines * f + Lines /\ Lines * f \in Int
      BY <1>1, <1>4
    <3>2. x = Lines * (f + 1) + (v - line)
      BY <1>1, <1>4, <3>1
    <3>3. v - line \in 0..(Lines - 1) /\ f + 1 \in Int
      BY <1>1, <1>4, <2>1
    <3> HIDE DEF x
    <3> QED  BY <1>1, <2>1, <3>2, <3>3, DivMod
  <2>2. CASE ~ (v >= line)
    <3>1. Lines * f \in Int
      BY <1>1, <1>4
    <3>2. x = Lines * f + (v + Lines - line)
      BY <1>1, <1>4, <3>1
    <3>3. v + Lines - line \in 0..(Lines - 1)
      BY <1>1, <1>4, <2>2
    <3> HIDE DEF x
    <3> QED  BY <1>1, <1>4, <2>2, <3>2, <3>3, DivMod
  <2> QED  BY <2>1, <2>2
<1> DEFINE y == x % Lines
<1> HIDE DEF y
<1>7. y = Lines - 1 <=> (l + 1) % Lines = line
  BY <1>1, <1>4, <1>5, <1>6 DEF y
<1> HIDE DEF x
<1> QED  BY <1>2, <1>3, <1>7 DEF Starting, x, y

(***************************************************************************)
(* The DMA channels.                                                       *)
(***************************************************************************)
DmaFields == {"on", "timing", "repeat", "src", "dst", "units", "srcStep", "dstStep",
              "reload"}
Effective(c, a) == IF c = 0 /\ a.timing = 3 THEN 0 ELSE a.timing

(* The registers d of channel c, stored as a, after n transfers.           *)
Follows(c, a, d, n) ==
    /\ a \in DmaRegisters /\ n \in Nat
    /\ DOMAIN d = DmaFields
    /\ d.on \in BOOLEAN /\ d.timing = a.timing /\ d.repeat = a.repeat
    /\ d.units = a.units /\ d.srcStep = a.srcStep /\ d.dstStep = a.dstStep
    /\ d.reload = a.reload
    /\ ~a.on \/ Effective(c, a) = 3 => n = 0
    /\ ~a.repeat \/ Effective(c, a) = 0 => n =< 1
    /\ d.on <=> a.on /\ (n = 0 \/ (a.repeat /\ Effective(c, a) # 0))
    /\ d.src = a.src + n * a.units * a.srcStep
    /\ d.dst = a.dst + (IF a.reload /\ a.repeat /\ Effective(c, a) # 0
                        THEN 0 ELSE n * a.units * a.dstStep)

LEMMA OneMore ==
    ASSUME NEW n \in Nat, NEW u \in Nat, NEW s \in Int
    PROVE  (n + 1) * u * s = n * u * s + u * s /\ n * u * s \in Int /\ u * s \in Int
<1>1. (n + 1) * u = n * u + u /\ n * u \in Int
  OBVIOUS
<1> DEFINE x == n * u
<1>2. (x + u) * s = x * s + u * s /\ x * s \in Int /\ u * s \in Int
  BY <1>1
<1> QED  BY <1>1, <1>2

LEMMA StoredFollows ==
    ASSUME NEW c, NEW a \in DmaRegisters
    PROVE  Follows(c, a, a, 0)
<1>1. /\ DOMAIN a = DmaFields /\ a.on \in BOOLEAN /\ a.repeat \in BOOLEAN
      /\ a.src \in Int /\ a.dst \in Int /\ a.units \in Nat
      /\ a.srcStep \in Int /\ a.dstStep \in Int
  BY DEF DmaRegisters, DmaFields
<1>2. 0 * a.units * a.srcStep = 0 /\ 0 * a.units * a.dstStep = 0
  BY <1>1
<1> QED  BY <1>1, <1>2 DEF Follows

LEMMA TransferFollows ==
    ASSUME NEW c, NEW a, NEW d, NEW n, Follows(c, a, d, n),
           NEW timing \in 0..2, Starts(c, d, timing)
    PROVE  Follows(c, a, Transferred(d, timing), n + 1)
<1> DEFINE t == Transferred(d, timing)
           still == d.reload /\ d.repeat /\ timing # 0
<1>1. /\ a.units \in Nat /\ a.srcStep \in Int /\ a.dstStep \in Int /\ n \in Nat
      /\ a.src \in Int /\ a.dst \in Int /\ a.on \in BOOLEAN /\ a.repeat \in BOOLEAN
      /\ a \in DmaRegisters
  BY DEF Follows, DmaRegisters
<1>2. d.on /\ timing = Effective(c, a)
  BY DEF Starts, Follows, Effective
<1>3. /\ DOMAIN t = DmaFields /\ t.timing = d.timing /\ t.repeat = d.repeat
      /\ t.units = d.units /\ t.srcStep = d.srcStep /\ t.dstStep = d.dstStep
      /\ t.reload = d.reload
  BY DEF Transferred, Follows, DmaFields
<1>4. /\ t.src = d.src + d.units * d.srcStep
      /\ t.dst = IF still THEN d.dst ELSE d.dst + d.units * d.dstStep
      /\ t.on = (d.repeat /\ timing # 0)
  BY DEF Transferred, Follows, DmaFields
<1> HIDE DEF t
<1>5. a.on /\ (n = 0 \/ (a.repeat /\ Effective(c, a) # 0))
  BY <1>2 DEF Follows
<1>6. ~ (~a.on \/ Effective(c, a) = 3)
  BY <1>2, <1>5
<1>7. ~a.repeat \/ Effective(c, a) = 0 => n + 1 =< 1
  BY <1>5
<1>8. t.on \in BOOLEAN
      /\ (t.on <=> a.on /\ (n + 1 = 0 \/ (a.repeat /\ Effective(c, a) # 0)))
  <2>1. d.repeat = a.repeat
    BY DEF Follows
  <2>2. t.on = (a.repeat /\ Effective(c, a) # 0)
    BY <1>2, <1>4, <2>1
  <2>3. n + 1 # 0
    BY <1>1
  <2>4. t.on \in BOOLEAN
    BY <2>2
  <2>5. t.on <=> (a.repeat /\ Effective(c, a) # 0)
    BY <2>2
  <2> QED  BY <1>5, <2>3, <2>4, <2>5
<1>9. t.src = a.src + (n + 1) * a.units * a.srcStep
  <2>1. d.src = a.src + n * a.units * a.srcStep /\ d.units = a.units
        /\ d.srcStep = a.srcStep
    BY DEF Follows
  <2>2. /\ (n + 1) * a.units * a.srcStep = n * a.units * a.srcStep + a.units * a.srcStep
        /\ n * a.units * a.srcStep \in Int /\ a.units * a.srcStep \in Int
    BY <1>1, OneMore
  <2> QED  BY <1>1, <1>4, <2>1, <2>2
<1>10. t.dst = a.dst + (IF a.reload /\ a.repeat /\ Effective(c, a) # 0
                        THEN 0 ELSE (n + 1) * a.units * a.dstStep)
  <2>1. /\ d.dst = a.dst + (IF a.reload /\ a.repeat /\ Effective(c, a) # 0
                            THEN 0 ELSE n * a.units * a.dstStep)
        /\ d.units = a.units /\ d.dstStep = a.dstStep
        /\ d.reload = a.reload /\ d.repeat = a.repeat
    BY DEF Follows
  <2>2. /\ (n + 1) * a.units * a.dstStep = n * a.units * a.dstStep + a.units * a.dstStep
        /\ n * a.units * a.dstStep \in Int /\ a.units * a.dstStep \in Int
    BY <1>1, OneMore
  <2>3. still <=> a.reload /\ a.repeat /\ Effective(c, a) # 0
    BY <1>2, <2>1
  <2> HIDE DEF still
  <2>4. CASE still
    BY <1>1, <1>4, <2>1, <2>3, <2>4
  <2>5. CASE ~still
    BY <1>1, <1>4, <2>1, <2>2, <2>3, <2>5
  <2> QED  BY <2>4, <2>5
<1>11. t.timing = a.timing /\ t.repeat = a.repeat /\ t.units = a.units
       /\ t.srcStep = a.srcStep /\ t.dstStep = a.dstStep /\ t.reload = a.reload
  BY <1>3 DEF Follows
<1>12. n + 1 \in Nat
  BY <1>1
<1> QED  BY <1>1, <1>3, <1>6, <1>7, <1>8, <1>9, <1>10, <1>11, <1>12 DEF Follows, t

(* What step_ppu and run_dma work on: the video, the channels and the      *)
(* cycles left of the round.                                               *)
VideoFields == {"cycles", "vcount", "hblank", "flags", "irqs", "target", "raised"}
Machine(m) ==
    /\ DOMAIN m = {"video", "dma", "left", "runs"} /\ DOMAIN m.video = VideoFields
    /\ DOMAIN m.dma = DmaChannels /\ DOMAIN m.runs = DmaChannels
    /\ \A c \in DmaChannels : Follows(c, armed[c].as, m.dma[c], m.runs[c])

LEMMA RunDmaFollows ==
    ASSUME NEW m, Machine(m), NEW timing \in 0..2
    PROVE  /\ Machine(RunDma(m, timing))
           /\ RunDma(m, timing).video = m.video /\ RunDma(m, timing).left = m.left
<1> DEFINE r == RunDma(m, timing)
           Go(c) == Starts(c, m.dma[c], timing)
<1>1. r = [m EXCEPT !.dma = [c \in DmaChannels |-> IF Go(c) THEN Transferred(m.dma[c], timing)
                                                   ELSE m.dma[c]],
                    !.runs = [c \in DmaChannels |-> IF Go(c) THEN m.runs[c] + 1 ELSE m.runs[c]]]
  BY DEF RunDma
<1> HIDE DEF Go, r
<1>2. /\ DOMAIN r = {"video", "dma", "left", "runs"} /\ r.video = m.video
      /\ r.left = m.left
      /\ r.dma = [c \in DmaChannels |-> IF Go(c) THEN Transferred(m.dma[c], timing)
                                        ELSE m.dma[c]]
      /\ r.runs = [c \in DmaChannels |-> IF Go(c) THEN m.runs[c] + 1 ELSE m.runs[c]]
  BY <1>1 DEF Machine
<1>3. ASSUME NEW c \in DmaChannels
      PROVE  Follows(c, armed[c].as, r.dma[c], r.runs[c])
  <2>1. Follows(c, armed[c].as, m.dma[c], m.runs[c])
    BY DEF Machine
  <2>2. CASE Go(c)
    <3>1. r.dma[c] = Transferred(m.dma[c], timing) /\ r.runs[c] = m.runs[c] + 1
      BY <1>2, <2>2
    <3>2. Follows(c, armed[c].as, Transferred(m.dma[c], timing), m.runs[c] + 1)
      BY <2>1, <2>2, TransferFollows DEF Go
    <3> QED  BY <3>1, <3>2
  <2>3. CASE ~Go(c)
    BY <1>2, <2>1, <2>3
  <2> QED  BY <2>2, <2>3
<1> QED  BY <1>2, <1>3 DEF Machine, r

(***************************************************************************)
(* The beam and its events.  w is the first boundary after the last store  *)
(* of DISPSTAT, with the flags as that store left them; b is what the      *)
(* counts there start from.                                                *)
(***************************************************************************)
Passed(l, c, target) ==
    [vblank |-> Starting(VblankStart, l),
     hblank |-> l + (IF c >= Drawn THEN 1 ELSE 0),
     match |-> IF target < Lines THEN Starting(target, l) ELSE 0]
EventsOf(v) ==
    {e \in Events : \/ e = "vblank" /\ v.vcount >= VblankStart
                    \/ e = "hblank" /\ v.hblank
                    \/ e = "match" /\ v.vcount = v.target}

(* The beam is in cycle c of line l (since reset).                         *)
AtCycle(v, l, c) ==
    /\ l \in Nat /\ c \in 0..(Line - 1)
    /\ v.cycles = c /\ v.vcount = l % Lines
    /\ v.hblank \in BOOLEAN /\ (v.hblank <=> c >= Drawn)

(* The events that hold at a place.                                        *)
HeldAt(l, c, target) ==
    {e \in Events : \/ e = "vblank" /\ l % Lines >= VblankStart
                    \/ e = "hblank" /\ c >= Drawn
                    \/ e = "match" /\ l % Lines = target}
Base(w, target) ==
    [e \in Events |-> Passed(w.line, w.cycle, target)[e]
                       - (IF e \in HeldAt(w.line, w.cycle, target) /\ e \notin w.kept
                          THEN 1 ELSE 0)]

(* The flags that are up are the events that hold.                         *)
FlagsRight(v) ==
    /\ "vblank" \in v.flags <=> v.vcount >= VblankStart
    /\ "hblank" \in v.flags <=> v.hblank
    /\ "match" \in v.flags <=> v.vcount = v.target
CountsRight(v, l, c, b) ==
    \A e \in v.irqs : v.raised[e] = Passed(l, c, v.target)[e] - b[e]

(* Before the boundary w the store's flags stand and nothing is raised;    *)
(* after it they are the events and the counts go on from b.               *)
Near(l, c, w) ==
    IF c < Drawn THEN w.line = l /\ w.cycle = Drawn ELSE w.line = l + 1 /\ w.cycle = 0
Beyond(l, c, w) == l > w.line \/ (l = w.line /\ c >= w.cycle)
Waiting(v, l, c, w) ==
    Near(l, c, w) /\ v.flags = w.kept /\ (\A e \in Events : v.raised[e] = 0)
Counting(v, l, c, b, w) == Beyond(l, c, w) /\ FlagsRight(v) /\ CountsRight(v, l, c, b)
EventsOK(v, l, c, b, w) ==
    /\ v.irqs \subseteq Events /\ v.target \in Nat /\ v.flags \subseteq Events
    /\ v.raised \in [Events -> Int] /\ b \in [Events -> Int] /\ b = Base(w, v.target)
    /\ w.line \in Nat /\ w.cycle \in {0, Drawn}
    /\ Waiting(v, l, c, w) \/ Counting(v, l, c, b, w)

(* update_dispstat at a place (l, c): raises the events that were not up.  *)
Updated(v) ==
    [v EXCEPT !.flags = EventsOf(v),
              !.raised = [e \in Events |-> IF e \in (EventsOf(v) \ v.flags) \intersect v.irqs
                                           THEN v.raised[e] + 1 ELSE v.raised[e]]]

LEMMA UpdateIs ==
    ASSUME NEW m, Machine(m)
    PROVE  /\ Machine(UpdateDispstat(m)) /\ UpdateDispstat(m).video = Updated(m.video)
           /\ UpdateDispstat(m).left = m.left
<1> DEFINE v == m.video
           rising == EventsOf(v) \ v.flags
           paced == IF "vblank" \in rising THEN RunDma(m, 1) ELSE m
           u == UpdateDispstat(m)
<1>1. u = [paced EXCEPT !.video = [v EXCEPT !.flags = EventsOf(v),
             !.raised = [e \in Events |-> IF e \in rising \intersect v.irqs THEN @[e] + 1 ELSE @[e]]]]
  BY DEF UpdateDispstat, EventsOf
<1>2. [v EXCEPT !.flags = EventsOf(v),
             !.raised = [e \in Events |-> IF e \in rising \intersect v.irqs THEN @[e] + 1 ELSE @[e]]]
        = Updated(v)
  BY DEF Updated
<1>3. Machine(paced) /\ paced.video = v /\ paced.left = m.left
  BY RunDmaFollows
<1> HIDE DEF paced, rising, u
<1>4. u = [paced EXCEPT !.video = Updated(v)]
  BY <1>1, <1>2
<1>5. DOMAIN Updated(v) = VideoFields
  BY DEF Machine, Updated
<1>6. /\ DOMAIN u = {"video", "dma", "left", "runs"} /\ u.video = Updated(v)
      /\ u.left = paced.left /\ u.dma = paced.dma /\ u.runs = paced.runs
  BY <1>3, <1>4 DEF Machine
<1> QED  BY <1>3, <1>5, <1>6 DEF Machine, u

LEMMA UpdatedIs ==
    ASSUME NEW v, DOMAIN v = VideoFields, v.raised \in [Events -> Int]
    PROVE  /\ DOMAIN Updated(v) = VideoFields
           /\ Updated(v).cycles = v.cycles /\ Updated(v).vcount = v.vcount
           /\ Updated(v).hblank = v.hblank /\ Updated(v).irqs = v.irqs
           /\ Updated(v).target = v.target /\ Updated(v).flags = EventsOf(v)
           /\ Updated(v).raised \in [Events -> Int]
           /\ \A e \in Events :
                Updated(v).raised[e] = IF e \in EventsOf(v) /\ e \notin v.flags /\ e \in v.irqs
                                       THEN v.raised[e] + 1 ELSE v.raised[e]
<1> DEFINE r == [e \in Events |-> IF e \in (EventsOf(v) \ v.flags) \intersect v.irqs
                                  THEN v.raised[e] + 1 ELSE v.raised[e]]
<1>1. Updated(v) = [v EXCEPT !.flags = EventsOf(v), !.raised = r]
  BY DEF Updated
<1>2. r \in [Events -> Int]
  OBVIOUS
<1>3. \A e \in Events : r[e] = IF e \in EventsOf(v) /\ e \notin v.flags /\ e \in v.irqs
                               THEN v.raised[e] + 1 ELSE v.raised[e]
  OBVIOUS
<1> HIDE DEF r
<1>4. /\ DOMAIN Updated(v) = VideoFields
      /\ Updated(v).cycles = v.cycles /\ Updated(v).vcount = v.vcount
      /\ Updated(v).hblank = v.hblank /\ Updated(v).irqs = v.irqs
      /\ Updated(v).target = v.target /\ Updated(v).flags = EventsOf(v)
      /\ Updated(v).raised = r
  BY <1>1 DEF VideoFields
<1> QED  BY <1>2, <1>3, <1>4

(* After an update the flags are the events.                               *)
LEMMA FlagsAfter ==
    ASSUME NEW v, DOMAIN v = VideoFields, v.raised \in [Events -> Int],
           v.vcount \in Nat
    PROVE  FlagsRight(Updated(v))
<1> DEFINE u == Updated(v)
<1>1. u.flags = EventsOf(v) /\ u.vcount = v.vcount /\ u.hblank = v.hblank
      /\ u.target = v.target
  BY UpdatedIs
<1>2. /\ "vblank" \in EventsOf(v) <=> v.vcount >= VblankStart
      /\ "hblank" \in EventsOf(v) <=> v.hblank
      /\ "match" \in EventsOf(v) <=> v.vcount = v.target
  BY DEF EventsOf, Events
<1> HIDE DEF u
<1> QED  BY <1>1, <1>2 DEF FlagsRight, u

LEMMA CountsAre ==
    ASSUME NEW l \in Nat, NEW c \in 0..(Line - 1), NEW target \in Nat, NEW e \in Events
    PROVE  Passed(l, c, target)[e] \in Int
<1>1. Lines \in Nat /\ Line \in Nat /\ Drawn \in Nat /\ VblankStart \in 0..(Lines - 1)
  BY VideoAssumption
<1>2. Starting(VblankStart, l) \in Int
  BY <1>1, StartingIs
<1>3. target < Lines => Starting(target, l) \in Int
  BY <1>1, StartingIs
<1>4. /\ Passed(l, c, target)["vblank"] = Starting(VblankStart, l)
      /\ Passed(l, c, target)["hblank"] = l + (IF c >= Drawn THEN 1 ELSE 0)
      /\ Passed(l, c, target)["match"] = IF target < Lines THEN Starting(target, l) ELSE 0
  BY DEF Passed
<1> QED  BY <1>1, <1>2, <1>3, <1>4 DEF Events

(* v before a boundary, x when the beam has reached it.                    *)
Reaches(v, x) ==
    /\ DOMAIN v = VideoFields /\ DOMAIN x = VideoFields
    /\ x.flags = v.flags /\ x.irqs = v.irqs /\ x.target = v.target
    /\ x.raised = v.raised

LEMMA HeldIs ==
    ASSUME NEW x, NEW k, NEW d, AtCycle(x, k, d)
    PROVE  EventsOf(x) = HeldAt(k, d, x.target)
BY DEF AtCycle, EventsOf, HeldAt

(* The update counts what has begun between (l, c) and (k, d), or, at the  *)
(* first boundary, what holds there and was not stored set.                *)
LEMMA UpdateCounts ==
    ASSUME NEW v, NEW x, Reaches(v, x), NEW l, NEW c, NEW k, NEW d, NEW b, NEW w,
           AtCycle(v, l, c), EventsOK(v, l, c, b, w), AtCycle(x, k, d), Beyond(k, d, w),
           Waiting(v, l, c, w) => k = w.line /\ d = w.cycle,
           Counting(v, l, c, b, w) =>
             \A e \in v.irqs :
                   Passed(k, d, v.target)[e] =
                     Passed(l, c, v.target)[e]
                       + (IF e \in EventsOf(x) /\ e \notin v.flags THEN 1 ELSE 0)
    PROVE  AtCycle(Updated(x), k, d) /\ EventsOK(Updated(x), k, d, b, w)
<1> DEFINE u == Updated(x)
<1>1. /\ v.irqs \subseteq Events /\ v.target \in Nat /\ v.flags \subseteq Events
      /\ v.raised \in [Events -> Int] /\ b \in [Events -> Int] /\ b = Base(w, v.target)
      /\ w.line \in Nat /\ w.cycle \in {0, Drawn}
  BY DEF EventsOK
<1>2. DOMAIN x = VideoFields /\ x.raised \in [Events -> Int] /\ x.target = v.target
  BY <1>1 DEF Reaches
<1>3. /\ u.cycles = x.cycles /\ u.vcount = x.vcount /\ u.hblank = x.hblank
      /\ u.irqs = v.irqs /\ u.target = v.target /\ u.flags = EventsOf(x)
      /\ u.raised \in [Events -> Int]
      /\ \A e \in Events :
           u.raised[e] = IF e \in EventsOf(x) /\ e \notin v.flags /\ e \in v.irqs
                         THEN v.raised[e] + 1 ELSE v.raised[e]
  BY <1>2, UpdatedIs DEF Reaches
<1>4. x.vcount \in Nat
  BY NextLineIs, VideoAssumption DEF AtCycle
<1>5. FlagsRight(u)
  BY <1>2, <1>4, FlagsAfter
<1>6. AtCycle(u, k, d)
  <2> HIDE DEF u
  <2> QED  BY <1>3 DEF AtCycle
<1> HIDE DEF u
<1>7. ASSUME Counting(v, l, c, b, w), NEW e \in v.irqs
      PROVE  u.raised[e] = Passed(k, d, v.target)[e] - b[e]
  <2>1. e \in Events /\ v.raised[e] \in Int /\ b[e] \in Int
    BY <1>1, <1>7
  <2>2. v.raised[e] = Passed(l, c, v.target)[e] - b[e]
    BY <1>7 DEF Counting, CountsRight
  <2>3. Passed(l, c, v.target)[e] \in Int
    BY <1>1, <2>1, CountsAre DEF AtCycle
  <2>4. CASE e \in EventsOf(x) /\ e \notin v.flags
    <3>1. u.raised[e] = v.raised[e] + 1
      BY <1>3, <1>7, <2>1, <2>4
    <3>2. Passed(k, d, v.target)[e] = Passed(l, c, v.target)[e] + 1
      BY <1>7, <2>4
    <3> QED  BY <2>1, <2>2, <2>3, <3>1, <3>2
  <2>5. CASE ~ (e \in EventsOf(x) /\ e \notin v.flags)
    <3>1. u.raised[e] = v.raised[e]
      BY <1>3, <2>1, <2>5
    <3>2. Passed(k, d, v.target)[e] = Passed(l, c, v.target)[e]
      BY <1>7, <2>3, <2>5
    <3> QED  BY <2>2, <3>1, <3>2
  <2> QED  BY <2>4, <2>5
<1>8. ASSUME Waiting(v, l, c, w), NEW e \in v.irqs
      PROVE  u.raised[e] = Passed(k, d, v.target)[e] - b[e]
  <2>1. e \in Events /\ v.raised[e] = 0 /\ v.flags = w.kept /\ k = w.line /\ d = w.cycle
    BY <1>1, <1>8 DEF Waiting
  <2>2. EventsOf(x) = HeldAt(k, d, v.target)
    BY <1>2, HeldIs
  <2>3. b[e] = Passed(k, d, v.target)[e]
               - (IF e \in HeldAt(k, d, v.target) /\ e \notin v.flags THEN 1 ELSE 0)
    BY <1>1, <2>1 DEF Base
  <2>4. Passed(k, d, v.target)[e] \in Int
    BY <1>1, <2>1, CountsAre DEF AtCycle
  <2>5. u.raised[e] = IF e \in EventsOf(x) /\ e \notin v.flags THEN 1 ELSE 0
    BY <1>3, <1>8, <2>1
  <2> QED  BY <2>2, <2>3, <2>4, <2>5
<1>9. CountsRight(u, k, d, b)
  <2>1. Waiting(v, l, c, w) \/ Counting(v, l, c, b, w)
    BY DEF EventsOK
  <2>2. \A e \in v.irqs : u.raised[e] = Passed(k, d, v.target)[e] - b[e]
    BY <1>7, <1>8, <2>1
  <2> QED  BY <1>3, <2>2 DEF CountsRight
<1>10. EventsOf(x) \subseteq Events
  BY DEF EventsOf
<1>11. Counting(u, k, d, b, w)
  BY <1>5, <1>9 DEF Counting
<1> QED  BY <1>1, <1>3, <1>6, <1>10, <1>11 DEF EventsOK, u

(* The end of the drawn part of a line: HBlank begins.                     *)
LEMMA HblankEvents ==
    ASSUME NEW v, NEW x, Reaches(v, x), NEW l, NEW c, NEW b, NEW w,
           AtCycle(v, l, c), EventsOK(v, l, c, b, w), c < Drawn,
           x.cycles = Drawn, x.vcount = v.vcount, x.hblank = TRUE
    PROVE  AtCycle(Updated(x), l, Drawn) /\ EventsOK(Updated(x), l, Drawn, b, w)
<1>1. AtCycle(x, l, Drawn)
  <2>1. Drawn \in 0..(Line - 1) /\ Drawn >= Drawn
    BY VideoAssumption
  <2>2. x.hblank \in BOOLEAN /\ x.hblank
    OBVIOUS
  <2>3. l \in Nat /\ x.vcount = l % Lines
    BY DEF AtCycle
  <2> QED  BY <2>1, <2>2, <2>3 DEF AtCycle
<1>2. ASSUME Counting(v, l, c, b, w), NEW e \in v.irqs
      PROVE  Passed(l, Drawn, v.target)[e] =
               Passed(l, c, v.target)[e]
                 + (IF e \in EventsOf(x) /\ e \notin v.flags THEN 1 ELSE 0)
  <2>1. e \in Events /\ FlagsRight(v) /\ v.target \in Nat /\ x.target = v.target
    BY <1>2 DEF EventsOK, Counting, Reaches
  <2>2. Passed(l, c, v.target)[e] \in Int
    BY <2>1, CountsAre DEF AtCycle
  <2>3. CASE e = "vblank"
    <3>1. "vblank" \in EventsOf(x) <=> "vblank" \in v.flags
      BY <2>1 DEF FlagsRight, EventsOf, Events
    <3>2. Passed(l, Drawn, v.target)[e] = Passed(l, c, v.target)[e]
      BY <2>3 DEF Passed
    <3> QED  BY <2>2, <2>3, <3>1, <3>2
  <2>4. CASE e = "hblank"
    <3>1. "hblank" \in EventsOf(x) /\ "hblank" \notin v.flags
      <4>1. "hblank" \in EventsOf(x)
        BY DEF EventsOf, Events
      <4>2. ~v.hblank
        <5>1. c \in Nat /\ Drawn \in Nat
          BY VideoAssumption DEF AtCycle
        <5>2. ~ (c >= Drawn)
          BY <5>1
        <5> QED  BY <5>2 DEF AtCycle
      <4> QED  BY <2>1, <4>1, <4>2 DEF FlagsRight
    <3>2. /\ Passed(l, Drawn, v.target)["hblank"] = l + (IF Drawn >= Drawn THEN 1 ELSE 0)
          /\ Passed(l, c, v.target)["hblank"] = l + (IF c >= Drawn THEN 1 ELSE 0)
      BY DEF Passed
    <3>3. l \in Nat /\ ~ (c >= Drawn) /\ Drawn >= Drawn
      BY VideoAssumption DEF AtCycle
    <3> QED  BY <2>4, <3>1, <3>2, <3>3
  <2>5. CASE e = "match"
    <3>1. "match" \in EventsOf(x) => "match" \in v.flags
      BY <2>1 DEF FlagsRight, EventsOf
    <3>2. Passed(l, Drawn, v.target)[e] = Passed(l, c, v.target)[e]
      BY <2>5 DEF Passed
    <3> QED  BY <2>2, <2>5, <3>1, <3>2
  <2> QED  BY <2>1, <2>3, <2>4, <2>5 DEF Events
<1>3. /\ c \in Nat /\ Drawn \in Nat /\ l \in Nat /\ w.line \in Nat /\ w.cycle \in {0, Drawn}
      /\ Waiting(v, l, c, w) \/ Counting(v, l, c, b, w)
  BY VideoAssumption DEF AtCycle, EventsOK
<1>4. Beyond(l, Drawn, w) /\ (Waiting(v, l, c, w) => l = w.line /\ Drawn = w.cycle)
  BY <1>3 DEF Waiting, Counting, Near, Beyond
<1> QED  BY <1>1, <1>2, <1>4, UpdateCounts

(* The end of a line: the next begins, in VBlank or not.                   *)
LEMMA LineEvents ==
    ASSUME NEW v, NEW x, Reaches(v, x), NEW l, NEW c, NEW b, NEW w,
           AtCycle(v, l, c), EventsOK(v, l, c, b, w), c >= Drawn,
           x.cycles = 0, x.vcount = (v.vcount + 1) % Lines, x.hblank = FALSE
    PROVE  AtCycle(Updated(x), l + 1, 0) /\ EventsOK(Updated(x), l + 1, 0, b, w)
<1>1. /\ l \in Nat /\ v.vcount = l % Lines
      /\ Lines \in Nat /\ Line \in Nat /\ Drawn \in Nat /\ 0 < Drawn /\ Drawn < Line
      /\ VblankStart \in Nat /\ 0 < VblankStart /\ VblankStart < Lines
  BY VideoAssumption DEF AtCycle
<1>2. /\ v.vcount \in 0..(Lines - 1) /\ x.vcount = (l + 1) % Lines
      /\ x.vcount = IF v.vcount = Lines - 1 THEN 0 ELSE v.vcount + 1
  BY <1>1, NextLineIs
<1>3. AtCycle(x, l + 1, 0)
  <2>1. 0 \in 0..(Line - 1) /\ ~ (0 >= Drawn) /\ l + 1 \in Nat
    BY <1>1
  <2>2. x.hblank \in BOOLEAN /\ ~x.hblank
    OBVIOUS
  <2> QED  BY <1>2, <2>1, <2>2 DEF AtCycle
<1>4. ASSUME Counting(v, l, c, b, w), NEW e \in v.irqs
      PROVE  Passed(l + 1, 0, v.target)[e] =
               Passed(l, c, v.target)[e]
                 + (IF e \in EventsOf(x) /\ e \notin v.flags THEN 1 ELSE 0)
  <2>1. e \in Events /\ FlagsRight(v) /\ v.target \in Nat /\ x.target = v.target
    BY <1>4 DEF EventsOK, Counting, Reaches
  <2>2. Passed(l, c, v.target)[e] \in Int
    BY <2>1, CountsAre DEF AtCycle
  <2>3. CASE e = "vblank"
    <3>1. /\ Passed(l + 1, 0, v.target)[e] = Starting(VblankStart, l + 1)
          /\ Passed(l, c, v.target)[e] = Starting(VblankStart, l)
      BY <2>3 DEF Passed
    <3>2. VblankStart \in 0..(Lines - 1)
      BY <1>1
    <3>3. Starting(VblankStart, l + 1) =
            Starting(VblankStart, l) + (IF x.vcount = VblankStart THEN 1 ELSE 0)
      <4>1. Starting(VblankStart, l + 1) =
              Starting(VblankStart, l) + (IF (l + 1) % Lines = VblankStart THEN 1 ELSE 0)
        BY <1>1, <3>2, StartingIs
      <4> QED  BY <1>2, <4>1
    <3>4. "vblank" \in EventsOf(x) <=> x.vcount >= VblankStart
      BY DEF EventsOf, Events
    <3>5. "vblank" \in v.flags <=> v.vcount >= VblankStart
      BY <2>1 DEF FlagsRight
    <3>6. x.vcount = VblankStart <=> "vblank" \in EventsOf(x) /\ "vblank" \notin v.flags
      BY <1>1, <1>2, <3>4, <3>5
    <3> QED  BY <2>3, <3>1, <3>3, <3>6
  <2>4. CASE e = "hblank"
    <3>1. "hblank" \notin EventsOf(x)
      BY DEF EventsOf
    <3>2. /\ Passed(l + 1, 0, v.target)["hblank"] = l + 1 + (IF 0 >= Drawn THEN 1 ELSE 0)
          /\ Passed(l, c, v.target)["hblank"] = l + (IF c >= Drawn THEN 1 ELSE 0)
      BY DEF Passed
    <3> QED  BY <1>1, <2>4, <3>1, <3>2
  <2>5. CASE e = "match"
    <3>1. /\ Passed(l + 1, 0, v.target)[e]
               = IF v.target < Lines THEN Starting(v.target, l + 1) ELSE 0
          /\ Passed(l, c, v.target)[e]
               = IF v.target < Lines THEN Starting(v.target, l) ELSE 0
      BY <2>5 DEF Passed
    <3>2. v.target < Lines =>
            Starting(v.target, l + 1) =
              Starting(v.target, l) + (IF x.vcount = v.target THEN 1 ELSE 0)
      <4> SUFFICES ASSUME v.target < Lines
                   PROVE  Starting(v.target, l + 1) =
                            Starting(v.target, l) + (IF x.vcount = v.target THEN 1 ELSE 0)
        OBVIOUS
      <4>1. v.target \in 0..(Lines - 1)
        BY <1>1, <2>1
      <4>2. Starting(v.target, l + 1) =
              Starting(v.target, l) + (IF (l + 1) % Lines = v.target THEN 1 ELSE 0)
        BY <1>1, <4>1, StartingIs
      <4> QED  BY <1>2, <4>2
    <3>3. "match" \in EventsOf(x) <=> x.vcount = v.target
      BY <2>1 DEF EventsOf, Events
    <3>4. x.vcount = v.target => "match" \notin v.flags
      <4>1. v.vcount # x.vcount
        BY <1>1, <1>2
      <4> QED  BY <2>1, <4>1 DEF FlagsRight
    <3>5. x.vcount = v.target => v.target < Lines
      BY <1>1, <1>2
    <3>6. CASE x.vcount = v.target
      <4>1. Passed(l + 1, 0, v.target)[e] = Passed(l, c, v.target)[e] + 1
        BY <3>1, <3>2, <3>5, <3>6
      <4> QED  BY <2>5, <3>3, <3>4, <3>6, <4>1
    <3>7. CASE x.vcount # v.target
      <4>1. Passed(l + 1, 0, v.target)[e] = Passed(l, c, v.target)[e]
        <5>1. CASE v.target < Lines
          <6>1. v.target \in 0..(Lines - 1)
            BY <1>1, <2>1, <5>1
          <6>2. Starting(v.target, l) \in Int
            BY <1>1, <6>1, StartingIs
          <6> QED  BY <3>1, <3>2, <3>7, <5>1, <6>2
        <5>2. CASE ~ (v.target < Lines)
          BY <3>1, <5>2
        <5> QED  BY <5>1, <5>2
      <4> QED  BY <2>2, <2>5, <3>3, <3>7, <4>1
    <3> QED  BY <3>6, <3>7
  <2> QED  BY <2>1, <2>3, <2>4, <2>5 DEF Events
<1>5. /\ c \in Nat /\ w.line \in Nat /\ w.cycle \in {0, Drawn}
      /\ Waiting(v, l, c, w) \/ Counting(v, l, c, b, w)
  BY <1>1 DEF AtCycle, EventsOK
<1>6. Beyond(l + 1, 0, w) /\ (Waiting(v, l, c, w) => l + 1 = w.line /\ 0 = w.cycle)
  BY <1>1, <1>5 DEF Waiting, Counting, Near, Beyond
<1> QED  BY <1>3, <1>4, <1>6, UpdateCounts

(* Cycles that reach no boundary.                                          *)
LEMMA RestEvents ==
    ASSUME NEW v, NEW x, Reaches(v, x), NEW l, NEW c, NEW b, NEW w,
           AtCycle(v, l, c), EventsOK(v, l, c, b, w),
           NEW d \in 0..(Line - 1), d >= Drawn <=> c >= Drawn,
           x.cycles = d, x.vcount = v.vcount, x.hblank = v.hblank
    PROVE  AtCycle(x, l, d) /\ EventsOK(x, l, d, b, w)
<1>1. AtCycle(x, l, d)
  BY DEF AtCycle
<1>2. Passed(l, d, v.target) = Passed(l, c, v.target)
  BY DEF Passed
<1>3. /\ c \in Nat /\ d \in Nat /\ Drawn \in Nat /\ 0 < Drawn /\ l \in Nat
      /\ w.line \in Nat /\ w.cycle \in {0, Drawn}
      /\ Waiting(v, l, c, w) \/ Counting(v, l, c, b, w)
  BY VideoAssumption DEF AtCycle, EventsOK
<1>4. (Near(l, c, w) => Near(l, d, w)) /\ (Beyond(l, c, w) => Beyond(l, d, w))
  BY <1>3 DEF Near, Beyond
<1>5. Waiting(v, l, c, w) => Waiting(x, l, d, w)
  BY <1>4 DEF Waiting, Reaches
<1>6. Counting(v, l, c, b, w) => Counting(x, l, d, b, w)
  BY <1>2, <1>4 DEF Counting, Reaches, FlagsRight, CountsRight
<1>7. EventsOK(x, l, d, b, w)
  BY <1>3, <1>5, <1>6 DEF EventsOK, Reaches
<1> QED  BY <1>1, <1>7

(***************************************************************************)
(* step_ppu.                                                               *)
(***************************************************************************)
Tracks(m, l, c, b, w, g) ==
    Machine(m) /\ m.left \in Nat /\ AtCycle(m.video, l, c) /\ EventsOK(m.video, l, c, b, w)
    /\ m.video.target = g

(* The place of the beam and the cycles left make total.                   *)
Reckons(m, total, b, w, g) ==
    \E l \in Nat, c \in 0..(Line - 1) : Tracks(m, l, c, b, w, g) /\ Line * l + c + m.left = total

LEMMA RestTracks ==
    ASSUME NEW m, NEW l, NEW c, NEW b, NEW w, NEW g, Tracks(m, l, c, b, w, g),
           NEW total, total = Line * l + c + m.left, m.left # 0,
           m.left < (IF m.video.hblank THEN Line ELSE Drawn) - c
    PROVE  Reckons(Advance(m), total, b, w, g) /\ Advance(m).left = 0
<1> DEFINE x == [m EXCEPT !.video.cycles = @ + m.left, !.left = @ - m.left]
           d == c + m.left
<1>1. /\ Line \in Nat /\ Drawn \in Nat /\ 0 < Drawn /\ Drawn < Line
      /\ l \in Nat /\ c \in 0..(Line - 1) /\ m.left \in Nat
      /\ m.video.cycles = c /\ (m.video.hblank <=> c >= Drawn)
      /\ m.video.hblank \in BOOLEAN
  BY VideoAssumption DEF Tracks, AtCycle
<1>2. d \in 0..(Line - 1) /\ (d >= Drawn <=> c >= Drawn) /\ ~ (d >= Line)
  <2>1. CASE m.video.hblank
    BY <1>1, <2>1
  <2>2. CASE ~m.video.hblank
    BY <1>1, <2>2
  <2> QED  BY <2>1, <2>2
<1>3. /\ DOMAIN x = {"video", "dma", "left", "runs"} /\ DOMAIN x.video = VideoFields
      /\ x.left = m.left - m.left /\ x.dma = m.dma /\ x.runs = m.runs
      /\ x.video.cycles = c + m.left /\ x.video.vcount = m.video.vcount
      /\ x.video.hblank = m.video.hblank /\ Reaches(m.video, x.video)
  BY <1>1 DEF Tracks, Machine, VideoFields, Reaches
<1>4. Advance(m) = x
  <2> DEFINE step == m.left
             ran == [m EXCEPT !.video.cycles = @ + step, !.left = @ - step]
             drawn == IF ~ran.video.hblank /\ ran.video.cycles >= Drawn THEN EnterHblank(ran)
                      ELSE ran
  <2>1. Advance(m) = IF drawn.video.cycles >= Line THEN NextLine(drawn) ELSE drawn
    BY <1>1 DEF Advance
  <2>2. ran = x
    OBVIOUS
  <2> HIDE DEF x, ran
  <2>3. drawn = x
    BY <1>1, <1>2, <1>3, <2>2
  <2> HIDE DEF drawn
  <2> QED  BY <1>2, <1>3, <2>1, <2>3
<1> HIDE DEF x
<1>5. x.left = 0
  BY <1>1, <1>3
<1>6. Machine(x)
  BY <1>3 DEF Machine, Tracks
<1>7. AtCycle(x.video, l, d) /\ EventsOK(x.video, l, d, b, w)
  BY <1>2, <1>3, RestEvents DEF Tracks
<1>8. Line * l + d + x.left = total
  <2>1. Line * l \in Nat
    BY <1>1
  <2> QED  BY <1>1, <1>5, <2>1
<1>9. Tracks(x, l, d, b, w, g)
  BY <1>3, <1>5, <1>6, <1>7 DEF Tracks, Reaches
<1> HIDE DEF d
<1>10. Reckons(x, total, b, w, g)
  BY <1>1, <1>2, <1>8, <1>9 DEF Reckons
<1> QED  BY <1>4, <1>5, <1>10

LEMMA HblankTracks ==
    ASSUME NEW m, NEW l, NEW c, NEW b, NEW w, NEW g, Tracks(m, l, c, b, w, g),
           NEW total, total = Line * l + c + m.left, m.left # 0,
           ~m.video.hblank, ~ (m.left < Drawn - c)
    PROVE  Reckons(Advance(m), total, b, w, g) /\ Advance(m).left \in Nat
           /\ Advance(m).left < m.left
<1> DEFINE step == Drawn - c
           x == [m EXCEPT !.video.cycles = @ + step, !.left = @ - step]
           h == [x EXCEPT !.video.hblank = TRUE]
           p == IF h.video.vcount < VblankStart THEN RunDma(h, 2) ELSE h
           u == UpdateDispstat(p)
<1>1. /\ Line \in Nat /\ Drawn \in Nat /\ 0 < Drawn /\ Drawn < Line
      /\ l \in Nat /\ c \in 0..(Line - 1) /\ m.left \in Nat
      /\ m.video.cycles = c /\ c < Drawn
  BY VideoAssumption DEF Tracks, AtCycle
<1>2. /\ DOMAIN x = {"video", "dma", "left", "runs"} /\ DOMAIN x.video = VideoFields
      /\ x.left = m.left - step /\ x.dma = m.dma /\ x.runs = m.runs
      /\ x.video.cycles = c + step /\ x.video.vcount = m.video.vcount
      /\ x.video.hblank = m.video.hblank /\ Reaches(m.video, x.video)
  BY <1>1 DEF Tracks, Machine, VideoFields, Reaches
<1>3. step \in Nat /\ step > 0 /\ c + step = Drawn /\ m.left - step \in Nat
  BY <1>1
<1>4. Advance(m) = u
  <2> DEFINE boundary == (IF m.video.hblank THEN Line ELSE Drawn) - m.video.cycles
             by == IF m.left < boundary THEN m.left ELSE IF boundary > 0 THEN boundary ELSE 1
             ran == [m EXCEPT !.video.cycles = @ + by, !.left = @ - by]
             drawn == IF ~ran.video.hblank /\ ran.video.cycles >= Drawn THEN EnterHblank(ran)
                      ELSE ran
  <2>1. Advance(m) = IF drawn.video.cycles >= Line THEN NextLine(drawn) ELSE drawn
    BY DEF Advance
  <2>2. by = step
    BY <1>1, <1>3
  <2>3. ran = x
    BY <2>2
  <2>4. EnterHblank(x) = u
    BY DEF EnterHblank
  <2>5. x.video.cycles = Drawn /\ ~x.video.hblank
    BY <1>2, <1>3
  <2> HIDE DEF x, u, ran
  <2>6. drawn = u
    BY <1>1, <2>3, <2>4, <2>5
  <2>7. u.video.cycles = Drawn
    <3>1. DOMAIN h = {"video", "dma", "left", "runs"} /\ DOMAIN h.video = VideoFields
          /\ h.dma = m.dma /\ h.runs = m.runs /\ h.video.cycles = Drawn
          /\ h.video.raised = m.video.raised
      BY <1>2, <2>5 DEF VideoFields, Reaches
    <3> HIDE DEF h
    <3>2. Machine(h)
      BY <3>1 DEF Machine, Tracks
    <3>3. Machine(p) /\ p.video = h.video
      BY <3>2, RunDmaFollows
    <3> HIDE DEF p
    <3>4. u.video = Updated(h.video)
      BY <3>3, UpdateIs DEF u
    <3>5. h.video.raised \in [Events -> Int]
      BY <3>1 DEF Tracks, EventsOK
    <3> QED  BY <3>1, <3>4, <3>5, UpdatedIs
  <2> HIDE DEF drawn
  <2> QED  BY <1>1, <2>1, <2>6, <2>7
<1> HIDE DEF x
<1>5. /\ DOMAIN h = {"video", "dma", "left", "runs"} /\ DOMAIN h.video = VideoFields
      /\ h.dma = m.dma /\ h.runs = m.runs /\ h.left = m.left - step
      /\ h.video.cycles = Drawn /\ h.video.vcount = m.video.vcount /\ h.video.hblank = TRUE
      /\ Reaches(m.video, h.video)
  BY <1>2, <1>3 DEF VideoFields, Reaches
<1> HIDE DEF h
<1>6. Machine(h)
  BY <1>5 DEF Machine, Tracks
<1>7. Machine(p) /\ p.video = h.video /\ p.left = h.left
  BY <1>6, RunDmaFollows
<1> HIDE DEF p
<1>8. Machine(u) /\ u.video = Updated(h.video) /\ u.left = h.left
  BY <1>7, UpdateIs
<1> HIDE DEF u
<1>9. AtCycle(u.video, l, Drawn) /\ EventsOK(u.video, l, Drawn, b, w)
  <2>1. AtCycle(m.video, l, c) /\ EventsOK(m.video, l, c, b, w) /\ c < Drawn
    BY <1>1 DEF Tracks
  <2>2. AtCycle(Updated(h.video), l, Drawn) /\ EventsOK(Updated(h.video), l, Drawn, b, w)
    BY <1>5, <2>1, HblankEvents
  <2> QED  BY <1>8, <2>2
<1>10. u.left \in Nat /\ u.left < m.left /\ u.left = m.left - (Drawn - c)
  BY <1>1, <1>3, <1>5, <1>8
<1>11. Tracks(u, l, Drawn, b, w, g)
  <2>1. Updated(h.video).target = g
    BY <1>5, UpdatedIs DEF Reaches, Tracks, EventsOK
  <2> QED  BY <1>8, <1>9, <1>10, <2>1 DEF Tracks
<1>12. Line * l + Drawn + u.left = total
  <2>1. Line * l \in Nat
    BY <1>1
  <2> QED  BY <1>1, <1>10, <2>1
<1>13. Drawn \in 0..(Line - 1)
  BY <1>1
<1>14. Reckons(u, total, b, w, g)
  BY <1>1, <1>11, <1>12, <1>13 DEF Reckons
<1> QED  BY <1>4, <1>10, <1>14

LEMMA LineTracks ==
    ASSUME NEW m, NEW l, NEW c, NEW b, NEW w, NEW g, Tracks(m, l, c, b, w, g),
           NEW total, total = Line * l + c + m.left, m.left # 0,
           m.video.hblank, ~ (m.left < Line - c)
    PROVE  Reckons(Advance(m), total, b, w, g) /\ Advance(m).left \in Nat
           /\ Advance(m).left < m.left
<1> DEFINE step == Line - c
           x == [m EXCEPT !.video.cycles = @ + step, !.left = @ - step]
           h == [x EXCEPT !.video.cycles = @ - Line, !.video.vcount = (@ + 1) % Lines,
                          !.video.hblank = FALSE]
           u == UpdateDispstat(h)
<1>1. /\ Line \in Nat /\ Drawn \in Nat /\ 0 < Drawn /\ Drawn < Line
      /\ l \in Nat /\ c \in 0..(Line - 1) /\ m.left \in Nat
      /\ m.video.cycles = c /\ c >= Drawn
  BY VideoAssumption DEF Tracks, AtCycle
<1>2. /\ DOMAIN x = {"video", "dma", "left", "runs"} /\ DOMAIN x.video = VideoFields
      /\ x.left = m.left - step /\ x.dma = m.dma /\ x.runs = m.runs
      /\ x.video.cycles = c + step /\ x.video.vcount = m.video.vcount
      /\ x.video.hblank = m.video.hblank /\ Reaches(m.video, x.video)
  BY <1>1 DEF Tracks, Machine, VideoFields, Reaches
<1>3. step \in Nat /\ step > 0 /\ c + step = Line /\ m.left - step \in Nat
  BY <1>1
<1>4. Advance(m) = u
  <2> DEFINE boundary == (IF m.video.hblank THEN Line ELSE Drawn) - m.video.cycles
             by == IF m.left < boundary THEN m.left ELSE IF boundary > 0 THEN boundary ELSE 1
             ran == [m EXCEPT !.video.cycles = @ + by, !.left = @ - by]
             drawn == IF ~ran.video.hblank /\ ran.video.cycles >= Drawn THEN EnterHblank(ran)
                      ELSE ran
  <2>1. Advance(m) = IF drawn.video.cycles >= Line THEN NextLine(drawn) ELSE drawn
    BY DEF Advance
  <2>2. by = step
    BY <1>1, <1>3
  <2>3. ran = x
    BY <2>2
  <2>4. NextLine(x) = u
    BY DEF NextLine
  <2>5. x.video.cycles = Line /\ x.video.hblank
    BY <1>2, <1>3
  <2> HIDE DEF x, u, ran
  <2>6. drawn = x
    BY <2>3, <2>5
  <2> HIDE DEF drawn
  <2> QED  BY <1>1, <2>1, <2>4, <2>5, <2>6
<1> HIDE DEF x
<1>5. /\ DOMAIN h = {"video", "dma", "left", "runs"} /\ DOMAIN h.video = VideoFields
      /\ h.dma = m.dma /\ h.runs = m.runs /\ h.left = m.left - step
      /\ h.video.cycles = (c + step) - Line /\ h.video.vcount = (m.video.vcount + 1) % Lines
      /\ h.video.hblank = FALSE /\ Reaches(m.video, h.video)
  BY <1>2 DEF VideoFields, Reaches
<1> HIDE DEF h
<1>6. Machine(h)
  BY <1>5 DEF Machine, Tracks
<1>7. h.video.cycles = 0
  BY <1>1, <1>3, <1>5
<1>8. Machine(u) /\ u.video = Updated(h.video) /\ u.left = h.left
  BY <1>6, UpdateIs
<1> HIDE DEF u
<1>9. AtCycle(u.video, l + 1, 0) /\ EventsOK(u.video, l + 1, 0, b, w)
  BY <1>1, <1>5, <1>7, <1>8, LineEvents DEF Tracks
<1>10. u.left \in Nat /\ u.left < m.left /\ u.left = m.left - (Line - c)
  BY <1>1, <1>3, <1>5, <1>8
<1>11. Tracks(u, l + 1, 0, b, w, g)
  <2>1. Updated(h.video).target = g
    BY <1>5, UpdatedIs DEF Reaches, Tracks, EventsOK
  <2> QED  BY <1>8, <1>9, <1>10, <2>1 DEF Tracks
<1>12. Line * (l + 1) + 0 + u.left = total
  <2>1. Line * l \in Nat /\ Line * (l + 1) = Line * l + Line
    BY <1>1
  <2> QED  BY <1>1, <1>10, <2>1
<1>13. 0 \in 0..(Line - 1) /\ l + 1 \in Nat
  BY <1>1
<1>14. Reckons(u, total, b, w, g)
  BY <1>11, <1>12, <1>13 DEF Reckons
<1> QED  BY <1>4, <1>10, <1>14

LEMMA AdvanceTracks ==
    ASSUME NEW m, NEW total, NEW b, NEW w, NEW g, Reckons(m, total, b, w, g), m.left # 0
    PROVE  Reckons(Advance(m), total, b, w, g) /\ Advance(m).left \in Nat
           /\ Advance(m).left < m.left /\ m.left \in Nat
<1>1. PICK l \in Nat, c \in 0..(Line - 1) :
        Tracks(m, l, c, b, w, g) /\ total = Line * l + c + m.left
  BY DEF Reckons
<1>2. m.left \in Nat
  BY <1>1 DEF Tracks
<1>3. CASE m.left < (IF m.video.hblank THEN Line ELSE Drawn) - c
  <2>1. Reckons(Advance(m), total, b, w, g) /\ Advance(m).left = 0
    BY <1>1, <1>3, RestTracks
  <2> QED  BY <1>2, <2>1
<1>4. CASE ~m.video.hblank /\ ~ (m.left < Drawn - c)
  BY <1>1, <1>2, <1>4, HblankTracks
<1>5. CASE m.video.hblank /\ ~ (m.left < Line - c)
  BY <1>1, <1>2, <1>5, LineTracks
<1> QED  BY <1>3, <1>4, <1>5

OneTurn(m) == IF m.left = 0 THEN m ELSE Advance(m)
Turns(run, m, n) ==
    \A k \in 0..n : run[k] = IF k = 0 THEN m ELSE OneTurn(run[k - 1])

LEMMA TurnsRule ==
    ASSUME NEW m, m.left \in Nat
    PROVE  \E run : Turns(run, m, m.left) /\ StepPpu(m) = run[m.left]
<1> DEFINE n == m.left
           Rec(f) == f = [k \in 0..n |-> IF k = 0 THEN m ELSE OneTurn(f[k - 1])]
           Is(f, j) == f = [k \in 0..j |-> IF k = 0 THEN m ELSE OneTurn(f[k - 1])]
           S == {j \in Nat : j <= n => \E f : Is(f, j)}
<1>1. StepPpu(m) = (CHOOSE f : Rec(f))[n]
  BY DEF StepPpu, OneTurn
<1> HIDE DEF n
<1>0. n \in Nat
  BY DEF n
<1>2. 0 \in S
  <2>1. Is([k \in 0..0 |-> m], 0)
    OBVIOUS
  <2> QED  BY <2>1
<1>3. ASSUME NEW j \in Nat, j \in S PROVE j + 1 \in S
  <2>1. SUFFICES ASSUME j + 1 <= n PROVE \E f : Is(f, j + 1)
    OBVIOUS
  <2>2. PICK f : Is(f, j)
    BY <1>0, <1>3, <2>1
  <2> DEFINE g == [k \in 0..(j + 1) |-> IF k <= j THEN f[k] ELSE OneTurn(f[j])]
  <2>3. /\ \A k \in 0..j : g[k] = f[k]
        /\ g[j + 1] = OneTurn(f[j])
        /\ g = [k \in 0..(j + 1) |-> g[k]]
    OBVIOUS
  <2> HIDE DEF g
  <2>4. ASSUME NEW k \in 0..(j + 1)
        PROVE  g[k] = IF k = 0 THEN m ELSE OneTurn(g[k - 1])
    <3>1. CASE k = 0
      <4>1. 0 \in 0..j
        OBVIOUS
      <4>2. f[0] = m
        BY <2>2, <4>1
      <4>3. g[0] = f[0]
        BY <2>3, <4>1
      <4> QED  BY <3>1, <4>2, <4>3
    <3>2. CASE k \in 1..j
      <4>1. k \in 0..j /\ k - 1 \in 0..j /\ k # 0
        BY <3>2
      <4>2. g[k] = f[k] /\ g[k - 1] = f[k - 1] /\ f[k] = OneTurn(f[k - 1])
        BY <2>2, <2>3, <4>1
      <4> QED  BY <4>1, <4>2
    <3>3. CASE k = j + 1
      <4>1. k # 0 /\ k - 1 = j /\ j \in 0..j
        BY <3>3
      <4>2. g[j] = f[j]
        BY <2>3, <4>1
      <4> QED  BY <2>3, <3>3, <4>1, <4>2
    <3> QED  BY <3>1, <3>2, <3>3
  <2>5. Is(g, j + 1)
    BY <2>3, <2>4
  <2> QED  BY <2>5
<1>4. n \in S
  <2> HIDE DEF S
  <2> QED  BY <1>0, <1>2, <1>3, SetInduction
<1>5. PICK f : Rec(f)
  BY <1>4
<1> HIDE DEF Rec
<1>6. Rec(CHOOSE g : Rec(g))
  BY <1>5
<1> DEFINE r == CHOOSE g : Rec(g)
<1> HIDE DEF r
<1>7. \A k \in 0..n : r[k] = IF k = 0 THEN m ELSE OneTurn(r[k - 1])
  BY <1>6 DEF Rec, r
<1>8. StepPpu(m) = r[n]
  BY <1>1 DEF r
<1> QED  BY <1>7, <1>8 DEF Turns, n

(* The whole loop: no cycle is left.                                       *)
LEMMA StepTracks ==
    ASSUME NEW m, NEW total, NEW b, NEW w, NEW g, Reckons(m, total, b, w, g)
    PROVE  Reckons(StepPpu(m), total, b, w, g) /\ StepPpu(m).left = 0
<1> DEFINE n == m.left
<1>1. n \in Nat
  BY DEF Reckons, Tracks
<1>2. PICK run : Turns(run, m, n) /\ StepPpu(m) = run[n]
  BY <1>1, TurnsRule
<1> DEFINE P(k) == Reckons(run[k], total, b, w, g) /\ run[k].left \in Nat /\ run[k].left <= n - k
           S == {k \in Nat : k <= n => P(k)}
<1> HIDE DEF n
<1>3. P(0)
  <2>1. run[0] = m
    BY <1>1, <1>2 DEF Turns
  <2>2. m.left = n
    BY DEF n
  <2> QED  BY <1>1, <2>1, <2>2
<1>4. ASSUME NEW k \in Nat, k + 1 <= n, P(k) PROVE P(k + 1)
  <2> DEFINE x == run[k]
  <2>1. run[k + 1] = OneTurn(x)
    <3>1. k + 1 \in 0..n /\ k + 1 # 0 /\ (k + 1) - 1 = k
      BY <1>1, <1>4
    <3> QED  BY <1>2, <3>1 DEF Turns
  <2>2. Reckons(x, total, b, w, g) /\ x.left \in Nat /\ x.left <= n - k
    BY <1>4
  <2> HIDE DEF x
  <2>3. CASE x.left = 0
    <3>1. OneTurn(x) = x
      BY <2>3 DEF OneTurn
    <3> QED  BY <1>1, <1>4, <2>1, <2>2, <2>3, <3>1
  <2>4. CASE x.left # 0
    <3>1. OneTurn(x) = Advance(x)
      BY <2>4 DEF OneTurn
    <3>2. Reckons(Advance(x), total, b, w, g) /\ Advance(x).left \in Nat
          /\ Advance(x).left < x.left
      BY <2>2, <2>4, AdvanceTracks
    <3> QED  BY <1>1, <1>4, <2>1, <2>2, <3>1, <3>2
  <2> QED  BY <2>3, <2>4
<1> HIDE DEF P
<1>5. 0 \in S
  BY <1>3
<1>6. ASSUME NEW k \in Nat, k \in S PROVE k + 1 \in S
  BY <1>1, <1>4, <1>6
<1> HIDE DEF S
<1>7. n \in S
  BY <1>1, <1>5, <1>6, SetInduction
<1>8. P(n)
  BY <1>1, <1>7 DEF S
<1> QED  BY <1>1, <1>2, <1>8 DEF P

(***************************************************************************)
(* The steps of the system.                                                *)
(***************************************************************************)
ReachedFor(t, target) == Passed(t \div Line, t % Line, target)

(* The first boundary after a store at time t that left these flags.       *)
FirstAfter(t, flags) ==
    [line |-> IF t % Line < Drawn THEN t \div Line ELSE t \div Line + 1,
     cycle |-> IF t % Line < Drawn THEN Drawn ELSE 0,
     kept |-> flags]

VideoIInv ==
    /\ time \in Nat /\ since \in Nat
    /\ DOMAIN video = VideoFields
    /\ AtCycle(video, time \div Line, time % Line)
    /\ EventsOK(video, time \div Line, time % Line,
                Base(FirstAfter(since, kept), video.target), FirstAfter(since, kept))
    /\ DOMAIN dma = DmaChannels /\ DOMAIN armed = DmaChannels
    /\ \A c \in DmaChannels : /\ DOMAIN armed[c] = {"as", "runs"}
                              /\ Follows(c, armed[c].as, dma[c], armed[c].runs)

LEMMA TimeIs ==
    ASSUME NEW t \in Nat
    PROVE  /\ t \div Line \in Nat /\ t % Line \in 0..(Line - 1)
           /\ t = Line * (t \div Line) + (t % Line)
<1>1. Line \in Nat \ {0}
  BY VideoAssumption
<1>2. /\ t \div Line \in Int /\ t % Line \in 0..(Line - 1)
      /\ t = Line * (t \div Line) + (t % Line)
  BY <1>1, DivIs
<1>3. t \div Line \in Nat
  BY <1>1
<1> QED  BY <1>2, <1>3

LEMMA ReachedIs ==
    ASSUME NEW t \in Nat, NEW target \in Nat
    PROVE  /\ ReachedFor(t, target) \in [Events -> Int]
           /\ ReachedFor(t, target) =
                [vblank |-> Starting(VblankStart, t \div Line),
                 hblank |-> (t + Line - Drawn) \div Line,
                 match |-> IF target < Lines THEN Starting(target, t \div Line) ELSE 0]
<1> DEFINE l == t \div Line
           c == t % Line
           p == Passed(l, c, target)
<1>1. l \in Nat /\ c \in 0..(Line - 1) /\ t = Line * l + c
  BY TimeIs
<1> HIDE DEF l, c
<1>2. (t + Line - Drawn) \div Line = l + (IF c >= Drawn THEN 1 ELSE 0)
  BY <1>1, PlaceIs
<1>3. p = [vblank |-> Starting(VblankStart, l),
           hblank |-> (t + Line - Drawn) \div Line,
           match |-> IF target < Lines THEN Starting(target, l) ELSE 0]
  BY <1>2 DEF Passed
<1>4. \A e \in Events : p[e] \in Int
  BY <1>1, CountsAre
<1>5. p = [e \in Events |-> p[e]]
  BY DEF Passed, Events
<1> HIDE DEF p
<1>6. p \in [Events -> Int]
  BY <1>4, <1>5
<1> QED  BY <1>3, <1>6 DEF p, l, c, ReachedFor

(* A store of DISPSTAT begins a wait for the next boundary.                *)
LEMMA StoredWaits ==
    ASSUME NEW v, NEW t \in Nat, v.irqs \subseteq Events, v.target \in Nat,
           v.flags \subseteq Events, v.raised = [e \in Events |-> 0]
    PROVE  EventsOK(v, t \div Line, t % Line, Base(FirstAfter(t, v.flags), v.target),
                    FirstAfter(t, v.flags))
<1> DEFINE l == t \div Line
           c == t % Line
           w == FirstAfter(t, v.flags)
<1>1. l \in Nat /\ c \in 0..(Line - 1)
  BY TimeIs
<1>2. /\ w.line = IF c < Drawn THEN l ELSE l + 1
      /\ w.cycle = IF c < Drawn THEN Drawn ELSE 0
      /\ w.kept = v.flags
  BY DEF FirstAfter
<1> HIDE DEF l, c, w
<1>3. w.line \in Nat /\ w.cycle \in {0, Drawn} /\ w.cycle \in 0..(Line - 1)
  BY <1>1, <1>2, VideoAssumption
<1>4. Base(w, v.target) \in [Events -> Int]
  <2>1. ASSUME NEW e \in Events PROVE Passed(w.line, w.cycle, v.target)[e] \in Int
    BY <1>3, CountsAre
  <2> QED  BY <2>1 DEF Base
<1>5. Waiting(v, l, c, w)
  <2>1. Near(l, c, w)
    BY <1>2 DEF Near
  <2> QED  BY <1>2, <2>1 DEF Waiting
<1>6. v.raised \in [Events -> Int]
  OBVIOUS
<1> QED  BY <1>3, <1>4, <1>5, <1>6 DEF EventsOK, l, c, w

LEMMA VideoInitially == VideoInit => VideoIInv
<1> SUFFICES ASSUME VideoInit PROVE VideoIInv
  OBVIOUS
<1>1. /\ Line \in Nat \ {0} /\ Drawn \in Nat /\ 0 < Drawn /\ Drawn < Line
      /\ VblankStart \in Nat /\ 0 < VblankStart /\ Lines \in Nat \ {0}
  BY VideoAssumption
<1>2. time = 0 /\ since = 0 /\ kept = {}
  BY DEF VideoInit
<1>3. 0 \div Line = 0 /\ 0 % Line = 0
  <2>1. 0 \in 0..(Line - 1) /\ Line * 0 + 0 = 0
    BY <1>1
  <2> QED  BY <2>1, PlaceIs
<1>4. 0 % Lines = 0
  <2>1. 0 \in 0..(Lines - 1) /\ Lines * 0 + 0 = 0
    BY <1>1
  <2>2. (Lines * 0 + 0) % Lines = 0
    BY <1>1, <2>1, DivMod
  <2> QED  BY <2>1, <2>2
<1>5. /\ DOMAIN video = VideoFields /\ video.cycles = 0 /\ video.vcount = 0
      /\ video.hblank = FALSE /\ video.flags = {} /\ video.irqs = {} /\ video.target = 0
      /\ video.raised = [e \in Events |-> 0]
  BY DEF VideoInit, VideoFields
<1>6. AtCycle(video, 0, 0)
  <2>1. 0 \in 0..(Line - 1) /\ 0 \in Nat /\ ~ (0 >= Drawn)
    BY <1>1
  <2> QED  BY <1>4, <1>5, <2>1 DEF AtCycle
<1>9. EventsOK(video, 0, 0, Base(FirstAfter(0, {}), video.target), FirstAfter(0, {}))
  <2>1. /\ video.irqs \subseteq Events /\ video.target \in Nat /\ video.flags \subseteq Events
        /\ 0 \in Nat
    BY <1>5
  <2>2. EventsOK(video, 0 \div Line, 0 % Line,
                 Base(FirstAfter(0, video.flags), video.target), FirstAfter(0, video.flags))
    BY <1>5, <2>1, StoredWaits
  <2> QED  BY <1>3, <1>5, <2>2
<1>10. /\ dma = [c \in DmaChannels |-> Off]
       /\ armed = [c \in DmaChannels |-> [as |-> Off, runs |-> 0]]
  BY DEF VideoInit
<1>11. Off \in DmaRegisters
  BY DEF Off, DmaRegisters
<1>12. ASSUME NEW c \in DmaChannels
       PROVE  DOMAIN armed[c] = {"as", "runs"} /\ Follows(c, armed[c].as, dma[c], armed[c].runs)
  <2>1. dma[c] = Off /\ armed[c] = [as |-> Off, runs |-> 0]
    BY <1>10
  <2>2. Follows(c, Off, Off, 0)
    BY <1>11, StoredFollows
  <2> QED  BY <2>1, <2>2
<1>13. DOMAIN dma = DmaChannels /\ DOMAIN armed = DmaChannels
  BY <1>10
<1> QED  BY <1>2, <1>3, <1>5, <1>6, <1>9, <1>12, <1>13 DEF VideoIInv

LEMMA RoundKeeps ==
    ASSUME VideoIInv, NEW n \in Nat, Round(n)
    PROVE  VideoIInv'
<1> DEFINE s == [video |-> video, dma |-> dma, left |-> n,
                 runs |-> [c \in DmaChannels |-> armed[c].runs]]
           r == RunDma(s, 0)
           m == StepPpu(r)
           l == time \div Line
           c0 == time % Line
           w == FirstAfter(since, kept)
           b == Base(w, video.target)
<1>1. /\ time \in Nat /\ since \in Nat
      /\ DOMAIN video = VideoFields
      /\ AtCycle(video, l, c0) /\ EventsOK(video, l, c0, b, w)
      /\ DOMAIN dma = DmaChannels /\ DOMAIN armed = DmaChannels
      /\ \A c \in DmaChannels : /\ DOMAIN armed[c] = {"as", "runs"}
                                /\ Follows(c, armed[c].as, dma[c], armed[c].runs)
  BY DEF VideoIInv
<1>2. l \in Nat /\ c0 \in 0..(Line - 1) /\ time = Line * l + c0
  BY <1>1, TimeIs
<1>3. /\ DOMAIN s = {"video", "dma", "left", "runs"} /\ s.video = video /\ s.dma = dma
      /\ s.left = n /\ s.runs = [c \in DmaChannels |-> armed[c].runs]
  OBVIOUS
<1>4. /\ video' = m.video /\ dma' = m.dma /\ time' = time + n
      /\ armed' = [c \in DmaChannels |-> [armed[c] EXCEPT !.runs = m.runs[c]]]
      /\ since' = since /\ kept' = kept
  BY DEF Round
<1> HIDE DEF s, l, c0
<1>5. Machine(s)
  BY <1>1, <1>3 DEF Machine
<1>6. Machine(r) /\ r.video = video /\ r.left = n
  BY <1>3, <1>5, RunDmaFollows
<1> HIDE DEF r
<1>7. Tracks(r, l, c0, b, w, video.target)
  BY <1>1, <1>6 DEF Tracks
<1>8. Reckons(r, time + n, b, w, video.target)
  BY <1>2, <1>6, <1>7 DEF Reckons
<1>9. Reckons(m, time + n, b, w, video.target) /\ m.left = 0
  BY <1>8, StepTracks
<1> HIDE DEF m, b, w
<1>10. PICK k \in Nat, d \in 0..(Line - 1) :
         Tracks(m, k, d, b, w, video.target) /\ Line * k + d + m.left = time + n
  BY <1>9 DEF Reckons
<1>11. time' = Line * k + d
  <2>1. Line \in Nat
    BY VideoAssumption
  <2>2. Line * k \in Nat
    BY <2>1
  <2> QED  BY <1>4, <1>9, <1>10, <2>2
<1>12. time' \in Nat /\ time' \div Line = k /\ time' % Line = d
  BY <1>11, PlaceIs
<1>13. AtCycle(video', k, d) /\ EventsOK(video', k, d, b, w) /\ DOMAIN video' = VideoFields
       /\ video'.target = video.target
  BY <1>4, <1>10 DEF Tracks, Machine
<1>14. FirstAfter(since', kept') = w /\ Base(w, video'.target) = b
  BY <1>4, <1>13 DEF b, w
<1>15. DOMAIN dma' = DmaChannels /\ DOMAIN armed' = DmaChannels
  BY <1>4, <1>10 DEF Tracks, Machine
<1>16. ASSUME NEW c \in DmaChannels
       PROVE  DOMAIN armed'[c] = {"as", "runs"}
              /\ Follows(c, armed'[c].as, dma'[c], armed'[c].runs)
  <2>1. Follows(c, armed[c].as, m.dma[c], m.runs[c])
    BY <1>10 DEF Tracks, Machine
  <2>2. armed'[c] = [armed[c] EXCEPT !.runs = m.runs[c]]
    BY <1>4
  <2>3. DOMAIN armed'[c] = {"as", "runs"} /\ armed'[c].as = armed[c].as
        /\ armed'[c].runs = m.runs[c]
    BY <1>1, <2>2
  <2> QED  BY <1>4, <2>1, <2>3
<1> QED  BY <1>1, <1>4, <1>12, <1>13, <1>14, <1>15, <1>16 DEF VideoIInv

LEMMA StoreDmaKeeps ==
    ASSUME VideoIInv, NEW c \in DmaChannels, NEW d \in DmaRegisters, StoreDma(c, d)
    PROVE  VideoIInv'
<1>1. /\ dma' = [dma EXCEPT ![c] = d] /\ armed' = [armed EXCEPT ![c] = [as |-> d, runs |-> 0]]
      /\ video' = video /\ time' = time /\ since' = since /\ kept' = kept
  BY DEF StoreDma
<1>2. DOMAIN dma' = DmaChannels /\ DOMAIN armed' = DmaChannels
  BY <1>1 DEF VideoIInv
<1>3. ASSUME NEW k \in DmaChannels
      PROVE  DOMAIN armed'[k] = {"as", "runs"}
             /\ Follows(k, armed'[k].as, dma'[k], armed'[k].runs)
  <2>1. CASE k = c
    <3>1. dma'[k] = d /\ armed'[k] = [as |-> d, runs |-> 0]
      BY <1>1, <2>1 DEF VideoIInv
    <3>2. Follows(k, d, d, 0)
      BY StoredFollows
    <3> QED  BY <3>1, <3>2
  <2>2. CASE k # c
    <3>1. dma'[k] = dma[k] /\ armed'[k] = armed[k]
      BY <1>1, <2>2 DEF VideoIInv
    <3> QED  BY <3>1 DEF VideoIInv
  <2> QED  BY <2>1, <2>2
<1> QED  BY <1>1, <1>2, <1>3 DEF VideoIInv

LEMMA StoreDispstatKeeps ==
    ASSUME VideoIInv, NEW irqs \in SUBSET Events, NEW target \in Nat,
           NEW flags \in SUBSET Events, StoreDispstat(irqs, target, flags)
    PROVE  VideoIInv'
<1> DEFINE l == time \div Line
           c0 == time % Line
           w == FirstAfter(time, flags)
           zero == [e \in Events |-> 0]
<1>1. time \in Nat /\ DOMAIN video = VideoFields /\ AtCycle(video, l, c0)
  BY DEF VideoIInv
<1>2. /\ video' = [video EXCEPT !.irqs = irqs, !.target = target, !.flags = flags,
                                !.raised = zero]
      /\ since' = time /\ kept' = flags /\ dma' = dma /\ time' = time /\ armed' = armed
  BY DEF StoreDispstat
<1> HIDE DEF zero
<1>3. /\ DOMAIN video' = VideoFields /\ video'.cycles = video.cycles
      /\ video'.vcount = video.vcount /\ video'.hblank = video.hblank
      /\ video'.irqs = irqs /\ video'.target = target /\ video'.flags = flags
      /\ video'.raised = zero
  BY <1>1, <1>2 DEF VideoFields
<1> HIDE DEF l, c0
<1>4. AtCycle(video', l, c0)
  BY <1>1, <1>3 DEF AtCycle
<1>5. EventsOK(video', l, c0, Base(w, target), w)
  BY <1>1, <1>3, StoredWaits DEF zero, l, c0
<1>6. FirstAfter(since', kept') = w
  BY <1>2
<1>7. \A c \in DmaChannels : /\ DOMAIN armed'[c] = {"as", "runs"}
                             /\ Follows(c, armed'[c].as, dma'[c], armed'[c].runs)
  BY <1>2 DEF VideoIInv
<1>8. DOMAIN dma' = DmaChannels /\ DOMAIN armed' = DmaChannels
  BY <1>2 DEF VideoIInv
<1> HIDE DEF w
<1> QED  BY <1>1, <1>2, <1>3, <1>4, <1>5, <1>6, <1>7, <1>8 DEF VideoIInv, l, c0

LEMMA VideoKept == VideoIInv /\ [VideoNext]_videoVars => VideoIInv'
<1> SUFFICES ASSUME VideoIInv, [VideoNext]_videoVars PROVE VideoIInv'
  OBVIOUS
<1>1. CASE \E n \in RoundCycles : Round(n)
  <2>1. RoundCycles \subseteq Nat
    BY VideoAssumption
  <2> QED  BY <1>1, <2>1, RoundKeeps
<1>2. CASE \E c \in DmaChannels, d \in Setups : StoreDma(c, d)
  <2>1. Setups \subseteq DmaRegisters
    BY VideoAssumption
  <2> QED  BY <1>2, <2>1, StoreDmaKeeps
<1>3. CASE \E t \in Retargets, irqs \in {{}, Events} :
             \E flags \in {video.flags, {}, Events} : StoreDispstat(irqs, t, flags)
  <2>1. Retargets \subseteq Nat /\ video.flags \subseteq Events
    BY VideoAssumption DEF VideoIInv, EventsOK
  <2> QED  BY <1>3, <2>1, StoreDispstatKeeps
<1>4. CASE UNCHANGED videoVars
  BY <1>4 DEF VideoIInv, videoVars
<1> QED  BY <1>1, <1>2, <1>3, <1>4 DEF VideoNext

LEMMA VideoIsExact == VideoIInv => VideoExact
<1> SUFFICES ASSUME VideoIInv PROVE BeamExact /\ DmaFollows
  BY DEF VideoExact
<1> DEFINE l == time \div Line
           c0 == time % Line
           w == FirstAfter(since, kept)
           b == Base(w, video.target)
           first == NextBoundary(since)
<1>1. /\ time \in Nat /\ since \in Nat
      /\ AtCycle(video, l, c0) /\ EventsOK(video, l, c0, b, w)
      /\ video.target \in Nat /\ video.irqs \subseteq Events
      /\ w.line \in Nat /\ w.cycle \in {0, Drawn}
  BY DEF VideoIInv, EventsOK
<1>2. /\ Line \in Nat /\ Drawn \in Nat /\ 0 < Drawn /\ Drawn < Line
      /\ w.cycle \in 0..(Line - 1) /\ w.kept = kept
  BY <1>1, VideoAssumption DEF FirstAfter
<1>3. first = Line * w.line + w.cycle
  <2>1. /\ w.line = IF since % Line < Drawn THEN since \div Line ELSE since \div Line + 1
        /\ w.cycle = IF since % Line < Drawn THEN Drawn ELSE 0
    BY DEF FirstAfter
  <2>2. since \div Line \in Nat
    BY <1>1, TimeIs
  <2> DEFINE s == since \div Line
  <2> HIDE DEF s, w
  <2>3. first = Line * s + (IF since % Line < Drawn THEN Drawn ELSE Line)
    BY DEF NextBoundary, s
  <2>4. /\ w.line = IF since % Line < Drawn THEN s ELSE s + 1
        /\ w.cycle = IF since % Line < Drawn THEN Drawn ELSE 0
    BY <2>1 DEF s
  <2>5. s \in Nat /\ Line * (s + 1) = Line * s + Line /\ Line * s \in Nat
    BY <1>2, <2>2 DEF s
  <2> HIDE DEF first
  <2>6. CASE since % Line < Drawn
    BY <2>3, <2>4, <2>6
  <2>7. CASE ~ (since % Line < Drawn)
    BY <1>2, <2>3, <2>4, <2>5, <2>7
  <2> QED  BY <2>6, <2>7
<1> HIDE DEF first, w
<1>4. first \in Nat /\ first \div Line = w.line /\ first % Line = w.cycle
  BY <1>1, <1>2, <1>3, PlaceIs
<1>5. /\ ReachedFor(time, video.target) = Reached(time)
      /\ ReachedFor(first, video.target) = Reached(first)
  BY <1>1, <1>4, ReachedIs DEF Reached
<1>6. /\ Passed(l, c0, video.target) = Reached(time)
      /\ Passed(w.line, w.cycle, video.target) = Reached(first)
      /\ HeldAt(w.line, w.cycle, video.target) = Holding(first)
  BY <1>4, <1>5 DEF ReachedFor, HeldAt, Holding
<1>7. l \in Nat /\ c0 \in 0..(Line - 1) /\ time = Line * l + c0
  BY <1>1, TimeIs
<1> HIDE DEF l, c0
<1>8. /\ Waiting(video, l, c0, w) => time < first
      /\ Beyond(l, c0, w) => ~ (time < first)
  <2>1. /\ Line * l \in Nat /\ Line * w.line \in Nat
        /\ Line * (l + 1) = Line * l + Line
    BY <1>1, <1>2, <1>7
  <2>2. Waiting(video, l, c0, w) => time < first
    <3>1. ASSUME Near(l, c0, w) PROVE time < first
      <4>1. CASE c0 < Drawn
        BY <1>2, <1>3, <1>7, <2>1, <3>1, <4>1 DEF Near
      <4>2. CASE ~ (c0 < Drawn)
        <5>1. first = Line * l + Line
          BY <1>2, <1>3, <2>1, <3>1, <4>2 DEF Near
        <5> QED  BY ONLY <1>2, <1>7, <2>1, <5>1
      <4> QED  BY <4>1, <4>2
    <3> QED  BY <3>1 DEF Waiting
  <2>3. ASSUME l > w.line PROVE ~ (time < first)
    <3>1. PICK j \in Nat : l = w.line + 1 + j
      <4>1. l - w.line - 1 \in Nat
        BY <1>1, <1>7, <2>3
      <4> QED  BY <1>1, <1>7, <4>1
    <3>2. Line * l = Line * w.line + Line + Line * j /\ Line * j \in Nat
      BY <1>1, <1>2, <3>1
    <3> QED  BY ONLY <1>2, <1>3, <1>7, <2>1, <3>2
  <2>4. ASSUME l = w.line, c0 >= w.cycle PROVE ~ (time < first)
    BY <1>2, <1>3, <1>7, <2>1, <2>4
  <2> QED  BY <2>2, <2>3, <2>4 DEF Beyond
<1>9. /\ video.vcount = l % Lines /\ video.cycles = c0
      /\ (video.hblank <=> c0 >= Drawn)
  BY <1>1 DEF AtCycle
<1>10. ASSUME NEW e \in video.irqs
       PROVE  video.raised[e] = IF time < first THEN 0
                                ELSE Reached(time)[e] - Reached(first)[e]
                                     + (IF e \in Holding(first) \ kept THEN 1 ELSE 0)
  <2>1. e \in Events
    BY <1>1
  <2>2. CASE Waiting(video, l, c0, w)
    BY <1>8, <2>1, <2>2 DEF Waiting
  <2>3. CASE Counting(video, l, c0, b, w)
    <3>1. ~ (time < first) /\ video.raised[e] = Reached(time)[e] - b[e]
      BY <1>6, <1>8, <2>3 DEF Counting, CountsRight
    <3>2. b[e] = Reached(first)[e] - (IF e \in Holding(first) \ kept THEN 1 ELSE 0)
      BY <1>2, <1>6, <2>1 DEF Base
    <3>3. Reached(time)[e] \in Int /\ Reached(first)[e] \in Int
      BY <1>1, <1>2, <1>6, <1>7, <2>1, CountsAre
    <3> HIDE DEF b
    <3> QED  BY <3>1, <3>2, <3>3
  <2> QED  BY <1>1, <2>2, <2>3 DEF EventsOK
<1>11. BeamExact
  BY <1>9, <1>10 DEF BeamExact, l, c0, first
<1>12. ASSUME NEW c \in DmaChannels
      PROVE  LET a == armed[c].as
                 n == armed[c].runs
                 immediate == a.timing = 0 \/ (c = 0 /\ a.timing = 3)
             IN  /\ ~a.on \/ (a.timing = 3 /\ c # 0) => n = 0
                 /\ ~a.repeat \/ immediate => n =< 1
                 /\ dma[c].on <=> a.on /\ (n = 0 \/ (a.repeat /\ ~immediate))
                 /\ dma[c].src = a.src + n * a.units * a.srcStep
                 /\ dma[c].dst = a.dst + (IF a.reload /\ a.repeat /\ ~immediate
                                          THEN 0 ELSE n * a.units * a.dstStep)
  <2> DEFINE a == armed[c].as
             n == armed[c].runs
             immediate == a.timing = 0 \/ (c = 0 /\ a.timing = 3)
  <2>1. Follows(c, a, dma[c], n)
    BY DEF VideoIInv
  <2>2. /\ immediate <=> Effective(c, a) = 0
        /\ (a.timing = 3 /\ c # 0) <=> Effective(c, a) = 3
    <3>1. CASE c = 0 /\ a.timing = 3
      BY <3>1 DEF Effective
    <3>2. CASE ~ (c = 0 /\ a.timing = 3)
      <4>1. Effective(c, a) = a.timing
        BY <3>2 DEF Effective
      <4> QED  BY <3>2, <4>1
    <3> QED  BY <3>1, <3>2
  <2> DEFINE stopped == a.timing = 3 /\ c # 0
  <2>3. stopped <=> Effective(c, a) = 3
    BY <2>2
  <2> HIDE DEF immediate, stopped, a, n
  <2>4. /\ ~a.on \/ stopped => n = 0
        /\ ~a.repeat \/ immediate => n =< 1
        /\ dma[c].on <=> a.on /\ (n = 0 \/ (a.repeat /\ ~immediate))
        /\ dma[c].src = a.src + n * a.units * a.srcStep
        /\ dma[c].dst = a.dst + (IF a.reload /\ a.repeat /\ ~immediate
                                 THEN 0 ELSE n * a.units * a.dstStep)
    BY <2>1, <2>2, <2>3 DEF Follows
  <2> QED  BY <2>4 DEF immediate, stopped, a, n
<1>13. DmaFollows
  BY <1>12 DEF DmaFollows
<1> QED  BY <1>11, <1>13

(* However the rounds cut the time, the beam is where the cycles since     *)
(* reset put it; from the boundary after a store of DISPSTAT on, every     *)
(* VBlank, HBlank and target line has its one interrupt, and at that       *)
(* boundary every event that holds and was not stored set; every channel's *)
(* registers follow from its transfers (step_ppu, update_dispstat,         *)
(* run_dma): of every length of line and frame, every     *)
(* round, and every store, over the flags or with a target of any line,    *)
(* the current one too.                                                    *)
THEOREM BeamIsExact == VideoSpec => []VideoExact
<1>1. VideoSpec => []VideoIInv
  BY VideoInitially, VideoKept, PTL DEF VideoSpec
<1> QED  BY <1>1, VideoIsExact, PTL

(***************************************************************************)
(* The prefetch buffer of the Game Pak: the cycles that its halfwords      *)
(* would have cost.                                                        *)
(***************************************************************************)
Settings == [first : [1..3 -> 0..3], next : [1..3 -> 0..1], prefetch : BOOLEAN, sram : 0..3]
SeqOf(w, a) ==
    LET r == Region(a) + 1 IN IF ~InGamePak(a) THEN 0 ELSE SeqWait[r][w.next[r] + 1]
NseqOf(w, a) ==
    LET r == Region(a) + 1 IN IF ~InGamePak(a) THEN 0 ELSE NseqWait[w.first[r] + 1]

LEMMA HalfwordIs ==
    ASSUME NEW a
    PROVE  /\ HalfwordWait(a, TRUE) = SeqOf(waitcnt, a)
           /\ HalfwordWait(a, FALSE) = NseqOf(waitcnt, a)
BY DEF HalfwordWait, SeqOf, NseqOf

LEMMA WaitIs ==
    ASSUME NEW w \in Settings, NEW a \in Int
    PROVE  /\ SeqOf(w, a) \in Nat /\ NseqOf(w, a) \in Nat
           /\ InGamePak(a) => SeqOf(w, a) >= 1
           /\ ~InGamePak(a) => SeqOf(w, a) = 0 /\ NseqOf(w, a) = 0
<1> DEFINE r == Region(a) + 1
<1>1. r = 1 \/ r = 2 \/ r = 3
  BY DEF Region
<1> HIDE DEF r
<1>2. /\ w.next[r] + 1 = 1 \/ w.next[r] + 1 = 2
      /\ w.first[r] + 1 \in {1, 2, 3, 4}
  <2>1. w.next \in [1..3 -> 0..1] /\ w.first \in [1..3 -> 0..3]
    BY DEF Settings
  <2>2. w.next[r] \in 0..1 /\ w.first[r] \in 0..3
    BY <1>1, <2>1
  <2> QED  BY <2>2
<1>3. NseqWait[w.first[r] + 1] \in Nat
  BY <1>2 DEF NseqWait
<1> DEFINE k == w.next[r] + 1
<1>4. SeqWait[r][k] \in Nat /\ SeqWait[r][k] >= 1
  <2> HIDE DEF k
  <2>1. SeqWait[1] = <<2, 1>> /\ SeqWait[2] = <<4, 1>> /\ SeqWait[3] = <<8, 1>>
    BY DEF SeqWait
  <2>2. k = 1 \/ k = 2
    BY <1>2 DEF k
  <2>3. CASE r = 1
    BY <2>1, <2>2, <2>3
  <2>4. CASE r = 2
    BY <2>1, <2>2, <2>4
  <2>5. CASE r = 3
    BY <2>1, <2>2, <2>5
  <2> QED  BY <1>1, <2>3, <2>4, <2>5
<1>5. /\ SeqOf(w, a) = IF ~InGamePak(a) THEN 0 ELSE SeqWait[r][k]
      /\ NseqOf(w, a) = IF ~InGamePak(a) THEN 0 ELSE NseqWait[w.first[r] + 1]
  BY DEF SeqOf, NseqOf, r
<1> HIDE DEF k
<1> QED  BY <1>3, <1>4, <1>5

(* What q following halfwords from a on cost.                              *)
Share(w, a, i, q) == IF i < q THEN SeqOf(w, a + 2 * i) ELSE 0
Cost(w, a, q) ==
    Share(w, a, 0, q) + Share(w, a, 1, q) + Share(w, a, 2, q) + Share(w, a, 3, q)
      + Share(w, a, 4, q) + Share(w, a, 5, q) + Share(w, a, 6, q) + Share(w, a, 7, q)

LEMMA ShareIs ==
    ASSUME NEW w \in Settings, NEW a \in Int, NEW i \in 0..7, NEW q \in 0..8
    PROVE  Share(w, a, i, q) \in Nat
BY WaitIs DEF Share

LEMMA CostIs ==
    ASSUME NEW w \in Settings, NEW a \in Int, NEW q \in 0..8
    PROVE  /\ Cost(w, a, q) \in Nat /\ Cost(w, a, 0) = 0
           /\ q >= 1 => Cost(w, a, q) >= SeqOf(w, a)
           /\ q <= 7 => Cost(w, a, q + 1) = Cost(w, a, q) + SeqOf(w, a + 2 * q)
<1>1. \A i \in 0..7 : Share(w, a, i, q) \in Nat
  BY ShareIs
<1>2. Cost(w, a, q) \in Nat
  BY <1>1 DEF Cost
<1>3. Cost(w, a, 0) = 0
  BY DEF Cost, Share
<1>4. q >= 1 => Cost(w, a, q) >= SeqOf(w, a)
  <2>1. q >= 1 => Share(w, a, 0, q) = SeqOf(w, a)
    BY DEF Share
  <2> QED  BY <1>1, <2>1 DEF Cost
<1>5. ASSUME q <= 7
      PROVE  Cost(w, a, q + 1) = Cost(w, a, q) + SeqOf(w, a + 2 * q)
  <2>1. ASSUME NEW i \in 0..7
        PROVE  Share(w, a, i, q + 1) = Share(w, a, i, q)
                 + (IF i = q THEN SeqOf(w, a + 2 * q) ELSE 0)
    <3>1. SeqOf(w, a + 2 * i) \in Nat
      BY WaitIs
    <3> QED  BY <3>1 DEF Share
  <2>2. SeqOf(w, a + 2 * q) \in Nat
    BY WaitIs
  <2>3. /\ Share(w, a, 0, q + 1) = Share(w, a, 0, q) + (IF 0 = q THEN SeqOf(w, a + 2 * q) ELSE 0)
        /\ Share(w, a, 1, q + 1) = Share(w, a, 1, q) + (IF 1 = q THEN SeqOf(w, a + 2 * q) ELSE 0)
        /\ Share(w, a, 2, q + 1) = Share(w, a, 2, q) + (IF 2 = q THEN SeqOf(w, a + 2 * q) ELSE 0)
        /\ Share(w, a, 3, q + 1) = Share(w, a, 3, q) + (IF 3 = q THEN SeqOf(w, a + 2 * q) ELSE 0)
        /\ Share(w, a, 4, q + 1) = Share(w, a, 4, q) + (IF 4 = q THEN SeqOf(w, a + 2 * q) ELSE 0)
        /\ Share(w, a, 5, q + 1) = Share(w, a, 5, q) + (IF 5 = q THEN SeqOf(w, a + 2 * q) ELSE 0)
        /\ Share(w, a, 6, q + 1) = Share(w, a, 6, q) + (IF 6 = q THEN SeqOf(w, a + 2 * q) ELSE 0)
        /\ Share(w, a, 7, q + 1) = Share(w, a, 7, q) + (IF 7 = q THEN SeqOf(w, a + 2 * q) ELSE 0)
    BY <2>1
  <2> DEFINE z == SeqOf(w, a + 2 * q)
  <2>4. q = 0 \/ q = 1 \/ q = 2 \/ q = 3 \/ q = 4 \/ q = 5 \/ q = 6 \/ q = 7
    BY <1>5
  <2>5. /\ Cost(w, a, q + 1) = Share(w, a, 0, q + 1) + Share(w, a, 1, q + 1)
             + Share(w, a, 2, q + 1) + Share(w, a, 3, q + 1) + Share(w, a, 4, q + 1)
             + Share(w, a, 5, q + 1) + Share(w, a, 6, q + 1) + Share(w, a, 7, q + 1)
        /\ Cost(w, a, q) = Share(w, a, 0, q) + Share(w, a, 1, q) + Share(w, a, 2, q)
             + Share(w, a, 3, q) + Share(w, a, 4, q) + Share(w, a, 5, q)
             + Share(w, a, 6, q) + Share(w, a, 7, q)
    BY DEF Cost
  <2> HIDE DEF z
  <2>6. CASE q = 0
    BY <1>1, <2>2, <2>3, <2>5, <2>6 DEF z
  <2>7. CASE q = 1
    BY <1>1, <2>2, <2>3, <2>5, <2>7 DEF z
  <2>8. CASE q = 2
    BY <1>1, <2>2, <2>3, <2>5, <2>8 DEF z
  <2>9. CASE q = 3
    BY <1>1, <2>2, <2>3, <2>5, <2>9 DEF z
  <2>10. CASE q = 4
    BY <1>1, <2>2, <2>3, <2>5, <2>10 DEF z
  <2>11. CASE q = 5
    BY <1>1, <2>2, <2>3, <2>5, <2>11 DEF z
  <2>12. CASE q = 6
    BY <1>1, <2>2, <2>3, <2>5, <2>12 DEF z
  <2>13. CASE q = 7
    BY <1>1, <2>2, <2>3, <2>5, <2>13 DEF z
  <2> QED  BY <2>4, <2>6, <2>7, <2>8, <2>9, <2>10, <2>11, <2>12, <2>13
<1> QED  BY <1>2, <1>3, <1>4, <1>5

(* The first one or two halfwords and the rest.                            *)
LEMMA CostSplits ==
    ASSUME NEW w \in Settings, NEW a \in Int, NEW q \in 1..8
    PROVE  Cost(w, a, q) = SeqOf(w, a) + Cost(w, a + 2, q - 1)
<1>1. ASSUME NEW i \in 0..6
      PROVE  Share(w, a, i + 1, q) = Share(w, a + 2, i, q - 1)
  <2>1. a + 2 * (i + 1) = a + 2 + 2 * i
    OBVIOUS
  <2> QED  BY <2>1 DEF Share
<1>2. /\ Share(w, a, 1, q) = Share(w, a + 2, 0, q - 1)
      /\ Share(w, a, 2, q) = Share(w, a + 2, 1, q - 1)
      /\ Share(w, a, 3, q) = Share(w, a + 2, 2, q - 1)
      /\ Share(w, a, 4, q) = Share(w, a + 2, 3, q - 1)
      /\ Share(w, a, 5, q) = Share(w, a + 2, 4, q - 1)
      /\ Share(w, a, 6, q) = Share(w, a + 2, 5, q - 1)
      /\ Share(w, a, 7, q) = Share(w, a + 2, 6, q - 1)
  BY <1>1
<1>3. Share(w, a, 0, q) = SeqOf(w, a) /\ Share(w, a + 2, 7, q - 1) = 0
  BY DEF Share
<1>4. \A i \in 0..7 : Share(w, a, i, q) \in Nat
  <2>1. q \in 0..8
    OBVIOUS
  <2> QED  BY <2>1, ShareIs
<1>5. \A i \in 0..7 : Share(w, a + 2, i, q - 1) \in Nat
  <2>1. q - 1 \in 0..8 /\ a + 2 \in Int
    OBVIOUS
  <2> QED  BY <2>1, ShareIs
<1> QED  BY <1>2, <1>3, <1>4, <1>5 DEF Cost

(* The wait of an access of n halfwords.                                   *)
Following(a, n) == WaitCycles(a, n, TRUE)
Anew(a, n) == WaitCycles(a, n, FALSE)
LEMMA AccessIs ==
    ASSUME waitcnt \in Settings, NEW a \in Int, a >= RomStart
    PROVE  /\ Following(a, 0) = 0 /\ Following(a, 1) = SeqOf(waitcnt, a)
           /\ Following(a, 2) = SeqOf(waitcnt, a) + SeqOf(waitcnt, a + 2)
           /\ Anew(a, 0) = 0 /\ Anew(a, 1) = NseqOf(waitcnt, a)
           /\ Anew(a, 2) = NseqOf(waitcnt, a) + SeqOf(waitcnt, a + 2)
<1>1. /\ HalfwordWait(a, TRUE) = SeqOf(waitcnt, a)
      /\ HalfwordWait(a, FALSE) = NseqOf(waitcnt, a)
      /\ HalfwordWait(a + 2, TRUE) = SeqOf(waitcnt, a + 2)
  BY HalfwordIs
<1>2. /\ SeqOf(waitcnt, a) \in Nat /\ NseqOf(waitcnt, a) \in Nat
      /\ SeqOf(waitcnt, a + 2) \in Nat
  BY WaitIs
<1>3. CASE InGamePak(a)
  <2>1. Following(a, 0) = 0 /\ Anew(a, 0) = 0
    BY DEF WaitCycles, Following, Anew
  <2>2. Following(a, 1) = HalfwordWait(a, TRUE) + 0
    BY <1>3 DEF WaitCycles, Following, Anew
  <2>3. Anew(a, 1) = HalfwordWait(a, FALSE) + 0
    BY <1>3 DEF WaitCycles, Following, Anew
  <2>4. Following(a, 2) = HalfwordWait(a, TRUE) + HalfwordWait(a + 2, TRUE)
    BY <1>3 DEF WaitCycles, Following, Anew
  <2>5. Anew(a, 2) = HalfwordWait(a, FALSE) + HalfwordWait(a + 2, TRUE)
    BY <1>3 DEF WaitCycles, Following, Anew
  <2> DEFINE x == SeqOf(waitcnt, a)
             z == NseqOf(waitcnt, a)
             y == SeqOf(waitcnt, a + 2)
  <2>6. x \in Nat /\ y \in Nat /\ z \in Nat
    BY <1>2
  <2>7. /\ Following(a, 1) = x + 0 /\ Anew(a, 1) = z + 0
        /\ Following(a, 2) = x + y /\ Anew(a, 2) = z + y
    BY <1>1, <2>2, <2>3, <2>4, <2>5, Zenon
  <2> HIDE DEF x, y, z
  <2>8. x + 0 = x /\ z + 0 = z
    BY <2>6
  <2> QED  BY <2>1, <2>7, <2>8, Zenon DEF x, y, z
<1>4. CASE ~InGamePak(a)
  <2>1. ~InGamePak(a + 2)
    <3>1. RomStart \in Nat /\ RomEnd \in Nat
      BY SMT DEF RomStart, RomEnd
    <3> QED  BY <1>4, <3>1 DEF InGamePak
  <2>2. SeqOf(waitcnt, a) = 0 /\ NseqOf(waitcnt, a) = 0 /\ SeqOf(waitcnt, a + 2) = 0
    BY <1>4, <2>1, WaitIs
  <2> QED  BY <1>4, <2>2 DEF WaitCycles, Following, Anew
<1> QED  BY <1>3, <1>4

(* The buffer holds what the cycles of the run have paid for: credit pays   *)
(* for every halfword queued, and when the stream has left the Game Pak,    *)
(* for the next halfword of the run.                                        *)
Streams(f) ==
    /\ DOMAIN f = {"active", "expected", "queued"}
    /\ f.active \in BOOLEAN /\ f.expected \in Int /\ f.queued \in 0..8
Pays(w, f, at, c) ==
    /\ Streams(f) /\ c \in Nat
    /\ f.active => f.expected = at /\ Cost(w, at, f.queued) <= c
    /\ ~f.active => f.queued = 0 /\ (InGamePak(at) => SeqOf(w, at) <= c)
BusIInv ==
    /\ waitcnt \in Settings /\ pending \in Nat /\ flow \in Int
    /\ Pays(waitcnt, fetching, flow, credit)

LEMMA RomIs ==
    /\ RomStart \in Nat /\ RomEnd \in Nat /\ 0 < RomStart /\ ~InGamePak(0)
    /\ \A a \in Int : InGamePak(a) => RomStart <= a
<1>1. RomStart \in Nat /\ RomEnd \in Nat /\ 0 < RomStart
  BY SMT DEF RomStart, RomEnd
<1> QED  BY <1>1 DEF InGamePak

LEMMA NoFetchIs == Streams(NoFetch) /\ NoFetch.active = FALSE /\ NoFetch.queued = 0
BY DEF NoFetch, Streams

(* What a fetch of n halfwords takes from the buffer and from the bus.     *)
Taken(a, n, queue, used, wait) ==
    /\ Cost(waitcnt, a + 2 * n, queue - used) \in Nat
    /\ wait \in Nat /\ Following(a, n) \in Nat
    /\ Cost(waitcnt, a + 2 * n, queue - used) + Following(a, n) - wait
         = Cost(waitcnt, a, queue)
LEMMA FetchPays ==
    ASSUME waitcnt \in Settings, NEW a \in Int, InGamePak(a), NEW n, n = 1 \/ n = 2,
           NEW queue \in 0..8, NEW used, used = IF queue < n THEN queue ELSE n,
           NEW wait, wait = Following(a + 2 * used, n - used)
    PROVE  Taken(a, n, queue, used, wait)
<1> DEFINE x == SeqOf(waitcnt, a)
           y == SeqOf(waitcnt, a + 2)
<1>1. a >= RomStart /\ a + 2 \in Int /\ a + 2 >= RomStart /\ a + 4 \in Int
      /\ a + 4 >= RomStart
  BY RomIs
<1>2. x \in Nat /\ y \in Nat
  BY <1>1, WaitIs
<1>3. /\ Following(a, 1) = x /\ Following(a, 2) = x + y
      /\ Following(a + 2, 0) = 0 /\ Following(a + 2, 1) = y
      /\ Following(a + 4, 0) = 0
  BY <1>1, AccessIs
<1>4. \A q \in 0..8 : /\ Cost(waitcnt, a, q) \in Nat /\ Cost(waitcnt, a + 2, q) \in Nat
                     /\ Cost(waitcnt, a + 4, q) \in Nat
  BY <1>1, CostIs
<1>5. /\ Cost(waitcnt, a, 0) = 0 /\ Cost(waitcnt, a + 2, 0) = 0
      /\ Cost(waitcnt, a + 4, 0) = 0
  BY <1>1, CostIs
<1>6. ASSUME NEW q \in 1..8
      PROVE  /\ Cost(waitcnt, a, q) = x + Cost(waitcnt, a + 2, q - 1)
             /\ Cost(waitcnt, a + 2, q) = y + Cost(waitcnt, a + 4, q - 1)
  <2>1. Cost(waitcnt, a, q) = x + Cost(waitcnt, a + 2, q - 1)
    BY CostSplits
  <2>2. Cost(waitcnt, a + 2, q) = y + Cost(waitcnt, (a + 2) + 2, q - 1)
    BY <1>1, CostSplits
  <2>3. (a + 2) + 2 = a + 4
    OBVIOUS
  <2> QED  BY <2>1, <2>2, <2>3
<1> HIDE DEF x, y
<1>7. CASE n = 1
  <2>1. CASE queue = 0
    <3>1. used = 0 /\ n - used = 1 /\ a + 2 * used = a /\ a + 2 * n = a + 2 /\ queue - used = 0
      BY <1>7, <2>1
    <3>2. wait = x /\ Following(a, n) = x
      BY <1>3, <1>7, <3>1
    <3>3. Cost(waitcnt, a + 2 * n, queue - used) = 0 /\ Cost(waitcnt, a, queue) = 0
      BY <1>5, <2>1, <3>1
    <3> QED  BY <1>2, <3>2, <3>3 DEF Taken
  <2>2. CASE queue # 0
    <3>1. used = 1 /\ n - used = 0 /\ a + 2 * used = a + 2 /\ a + 2 * n = a + 2
          /\ queue - used = queue - 1 /\ queue - 1 \in 0..8 /\ queue \in 1..8
      BY <1>7, <2>2
    <3>2. Cost(waitcnt, a, queue) = x + Cost(waitcnt, a + 2, queue - 1)
      BY <1>6, <3>1
    <3>3. Cost(waitcnt, a + 2, queue - 1) \in Nat
      BY <1>4, <3>1
    <3> QED  BY <1>2, <1>3, <1>7, <3>1, <3>2, <3>3 DEF Taken
  <2> QED  BY <2>1, <2>2
<1>8. CASE n = 2
  <2>1. CASE queue = 0
    <3>1. used = 0 /\ n - used = 2 /\ a + 2 * used = a /\ a + 2 * n = a + 4 /\ queue - used = 0
      BY <1>8, <2>1
    <3>2. wait = x + y /\ Following(a, n) = x + y
      BY <1>3, <1>8, <3>1
    <3>3. Cost(waitcnt, a + 2 * n, queue - used) = 0 /\ Cost(waitcnt, a, queue) = 0
      BY <1>5, <2>1, <3>1
    <3> QED  BY <1>2, <3>2, <3>3 DEF Taken
  <2>2. CASE queue = 1
    <3>1. used = 1 /\ n - used = 1 /\ a + 2 * used = a + 2 /\ a + 2 * n = a + 4
          /\ queue - used = 0 /\ queue \in 1..8 /\ queue - 1 = 0
      BY <1>8, <2>2
    <3>2. Cost(waitcnt, a, queue) = x + Cost(waitcnt, a + 2, queue - 1)
      BY <1>6, <3>1
    <3>3. wait = y /\ Following(a, n) = x + y
      BY <1>3, <1>8, <3>1
    <3>4. Cost(waitcnt, a + 2 * n, queue - used) = 0 /\ Cost(waitcnt, a, queue) = x
      BY <1>2, <1>5, <3>1, <3>2
    <3> QED  BY <1>2, <3>3, <3>4 DEF Taken
  <2>3. CASE queue > 1
    <3>1. used = 2 /\ n - used = 0 /\ a + 2 * used = a + 4 /\ a + 2 * n = a + 4
          /\ queue - used = queue - 2 /\ queue \in 1..8 /\ queue - 1 \in 1..8
          /\ (queue - 1) - 1 = queue - 2 /\ queue - 2 \in 0..8
      BY <1>8, <2>3
    <3>2. Cost(waitcnt, a, queue) = x + Cost(waitcnt, a + 2, queue - 1)
      BY <1>6, <3>1
    <3>3. Cost(waitcnt, a + 2, queue - 1) = y + Cost(waitcnt, a + 4, queue - 2)
      <4>1. Cost(waitcnt, a + 2, queue - 1) = y + Cost(waitcnt, a + 4, (queue - 1) - 1)
        BY <1>6, <3>1
      <4> QED  BY <3>1, <4>1
    <3>4. Cost(waitcnt, a + 4, queue - 2) \in Nat
      BY <1>4, <3>1
    <3> QED  BY <1>2, <1>3, <1>8, <3>1, <3>2, <3>3, <3>4 DEF Taken
  <2> QED  BY <2>1, <2>2, <2>3
<1> QED  BY <1>7, <1>8

LEMMA BusInitially == BusInit => BusIInv
<1> SUFFICES ASSUME BusInit PROVE BusIInv
  OBVIOUS
<1>1. waitcnt \in Settings
  BY BusAssumption DEF BusInit, Settings
<1>2. Streams(NoFetch) /\ NoFetch.active = FALSE /\ NoFetch.queued = 0 /\ ~InGamePak(0)
  BY RomIs, NoFetchIs
<1>3. fetching = NoFetch /\ pending = 0 /\ flow = 0 /\ credit = 0
  BY DEF BusInit
<1> QED  BY <1>1, <1>2, <1>3 DEF BusIInv, Pays

LEMMA BeginStepKeeps ==
    ASSUME BusIInv, NEW a \in Int, NEW bytes \in {2, 4}, BeginStep(a, bytes)
    PROVE  BusIInv'
<1> DEFINE f == IF waitcnt.prefetch THEN fetching ELSE [fetching EXCEPT !.queued = 0]
           n == bytes \div 2
           flows == f.active /\ a = f.expected
           queue == IF flows THEN f.queued ELSE 0
           used == IF ~waitcnt.prefetch THEN 0 ELSE IF queue < n THEN queue ELSE n
           left == IF waitcnt.prefetch THEN queue - used ELSE 0
           wait == WaitCycles(a + 2 * used, n - used, flows)
           whole == WaitCycles(a, n, a = flow)
<1>1. /\ waitcnt \in Settings /\ pending \in Nat /\ flow \in Int
      /\ Pays(waitcnt, fetching, flow, credit)
  BY DEF BusIInv
<1>2. /\ fetching.active \in BOOLEAN /\ fetching.queued \in 0..8 /\ credit \in Nat
      /\ waitcnt.prefetch \in BOOLEAN /\ n \in {1, 2} /\ bytes = 2 * n
  BY <1>1 DEF Pays, Streams, Settings
<1>3. /\ waitcnt' = waitcnt
      /\ fetching' = IF InGamePak(a)
                     THEN [active |-> TRUE, expected |-> a + bytes, queued |-> left]
                     ELSE NoFetch
      /\ pending' = IF InGamePak(a) THEN wait ELSE 0
      /\ flow' = IF InGamePak(a) THEN a + bytes ELSE 0
      /\ credit' = (IF a = flow THEN credit ELSE 0) - (whole - pending')
  BY DEF BeginStep, Fetched
<1>4. CASE ~InGamePak(a)
  <2>1. whole = 0
    BY <1>4 DEF WaitCycles
  <2>2. Streams(NoFetch) /\ NoFetch.active = FALSE /\ NoFetch.queued = 0 /\ ~InGamePak(0)
    BY RomIs, NoFetchIs
  <2>3. fetching' = NoFetch /\ pending' = 0 /\ flow' = 0 /\ credit' \in Nat
    BY <1>2, <1>3, <1>4, <2>1
  <2> QED  BY <1>1, <1>3, <2>2, <2>3 DEF BusIInv, Pays
<1>5. CASE InGamePak(a)
  <2> DEFINE paid == IF a = flow THEN credit ELSE 0
             rest == Cost(waitcnt, a + bytes, left)
  <2>1. a \in Int /\ a >= RomStart /\ a + bytes \in Int /\ a + 2 \in Int
    BY <1>2, <1>5, RomIs
  <2>2. f.active = fetching.active /\ f.expected = fetching.expected
        /\ f.queued = IF waitcnt.prefetch THEN fetching.queued ELSE 0
    BY <1>1 DEF Pays, Streams
  <2>3. Cost(waitcnt, a + bytes, 0) = 0
    BY <1>1, <2>1, CostIs
  <2>4. SeqOf(waitcnt, a) \in Nat /\ NseqOf(waitcnt, a) \in Nat
        /\ SeqOf(waitcnt, a + 2) \in Nat
    BY <1>1, <2>1, WaitIs
  <2>5. /\ Following(a, 1) = SeqOf(waitcnt, a)
        /\ Following(a, 2) = SeqOf(waitcnt, a) + SeqOf(waitcnt, a + 2)
        /\ Anew(a, 1) = NseqOf(waitcnt, a)
        /\ Anew(a, 2) = NseqOf(waitcnt, a) + SeqOf(waitcnt, a + 2)
    BY <1>1, <2>1, AccessIs
  <2> HIDE DEF f
  <2>6. left \in 0..8 /\ wait \in Nat /\ rest \in Nat
        /\ paid - (whole - wait) \in Nat /\ rest <= paid - (whole - wait)
    <3>1. CASE ~flows
      <4>1. queue = 0 /\ used = 0 /\ left = 0 /\ a + 2 * used = a /\ n - used = n
            /\ flows = FALSE
        BY <1>2, <3>1
      <4>2. rest = 0
        BY <2>3, <4>1
      <4>3. wait = Anew(a, n)
        BY <4>1 DEF Anew
      <4>4. CASE a = flow
        <5>1. ~fetching.active
          BY <1>1, <2>2, <3>1, <4>4 DEF Pays
        <5>2. SeqOf(waitcnt, a) <= credit
          BY <1>1, <1>5, <4>4, <5>1 DEF Pays
        <5>3. whole = Following(a, n)
          <6>1. (a = flow) = TRUE
            BY <4>4
          <6> QED  BY <6>1 DEF Following
        <5> HIDE DEF whole, wait, rest, left
        <5> QED  BY <1>2, <2>4, <2>5, <4>1, <4>2, <4>3, <4>4, <5>2, <5>3
      <4>5. CASE a # flow
        <5>1. whole = Anew(a, n)
          <6>1. (a = flow) = FALSE
            BY <4>5
          <6> QED  BY <6>1 DEF Anew
        <5> HIDE DEF whole, wait, rest, left
        <5> QED  BY <1>2, <2>4, <2>5, <4>1, <4>2, <4>3, <4>5, <5>1
      <4> QED  BY <4>4, <4>5
    <3>2. CASE flows
      <4>1. a = flow /\ flows = TRUE /\ (a = flow) = TRUE
            /\ Cost(waitcnt, a, fetching.queued) <= credit
        BY <1>1, <2>2, <3>2 DEF Pays
      <4>2. queue = IF waitcnt.prefetch THEN fetching.queued ELSE 0
        BY <2>2, <3>2
      <4>3. whole = Following(a, n) /\ wait = Following(a + 2 * used, n - used)
        BY <4>1 DEF Following
      <4>4. paid = credit
        BY <4>1
      <4>5. CASE ~waitcnt.prefetch
        <5>1. used = 0 /\ left = 0 /\ a + 2 * used = a /\ n - used = n
          BY <1>2, <4>5
        <5>2. wait = whole /\ rest = 0
          BY <2>3, <4>3, <5>1
        <5>3. whole \in Nat
          BY <1>2, <2>4, <2>5, <4>3
        <5> HIDE DEF whole, wait, rest, left, paid
        <5> QED  BY <1>2, <4>4, <5>1, <5>2, <5>3
      <4>6. CASE waitcnt.prefetch
        <5>1. queue = fetching.queued /\ queue \in 0..8 /\ left = queue - used
              /\ used = (IF queue < n THEN queue ELSE n)
          BY <1>2, <4>2, <4>6
        <5> HIDE DEF queue, used
        <5>2. left \in 0..8 /\ (n = 1 \/ n = 2) /\ a + bytes = a + 2 * n
          BY <1>2, <5>1
        <5> HIDE DEF wait, n, left, whole, rest, paid, flows
        <5>3. /\ Cost(waitcnt, a + 2 * n, queue - used) \in Nat
              /\ wait \in Nat /\ Following(a, n) \in Nat
              /\ Cost(waitcnt, a + 2 * n, queue - used) + Following(a, n) - wait
                   = Cost(waitcnt, a, queue)
          <6>1. wait = Following(a + 2 * used, n - used)
            BY <4>3
          <6>2. waitcnt \in Settings /\ InGamePak(a) /\ (n = 1 \/ n = 2)
            BY <1>1, <1>5, <5>2
          <6>3. queue \in 0..8 /\ used = (IF queue < n THEN queue ELSE n)
            BY <5>1
          <6>4. Taken(a, n, queue, used, wait)
            BY <6>1, <6>2, <6>3, FetchPays
          <6> QED  BY <6>4 DEF Taken
        <5>4. rest = Cost(waitcnt, a + 2 * n, queue - used)
          BY <5>1, <5>2 DEF rest
        <5>5. Cost(waitcnt, a, queue) <= credit
          BY <4>1, <5>1
        <5> QED  BY <1>2, <4>3, <4>4, <5>2, <5>3, <5>4, <5>5
      <4> QED  BY <4>5, <4>6
    <3> QED  BY <3>1, <3>2
  <2> HIDE DEF whole, wait, rest, left
  <2>7. /\ fetching' = [active |-> TRUE, expected |-> a + bytes, queued |-> left]
        /\ pending' \in Nat /\ flow' = a + bytes /\ flow' \in Int
        /\ credit' \in Nat /\ rest <= credit'
    BY <1>3, <1>5, <2>1, <2>6
  <2>8. Streams(fetching') /\ fetching'.active = TRUE /\ fetching'.expected = flow'
        /\ fetching'.queued = left
    BY <2>6, <2>7 DEF Streams
  <2>9. Cost(waitcnt, flow', left) = rest
    BY <2>7 DEF rest
  <2> QED  BY <1>1, <1>3, <2>7, <2>8, <2>9 DEF BusIInv, Pays
<1> QED  BY <1>4, <1>5

LEMMA WaitNat ==
    ASSUME waitcnt \in Settings, NEW a \in Int, NEW n, n = 1 \/ n = 2, NEW s \in BOOLEAN
    PROVE  WaitCycles(a, n, s) \in Nat
<1>1. /\ HalfwordWait(a, TRUE) = SeqOf(waitcnt, a)
      /\ HalfwordWait(a, FALSE) = NseqOf(waitcnt, a)
      /\ HalfwordWait(a + 2, TRUE) = SeqOf(waitcnt, a + 2)
  BY HalfwordIs
<1>2. /\ SeqOf(waitcnt, a) \in Nat /\ NseqOf(waitcnt, a) \in Nat
      /\ SeqOf(waitcnt, a + 2) \in Nat
  BY WaitIs
<1> DEFINE x == HalfwordWait(a, s)
           y == HalfwordWait(a + 2, TRUE)
<1>3. x \in Nat
  <2>1. CASE s
    <3>1. s = TRUE
      BY <2>1
    <3>2. x = SeqOf(waitcnt, a)
      BY <1>1, <3>1, Zenon
    <3> QED  BY <1>2, <3>2
  <2>2. CASE ~s
    <3>1. s = FALSE
      BY <2>2
    <3>2. x = NseqOf(waitcnt, a)
      BY <1>1, <3>1, Zenon
    <3> QED  BY <1>2, <3>2
  <2> QED  BY <2>1, <2>2
<1>4. y \in Nat
  BY <1>1, <1>2
<1>5. WaitCycles(a, n, s) =
        IF ~InGamePak(a) \/ n = 0 THEN 0 ELSE x + (IF n = 2 THEN y ELSE 0)
  BY DEF WaitCycles
<1> HIDE DEF x, y
<1> QED  BY <1>3, <1>4, <1>5

LEMMA AccessDataKeeps ==
    ASSUME BusIInv, NEW a \in Int, NEW bytes \in {1, 2, 4}, AccessData(a, bytes)
    PROVE  BusIInv'
<1> DEFINE at == 2 * (a \div 2)
           halfwords == (bytes + 1) \div 2
           more == IF InGamePak(a)
                   THEN WaitCycles(at, halfwords, data.active /\ at = data.expected)
                   ELSE IF a \in SramStart..(SramStart + SramSize - 1)
                        THEN NseqWait[waitcnt.sram + 1] * bytes ELSE 0
<1>1. /\ waitcnt \in Settings /\ pending \in Nat /\ flow \in Int
      /\ Pays(waitcnt, fetching, flow, credit)
  BY DEF BusIInv
<1>2. /\ waitcnt' = waitcnt /\ pending' = pending + more
      /\ IF InGamePak(a)
         THEN fetching' = NoFetch /\ flow' = 0 /\ credit' = 0
         ELSE fetching' = fetching /\ flow' = flow /\ credit' = credit
  BY DEF AccessData
<1>3. more \in Nat
  <2>1. at \in Int /\ (halfwords = 1 \/ halfwords = 2)
    OBVIOUS
  <2> DEFINE s == data.active /\ at = data.expected
  <2>2. s \in BOOLEAN
    OBVIOUS
  <2> HIDE DEF at, halfwords, s
  <2>3. WaitCycles(at, halfwords, s) \in Nat
    BY <1>1, <2>1, <2>2, WaitNat
  <2>4. NseqWait[waitcnt.sram + 1] * bytes \in Nat
    <3>1. waitcnt.sram \in 0..3
      BY <1>1 DEF Settings
    <3>2. NseqWait[waitcnt.sram + 1] \in Nat
      BY <3>1 DEF NseqWait
    <3> QED  BY <3>2
  <2> QED  BY <2>3, <2>4 DEF s
<1> HIDE DEF more
<1>4. CASE InGamePak(a)
  BY <1>1, <1>2, <1>3, <1>4, NoFetchIs, RomIs DEF BusIInv, Pays
<1>5. CASE ~InGamePak(a)
  BY <1>1, <1>2, <1>3, <1>5 DEF BusIInv
<1> QED  BY <1>4, <1>5

LEMMA InvalidateKeeps ==
    ASSUME BusIInv, NEW w \in Settings, Invalidate(w)
    PROVE  BusIInv'
<1>1. waitcnt' = w /\ fetching' = NoFetch /\ flow' = 0 /\ credit' = 0 /\ pending' = pending
  BY DEF Invalidate
<1> QED  BY <1>1, NoFetchIs, RomIs DEF BusIInv, Pays

(* The loop of refill_prefetch: total is what had been paid before it and  *)
(* the cycles of the instruction.                                          *)
Filling(m, at, total) ==
    /\ DOMAIN m = {"stream", "budget"} /\ m.budget \in Nat /\ m.budget <= total
    /\ ~m.stream.active => m.budget = 0
    /\ Pays(waitcnt, m.stream, at, total - m.budget)

LEMMA FillKeeps ==
    ASSUME waitcnt \in Settings, NEW at \in Int, NEW total \in Nat,
           NEW m, Filling(m, at, total)
    PROVE  Filling(Fill(m), at, total)
<1> DEFINE f == m.stream
           q == f.queued
           next == f.expected + 2 * q
           cost == HalfwordWait(next, TRUE)
           dropped == [stream |-> [f EXCEPT !.active = FALSE, !.queued = 0], budget |-> 0]
           taken == [stream |-> [f EXCEPT !.queued = @ + 1], budget |-> m.budget - cost]
<1>1. /\ m.budget \in Nat /\ m.budget <= total /\ Streams(f) /\ total - m.budget \in Nat
      /\ Pays(waitcnt, f, at, total - m.budget) /\ (~f.active => m.budget = 0)
  BY DEF Filling, Pays
<1>2. Fill(m) = IF q >= 8 \/ m.budget =< 0 THEN m
                ELSE IF ~InGamePak(next) THEN dropped
                ELSE IF m.budget < cost THEN m ELSE taken
  BY DEF Fill
<1>3. CASE q >= 8 \/ m.budget =< 0
  BY <1>2, <1>3
<1>4. CASE ~ (q >= 8 \/ m.budget =< 0)
  <2>1. /\ f.active /\ f.expected = at /\ q \in 0..7 /\ m.budget > 0
        /\ Cost(waitcnt, at, q) <= total - m.budget /\ next = at + 2 * q /\ next \in Int
        /\ q \in 0..8
    BY <1>1, <1>4 DEF Pays, Streams
  <2>2. /\ Cost(waitcnt, at, q) \in Nat
        /\ q >= 1 => Cost(waitcnt, at, q) >= SeqOf(waitcnt, at)
        /\ Cost(waitcnt, at, q + 1) = Cost(waitcnt, at, q) + SeqOf(waitcnt, at + 2 * q)
    <3> HIDE DEF q, next
    <3>1. q \in 0..8 /\ q <= 7
      BY <2>1
    <3> QED  BY <3>1, CostIs
  <2>3. cost = SeqOf(waitcnt, next) /\ cost \in Nat
    BY <2>1, HalfwordIs, WaitIs
  <2>4. DOMAIN f = {"active", "expected", "queued"}
    BY <1>1 DEF Streams
  <2> HIDE DEF cost
  <2>5. CASE ~InGamePak(next)
    <3>1. Fill(m) = dropped
      BY <1>2, <1>4, <2>5
    <3>2. /\ DOMAIN dropped = {"stream", "budget"} /\ dropped.budget = 0
          /\ DOMAIN dropped.stream = {"active", "expected", "queued"}
          /\ dropped.stream.active = FALSE /\ dropped.stream.queued = 0
          /\ dropped.stream.expected = at
      BY <2>1, <2>4
    <3>3. InGamePak(at) => SeqOf(waitcnt, at) <= total
      <4>1. SUFFICES ASSUME InGamePak(at) PROVE SeqOf(waitcnt, at) <= total
        OBVIOUS
      <4>2. q >= 1
        <5>1. CASE q = 0
          <6>1. next = at
            BY <2>1, <5>1
          <6> QED  BY <2>5, <4>1, <6>1
        <5> QED  BY <2>1, <5>1
      <4>3. SeqOf(waitcnt, at) \in Nat
        BY WaitIs
      <4> HIDE DEF q, next
      <4> QED  BY <1>1, <2>1, <2>2, <4>2, <4>3
    <3> HIDE DEF dropped
    <3>4. Pays(waitcnt, dropped.stream, at, total - dropped.budget)
      <4> DEFINE x == dropped.stream
                 c == total - dropped.budget
      <4>1. c = total /\ c \in Nat
        BY <3>2
      <4> HIDE DEF c
      <4>2. Streams(x) /\ ~x.active /\ x.queued = 0
        <5>1. /\ DOMAIN x = {"active", "expected", "queued"} /\ x.active = FALSE
              /\ x.queued = 0 /\ x.expected = at
          BY <3>2
        <5> HIDE DEF x
        <5>2. x.active \in BOOLEAN /\ ~x.active
          BY <5>1, Zenon
        <5>3. x.queued \in 0..8 /\ x.expected \in Int
          BY <5>1
        <5> QED  BY <5>1, <5>2, <5>3, Zenon DEF Streams
      <4> HIDE DEF x
      <4>3. Pays(waitcnt, x, at, c)
        BY <3>3, <4>1, <4>2 DEF Pays
      <4> QED  BY <4>3 DEF x, c
    <3> QED  BY <3>1, <3>2, <3>4 DEF Filling
  <2>6. CASE InGamePak(next) /\ m.budget < cost
    <3>1. Fill(m) = m
      BY <1>2, <1>4, <2>6
    <3> QED  BY <3>1
  <2>7. CASE InGamePak(next) /\ ~ (m.budget < cost)
    <3>1. Fill(m) = taken
      BY <1>2, <1>4, <2>7
    <3>2. /\ DOMAIN taken = {"stream", "budget"} /\ taken.budget = m.budget - cost
          /\ DOMAIN taken.stream = {"active", "expected", "queued"}
          /\ taken.stream.active = f.active /\ taken.stream.queued = q + 1
          /\ taken.stream.expected = at
      BY <2>1, <2>4
    <3> HIDE DEF taken
    <3>3. taken.budget \in Nat /\ taken.budget <= total /\ q + 1 \in 0..8
          /\ total - taken.budget \in Nat
      BY <1>1, <2>1, <2>3, <2>7, <3>2
    <3>4. Cost(waitcnt, at, q + 1) <= total - taken.budget
      <4>1. SeqOf(waitcnt, at + 2 * q) = cost
        BY <2>1, <2>3
      <4> HIDE DEF q, next
      <4> QED  BY <1>1, <2>1, <2>2, <2>3, <3>2, <4>1
    <3>5. Pays(waitcnt, taken.stream, at, total - taken.budget)
      BY <1>1, <2>1, <3>2, <3>3, <3>4 DEF Pays, Streams
    <3> QED  BY <2>1, <3>1, <3>2, <3>3, <3>5 DEF Filling
  <2> QED  BY <2>5, <2>6, <2>7
<1> QED  BY <1>3, <1>4

Fills(run, m) ==
    \A k \in 0..8 : run[k] = IF k = 0 THEN m ELSE Fill(run[k - 1])

LEMMA FillsRule ==
    ASSUME NEW f, NEW own
    PROVE  \E run : Fills(run, [stream |-> f, budget |-> own])
                      /\ Refilled(f, own) = run[8].stream
<1> DEFINE m == [stream |-> f, budget |-> own]
           Rec(g) == g = [k \in 0..8 |-> IF k = 0 THEN m ELSE Fill(g[k - 1])]
           Is(g, j) == g = [k \in 0..j |-> IF k = 0 THEN m ELSE Fill(g[k - 1])]
           S == {j \in Nat : j <= 8 => \E g : Is(g, j)}
<1>1. Refilled(f, own) = (CHOOSE g : Rec(g))[8].stream
  BY DEF Refilled
<1> HIDE DEF m
<1>2. 0 \in S
  <2>1. Is([k \in 0..0 |-> m], 0)
    OBVIOUS
  <2> QED  BY <2>1
<1>3. ASSUME NEW j \in Nat, j \in S PROVE j + 1 \in S
  <2>1. SUFFICES ASSUME j + 1 <= 8 PROVE \E g : Is(g, j + 1)
    OBVIOUS
  <2>2. PICK h : Is(h, j)
    BY <1>3, <2>1
  <2> DEFINE g == [k \in 0..(j + 1) |-> IF k <= j THEN h[k] ELSE Fill(h[j])]
  <2>3. /\ \A k \in 0..j : g[k] = h[k]
        /\ g[j + 1] = Fill(h[j])
        /\ g = [k \in 0..(j + 1) |-> g[k]]
    OBVIOUS
  <2> HIDE DEF g
  <2>4. ASSUME NEW k \in 0..(j + 1)
        PROVE  g[k] = IF k = 0 THEN m ELSE Fill(g[k - 1])
    <3>1. CASE k = 0
      <4>1. 0 \in 0..j
        OBVIOUS
      <4>2. h[0] = m
        BY <2>2, <4>1
      <4>3. g[0] = h[0]
        BY <2>3, <4>1
      <4> QED  BY <3>1, <4>2, <4>3
    <3>2. CASE k \in 1..j
      <4>1. k \in 0..j /\ k - 1 \in 0..j /\ k # 0
        BY <3>2
      <4>2. g[k] = h[k] /\ g[k - 1] = h[k - 1] /\ h[k] = Fill(h[k - 1])
        BY <2>2, <2>3, <4>1
      <4> QED  BY <4>1, <4>2
    <3>3. CASE k = j + 1
      <4>1. k # 0 /\ k - 1 = j /\ j \in 0..j
        BY <3>3
      <4>2. g[j] = h[j]
        BY <2>3, <4>1
      <4> QED  BY <2>3, <3>3, <4>1, <4>2
    <3> QED  BY <3>1, <3>2, <3>3
  <2>5. Is(g, j + 1)
    BY <2>3, <2>4
  <2> QED  BY <2>5
<1>4. 8 \in S
  <2> HIDE DEF S
  <2> QED  BY <1>2, <1>3, SetInduction
<1>5. PICK g : Rec(g)
  BY <1>4
<1> HIDE DEF Rec
<1>6. Rec(CHOOSE h : Rec(h))
  BY <1>5
<1> DEFINE r == CHOOSE h : Rec(h)
<1> HIDE DEF r
<1>7. \A k \in 0..8 : r[k] = IF k = 0 THEN m ELSE Fill(r[k - 1])
  BY <1>6 DEF Rec, r
<1>8. Refilled(f, own) = r[8].stream
  BY <1>1 DEF r
<1> QED  BY <1>7, <1>8 DEF Fills, m

LEMMA RefilledPays ==
    ASSUME waitcnt \in Settings, NEW at \in Int, NEW c \in Nat, NEW own \in Nat,
           NEW f, Pays(waitcnt, f, at, c), f.active
    PROVE  Pays(waitcnt, Refilled(f, own), at, c + own)
<1> DEFINE m == [stream |-> f, budget |-> own]
<1>1. PICK run : Fills(run, m) /\ Refilled(f, own) = run[8].stream
  BY FillsRule
<1> DEFINE S == {k \in Nat : k <= 8 => Filling(run[k], at, c + own)}
<1>2. Filling(m, at, c + own)
  BY DEF Filling
<1> HIDE DEF m
<1>3. 0 \in S
  <2>1. run[0] = m
    BY <1>1 DEF Fills
  <2> QED  BY <1>2, <2>1
<1>4. ASSUME NEW k \in Nat, k \in S PROVE k + 1 \in S
  <2>1. SUFFICES ASSUME k + 1 <= 8 PROVE Filling(run[k + 1], at, c + own)
    OBVIOUS
  <2>2. Filling(run[k], at, c + own)
    BY <1>4, <2>1
  <2>3. run[k + 1] = Fill(run[k])
    <3>1. k + 1 \in 0..8 /\ k + 1 # 0 /\ (k + 1) - 1 = k
      BY <2>1
    <3> QED  BY <1>1, <3>1 DEF Fills
  <2>4. c + own \in Nat
    OBVIOUS
  <2> QED  BY <2>2, <2>3, <2>4, FillKeeps
<1>5. Filling(run[8], at, c + own)
  <2> HIDE DEF S
  <2>1. 8 \in S
    BY <1>3, <1>4, SetInduction
  <2> QED  BY <2>1 DEF S
<1>6. /\ Pays(waitcnt, run[8].stream, at, c + own - run[8].budget)
      /\ run[8].budget \in Nat
  BY <1>5 DEF Filling
<1> DEFINE x == run[8].stream
           b == c + own - run[8].budget
<1>7. b \in Nat /\ b <= c + own /\ c + own \in Nat
  BY <1>6 DEF Pays
<1> HIDE DEF x, b
<1>8. Pays(waitcnt, x, at, b)
  BY <1>6 DEF x, b
<1>9. Pays(waitcnt, x, at, c + own)
  <2>1. Streams(x) /\ SeqOf(waitcnt, at) \in Nat
    BY <1>8, WaitIs DEF Pays
  <2>2. Cost(waitcnt, at, x.queued) \in Nat
    BY <2>1, CostIs DEF Streams
  <2> QED  BY <1>7, <1>8, <2>1, <2>2 DEF Pays
<1> QED  BY <1>1, <1>9 DEF x

LEMMA FinishStepKeeps ==
    ASSUME BusIInv, NEW own \in Nat, FinishStep(own)
    PROVE  BusIInv'
<1>1. /\ waitcnt \in Settings /\ flow \in Int
      /\ Pays(waitcnt, fetching, flow, credit)
  BY DEF BusIInv
<1>2. /\ waitcnt' = waitcnt /\ pending' = 0 /\ flow' = flow /\ credit' = credit + own
      /\ fetching' = (IF waitcnt.prefetch /\ fetching.active THEN Refilled(fetching, own)
                      ELSE [fetching EXCEPT !.queued = 0])
  BY DEF FinishStep
<1>3. credit \in Nat /\ Streams(fetching)
  BY <1>1 DEF Pays
<1>4. CASE waitcnt.prefetch /\ fetching.active
  <2>1. Pays(waitcnt, Refilled(fetching, own), flow, credit + own)
    BY <1>1, <1>3, <1>4, RefilledPays
  <2> QED  BY <1>1, <1>2, <1>4, <2>1 DEF BusIInv
<1>5. CASE ~ (waitcnt.prefetch /\ fetching.active)
  <2> DEFINE f == [fetching EXCEPT !.queued = 0]
  <2>1. /\ DOMAIN f = {"active", "expected", "queued"} /\ f.active = fetching.active
        /\ f.expected = fetching.expected /\ f.queued = 0
    BY <1>3 DEF Streams
  <2>2. fetching' = f
    BY <1>2, <1>5
  <2> HIDE DEF f
  <2>3. Cost(waitcnt, flow, 0) = 0 /\ SeqOf(waitcnt, flow) \in Nat /\ credit + own \in Nat
    BY <1>1, <1>3, CostIs, WaitIs
  <2>4. Streams(f)
    BY <1>3, <2>1 DEF Streams
  <2>5. Pays(waitcnt, f, flow, credit + own)
    BY <1>1, <1>3, <2>1, <2>3, <2>4 DEF Pays
  <2> QED  BY <1>1, <1>2, <2>2, <2>5 DEF BusIInv
<1> QED  BY <1>4, <1>5

LEMMA BusKept == BusIInv /\ [BusNext]_busVars => BusIInv'
<1> SUFFICES ASSUME BusIInv, [BusNext]_busVars PROVE BusIInv'
  OBVIOUS
<1>1. /\ Waitcnts \subseteq Settings /\ CodeAt \subseteq Int /\ DataAt \subseteq Int
      /\ OwnCycles \subseteq Nat /\ flow \in Int
  BY BusAssumption DEF Settings, BusIInv
<1>2. CASE \E a \in CodeAt \union {flow}, bytes \in {2, 4} : BeginStep(a, bytes)
  BY <1>1, <1>2, BeginStepKeeps
<1>3. CASE \E a \in DataAt, bytes \in {1, 2, 4} : AccessData(a, bytes)
  BY <1>1, <1>3, AccessDataKeeps
<1>4. CASE \E w \in Waitcnts : Invalidate(w)
  BY <1>1, <1>4, InvalidateKeeps
<1>5. CASE \E own \in OwnCycles : FinishStep(own)
  BY <1>1, <1>5, FinishStepKeeps
<1>6. CASE UNCHANGED busVars
  BY <1>6 DEF BusIInv, busVars
<1> QED  BY <1>2, <1>3, <1>4, <1>5, <1>6 DEF BusNext

(* The prefetch buffer gives nothing away, whatever the addresses, the     *)
(* settings of WAITCNT and the cycles of the instructions: what the        *)
(* fetches of a run save has been spent by the CPU since the run began     *)
(* (refill_prefetch, account_fetch_timing).                                *)
THEOREM PrefetchIsPaid == BusSpec => []PrefetchPaid
<1>1. BusIInv => PrefetchPaid
  BY DEF BusIInv, Pays, Streams, PrefetchPaid
<1> QED  BY <1>1, BusInitially, BusKept, PTL DEF BusSpec

(***************************************************************************)
(* The memory map of the GBA.  A load or a store of width bytes covers the *)
(* width addresses from its own, aligned: all of them lie in one memory,   *)
(* side by side.                                                           *)
(***************************************************************************)
Widths == {1, 2, 4}

LEMMA AlignedAddress ==
  ASSUME NEW w \in Widths, NEW a \in Nat
  PROVE  /\ Aligned(a, w) \in Nat /\ Aligned(a, w) % w = 0
         /\ a % w \in 0..(w - 1) /\ a = Aligned(a, w) + (a % w)
<1>1. w = 1 \/ w = 2 \/ w = 4
  BY DEF Widths
<1> QED  BY <1>1 DEF Aligned

(* A memory that starts and ends between words holds all of the addresses  *)
(* or none.                                                                *)
LEMMA BlockIn ==
  ASSUME NEW w \in Widths, NEW from \in Nat, from % w = 0, NEW k \in 0..(w - 1),
         NEW f \in Nat, NEW l \in Nat, f % 4 = 0, (l + 1) % 4 = 0
  PROVE  Between(from + k, f, l) <=> Between(from, f, l)
<1>1. w = 1 \/ w = 2 \/ w = 4
  BY DEF Widths
<1>2. k \in {0, 1, 2, 3} /\ k < w
  BY <1>1
<1>3. CASE w = 1
  BY <1>2, <1>3 DEF Between
<1>4. CASE w = 2
  BY <1>2, <1>4 DEF Between
<1>5. CASE w = 4
  BY <1>2, <1>5 DEF Between
<1> QED  BY <1>1, <1>3, <1>4, <1>5

Whole(o, w) == o % w = 0
InOrder(o, k, q, w) == o % q \in Nat /\ (o % q) % w = 0 /\ (o + k) % q = (o % q) + k
LEMMA BlockMod ==
  ASSUME NEW w \in Widths, NEW o \in Nat, Whole(o, w), NEW k \in 0..(w - 1),
         NEW q \in Nat \ {0}, Whole(q, 4)
  PROVE  InOrder(o, k, q, w)
<1>0. o % w = 0 /\ q % 4 = 0
  BY DEF Whole
<1> DEFINE d == o \div q
           r == o % q
           u == q \div 4
<1>1. d \in Int /\ r \in 0..(q - 1) /\ o = q * d + r
  <2>1. o \in Int
    OBVIOUS
  <2> QED  BY <2>1, DivIs, Zenon
<1>2. u \in Int /\ q = 4 * u
  BY <1>0
<1> HIDE DEF d, r, u
<1>3. q * d = 4 * (u * d) /\ u * d \in Int
  BY <1>1, <1>2
<1> DEFINE v == u * d
<1>4. v \in Int /\ o = 4 * v + r
  BY <1>1, <1>3
<1> HIDE DEF v
<1>5. w = 1 \/ w = 2 \/ w = 4
  BY DEF Widths
<1>6. r % w = 0 /\ r + k \in 0..(q - 1)
  <2>1. CASE w = 1
    BY <1>0, <1>1, <1>2, <1>4, <2>1
  <2>2. CASE w = 2
    BY <1>0, <1>1, <1>2, <1>4, <2>2
  <2>3. CASE w = 4
    BY <1>0, <1>1, <1>2, <1>4, <2>3
  <2> QED  BY <1>5, <2>1, <2>2, <2>3
<1>7. (q * d + (r + k)) % q = r + k
  BY <1>1, <1>6, DivMod
<1>8. o + k = q * d + (r + k)
  BY <1>1, <1>3, <1>5
<1>9. o % q = r
  BY DEF r
<1> QED  BY <1>1, <1>6, <1>7, <1>8, <1>9 DEF InOrder

(* The nine memories.                                                      *)
InDebug(a) == Between(a, \h04FFF600, \h04FFF7FF)
InEwram(a) == Between(a, \h02000000, \h02FFFFFF)
InIwram(a) == Between(a, \h03000000, \h03FFFFFF)
InIo(a) == Between(a, \h04000000, \h040003FF)
InPalette(a) == Between(a, \h05000000, \h050003FF)
InVram(a) == Between(a, \h06000000, \h0601FFFF)
InOam(a) == Between(a, \h07000000, \h070003FF)
InRom(a) == Between(a, \h08000000, \h0DFFFFFF)
InSave(a) == Between(a, \h0E000000, \h0E00FFFF)
InNone(a) == /\ ~InDebug(a) /\ ~InEwram(a) /\ ~InIwram(a) /\ ~InIo(a) /\ ~InPalette(a)
             /\ ~InVram(a) /\ ~InOam(a) /\ ~InRom(a) /\ ~InSave(a)

LEMMA CellIs ==
  ASSUME NEW a \in Nat
  PROVE  /\ InDebug(a) => CellOf(a) = <<"debug", a - \h04FFF600>>
         /\ InEwram(a) => CellOf(a) = <<"ewram", (a - \h02000000) % \h40000>>
         /\ InIwram(a) => CellOf(a) = <<"iwram", (a - \h03000000) % \h8000>>
         /\ InIo(a) => CellOf(a) = <<"io", a - \h04000000>>
         /\ InPalette(a) => CellOf(a) = <<"palette", a - \h05000000>>
         /\ InVram(a) => CellOf(a) = <<"vram", VramOffset(a - \h06000000)>>
         /\ InOam(a) => CellOf(a) = <<"oam", a - \h07000000>>
         /\ InRom(a) => CellOf(a) = <<"rom", RomOffset(a - \h08000000)>>
         /\ InSave(a) => CellOf(a) = <<"save", a - \h0E000000>>
         /\ InNone(a) => CellOf(a) = <<"open", 0>>
<1>1. CASE InNone(a)
  BY <1>1 DEF InNone, InDebug, InEwram, InIwram, InIo, InPalette, InVram, InOam, InRom, InSave, CellOf, Nowhere
<1>2. /\ InDebug(a) => CellOf(a) = <<"debug", a - \h04FFF600>>
      /\ InEwram(a) => CellOf(a) = <<"ewram", (a - \h02000000) % \h40000>>
      /\ InIwram(a) => CellOf(a) = <<"iwram", (a - \h03000000) % \h8000>>
      /\ InIo(a) => CellOf(a) = <<"io", a - \h04000000>>
  BY DEF InDebug, InEwram, InIwram, InIo, CellOf, Between
<1>3. /\ InPalette(a) => CellOf(a) = <<"palette", a - \h05000000>>
      /\ InVram(a) => CellOf(a) = <<"vram", VramOffset(a - \h06000000)>>
      /\ InOam(a) => CellOf(a) = <<"oam", a - \h07000000>>
      /\ InRom(a) => CellOf(a) = <<"rom", RomOffset(a - \h08000000)>>
      /\ InSave(a) => CellOf(a) = <<"save", a - \h0E000000>>
  BY DEF InPalette, InVram, InOam, InRom, InSave, CellOf, Between
<1> QED  BY <1>1, <1>2, <1>3 DEF InNone

LEMMA MemoryIs ==
  ASSUME NEW a \in Nat
  PROVE  /\ CellOf(a) = <<CellOf(a)[1], CellOf(a)[2]>>
         /\ CellOf(a)[1] = "debug" <=> InDebug(a)
         /\ CellOf(a)[1] = "ewram" <=> InEwram(a)
         /\ CellOf(a)[1] = "iwram" <=> InIwram(a)
         /\ CellOf(a)[1] = "io" <=> InIo(a)
         /\ CellOf(a)[1] = "palette" <=> InPalette(a)
         /\ CellOf(a)[1] = "vram" <=> InVram(a)
         /\ CellOf(a)[1] = "oam" <=> InOam(a)
         /\ CellOf(a)[1] = "rom" <=> InRom(a)
         /\ CellOf(a)[1] = "save" <=> InSave(a)
         /\ CellOf(a)[1] = "open" <=> InNone(a)
<1>1. \/ InDebug(a) \/ InEwram(a) \/ InIwram(a) \/ InIo(a) \/ InPalette(a)
      \/ InVram(a) \/ InOam(a) \/ InRom(a) \/ InSave(a) \/ InNone(a)
  BY DEF InNone
<1>2. ASSUME NEW area, NEW o, CellOf(a) = <<area, o>>
      PROVE  CellOf(a)[1] = area /\ CellOf(a) = <<CellOf(a)[1], CellOf(a)[2]>>
  BY <1>2
<1>3. InNone(a) => /\ ~InDebug(a) /\ ~InEwram(a) /\ ~InIwram(a) /\ ~InIo(a) /\ ~InPalette(a)
                   /\ ~InVram(a) /\ ~InOam(a) /\ ~InRom(a) /\ ~InSave(a)
  BY DEF InNone
<1>4. CASE InNone(a)
  BY <1>2, <1>3, <1>4, CellIs
<1>5. CASE InDebug(a)
  BY <1>2, <1>3, <1>5, CellIs
<1>6. CASE InEwram(a)
  BY <1>2, <1>3, <1>6, CellIs
<1>7. CASE InIwram(a)
  BY <1>2, <1>3, <1>7, CellIs
<1>8. CASE InIo(a)
  BY <1>2, <1>3, <1>8, CellIs
<1>9. CASE InPalette(a)
  BY <1>2, <1>3, <1>9, CellIs
<1>10. CASE InVram(a)
  BY <1>2, <1>3, <1>10, CellIs
<1>11. CASE InOam(a)
  BY <1>2, <1>3, <1>11, CellIs
<1>12. CASE InRom(a)
  BY <1>2, <1>3, <1>12, CellIs
<1>13. CASE InSave(a)
  BY <1>2, <1>3, <1>13, CellIs
<1> QED  BY <1>1, <1>4, <1>5, <1>6, <1>7, <1>8, <1>9, <1>10, <1>11, <1>12, <1>13

LEMMA SameMemory ==
  ASSUME NEW w \in Widths, NEW from \in Nat, from % w = 0, NEW k \in 0..(w - 1)
  PROVE  /\ InDebug(from + k) <=> InDebug(from)
         /\ InEwram(from + k) <=> InEwram(from)
         /\ InIwram(from + k) <=> InIwram(from)
         /\ InIo(from + k) <=> InIo(from)
         /\ InPalette(from + k) <=> InPalette(from)
         /\ InVram(from + k) <=> InVram(from)
         /\ InOam(from + k) <=> InOam(from)
         /\ InRom(from + k) <=> InRom(from)
         /\ InSave(from + k) <=> InSave(from)
<1>1. InDebug(from + k) <=> InDebug(from)
  BY BlockIn, SMT DEF InDebug
<1>2. InEwram(from + k) <=> InEwram(from)
  BY BlockIn, SMT DEF InEwram
<1>3. InIwram(from + k) <=> InIwram(from)
  BY BlockIn, SMT DEF InIwram
<1>4. InIo(from + k) <=> InIo(from)
  BY BlockIn, SMT DEF InIo
<1>5. InPalette(from + k) <=> InPalette(from)
  BY BlockIn, SMT DEF InPalette
<1>6. InVram(from + k) <=> InVram(from)
  BY BlockIn, SMT DEF InVram
<1>7. InOam(from + k) <=> InOam(from)
  BY BlockIn, SMT DEF InOam
<1>8. InRom(from + k) <=> InRom(from)
  BY BlockIn, SMT DEF InRom
<1>9. InSave(from + k) <=> InSave(from)
  BY BlockIn, SMT DEF InSave
<1> QED  BY <1>1, <1>2, <1>3, <1>4, <1>5, <1>6, <1>7, <1>8, <1>9

(* From a word's first address the offsets follow each other.               *)
LEMMA OffsetFrom ==
  ASSUME NEW w \in Widths, NEW from \in Nat, from % w = 0, NEW base \in Nat, base % 4 = 0, base =< from
  PROVE  from - base \in Nat /\ (from - base) % w = 0
<1>1. w = 1 \/ w = 2 \/ w = 4
  BY DEF Widths
<1>2. CASE w = 1
  BY <1>2
<1>3. CASE w = 2
  BY <1>3
<1>4. CASE w = 4
  BY <1>4
<1> QED  BY <1>1, <1>2, <1>3, <1>4

LEMMA VramIs ==
  ASSUME NEW w \in Widths, NEW o \in Nat, o % w = 0, NEW k \in 0..(w - 1)
  PROVE  VramOffset(o) \in Nat /\ VramOffset(o) % w = 0 /\ VramOffset(o + k) = VramOffset(o) + k
<1>5a. ASSUME NEW p \in Nat \ {0}, p % 4 = 0
       PROVE  o % p \in Nat /\ (o % p) % w = 0 /\ (o + k) % p = (o % p) + k
  <2>1. Whole(o, w) /\ Whole(p, 4)
    BY <1>5a DEF Whole
  <2>2. InOrder(o, k, p, w)
    BY <2>1, BlockMod
  <2> QED  BY <2>2 DEF InOrder
<1> DEFINE q == \h8000
           top == \h18000
<1>1. q \in Nat \ {0} /\ q % 4 = 0
  BY SMT
<1>0. top \in Nat /\ top % 4 = 0
  BY SMT
<1>2. o % q \in Nat /\ (o % q) % w = 0 /\ (o + k) % q = (o % q) + k
  <2> HIDE DEF q
  <2> QED  BY <1>1, <1>5a
<1>3. w = 1 \/ w = 2 \/ w = 4
  BY DEF Widths
<1>4. o + k < top <=> o < top
  <2> HIDE DEF top
  <2>1. CASE w = 1
    BY <1>0, <2>1
  <2>2. CASE w = 2
    BY <1>0, <2>2
  <2>3. CASE w = 4
    BY <1>0, <2>3
  <2> QED  BY <1>3, <2>1, <2>2, <2>3
<1>5. (\h10000 + (o % q)) % w = 0
  <2>1. CASE w = 1
    BY <1>2, <2>1, SMT
  <2>2. CASE w = 2
    BY <1>2, <2>2, SMT
  <2>3. CASE w = 4
    BY <1>2, <2>3, SMT
  <2> QED  BY <1>3, <2>1, <2>2, <2>3
<1>6. CASE o < top
  BY <1>4, <1>6, SMT DEF VramOffset
<1>7. CASE ~(o < top)
  <2>1. VramOffset(o) = \h10000 + (o % q) /\ VramOffset(o + k) = \h10000 + ((o + k) % q)
    BY <1>4, <1>7, SMT DEF VramOffset
  <2> HIDE DEF q
  <2> QED  BY <1>2, <1>5, <2>1
<1> QED  BY <1>6, <1>7

LEMMA CellsOfBlock ==
  ASSUME NEW w \in Widths, NEW from \in Nat, from % w = 0, NEW k \in 0..(w - 1)
  PROVE  /\ CellOf(from + k)[1] = CellOf(from)[1]
         /\ CellOf(from)[1] \notin {"open", "rom"} =>
              /\ CellOf(from)[2] \in Nat /\ CellOf(from)[2] % w = 0
              /\ CellOf(from + k) = <<CellOf(from)[1], CellOf(from)[2] + k>>
<1> DEFINE c == CellOf(from)
           d == CellOf(from + k)
           Goal == /\ d[1] = c[1]
                   /\ c[1] \notin {"open", "rom"} =>
                        c[2] \in Nat /\ c[2] % w = 0 /\ d = <<c[1], c[2] + k>>
<1>1. from + k \in Nat
  BY DEF Widths
<1> SUFFICES Goal
  BY DEF Goal
<1>2. ASSUME NEW area, NEW o \in Nat, o % w = 0, c = <<area, o>>, d = <<area, o + k>> PROVE Goal
  <2>1. c[1] = area /\ c[2] = o /\ d[1] = area
    BY <1>2
  <2> QED  BY <1>2, <2>1
<1>3. ASSUME NEW base \in Nat, base =< from, base % 4 = 0
      PROVE  from - base \in Nat /\ (from - base) % w = 0 /\ (from + k) - base = (from - base) + k
  BY <1>1, <1>3, OffsetFrom
<1>4. CASE InDebug(from)
  <2> DEFINE base == \h04FFF600
  <2>1. c = <<"debug", from - base>> /\ d = <<"debug", (from + k) - base>>
    BY <1>1, <1>4, SameMemory, CellIs, SMT
  <2>2. base =< from
    BY <1>4, SMT DEF InDebug, Between
  <2>3. base \in Nat /\ base % 4 = 0
    BY SMT
  <2>4. from - base \in Nat /\ (from - base) % w = 0 /\ (from + k) - base = (from - base) + k
    <3> HIDE DEF base
    <3> QED  BY <1>3, <2>2, <2>3
  <2> HIDE DEF base, Goal, c, d
  <2> QED  BY <1>2, <2>1, <2>4
<1>5. CASE InIo(from)
  <2> DEFINE base == \h04000000
  <2>1. c = <<"io", from - base>> /\ d = <<"io", (from + k) - base>>
    BY <1>1, <1>5, SameMemory, CellIs, SMT
  <2>2. base =< from
    BY <1>5, SMT DEF InIo, Between
  <2>3. base \in Nat /\ base % 4 = 0
    BY SMT
  <2>4. from - base \in Nat /\ (from - base) % w = 0 /\ (from + k) - base = (from - base) + k
    <3> HIDE DEF base
    <3> QED  BY <1>3, <2>2, <2>3
  <2> HIDE DEF base, Goal, c, d
  <2> QED  BY <1>2, <2>1, <2>4
<1>6. CASE InPalette(from)
  <2> DEFINE base == \h05000000
  <2>1. c = <<"palette", from - base>> /\ d = <<"palette", (from + k) - base>>
    BY <1>1, <1>6, SameMemory, CellIs, SMT
  <2>2. base =< from
    BY <1>6, SMT DEF InPalette, Between
  <2>3. base \in Nat /\ base % 4 = 0
    BY SMT
  <2>4. from - base \in Nat /\ (from - base) % w = 0 /\ (from + k) - base = (from - base) + k
    <3> HIDE DEF base
    <3> QED  BY <1>3, <2>2, <2>3
  <2> HIDE DEF base, Goal, c, d
  <2> QED  BY <1>2, <2>1, <2>4
<1>7. CASE InOam(from)
  <2> DEFINE base == \h07000000
  <2>1. c = <<"oam", from - base>> /\ d = <<"oam", (from + k) - base>>
    BY <1>1, <1>7, SameMemory, CellIs, SMT
  <2>2. base =< from
    BY <1>7, SMT DEF InOam, Between
  <2>3. base \in Nat /\ base % 4 = 0
    BY SMT
  <2>4. from - base \in Nat /\ (from - base) % w = 0 /\ (from + k) - base = (from - base) + k
    <3> HIDE DEF base
    <3> QED  BY <1>3, <2>2, <2>3
  <2> HIDE DEF base, Goal, c, d
  <2> QED  BY <1>2, <2>1, <2>4
<1>8. CASE InSave(from)
  <2> DEFINE base == \h0E000000
  <2>1. c = <<"save", from - base>> /\ d = <<"save", (from + k) - base>>
    BY <1>1, <1>8, SameMemory, CellIs, SMT
  <2>2. base =< from
    BY <1>8, SMT DEF InSave, Between
  <2>3. base \in Nat /\ base % 4 = 0
    BY SMT
  <2>4. from - base \in Nat /\ (from - base) % w = 0 /\ (from + k) - base = (from - base) + k
    <3> HIDE DEF base
    <3> QED  BY <1>3, <2>2, <2>3
  <2> HIDE DEF base, Goal, c, d
  <2> QED  BY <1>2, <2>1, <2>4
<1>9. CASE InEwram(from)
  <2> DEFINE base == \h02000000
             q == \h40000
  <2>1. c = <<"ewram", (from - base) % q>> /\ d = <<"ewram", ((from + k) - base) % q>>
    BY <1>1, <1>9, SameMemory, CellIs, SMT
  <2>2. base =< from
    BY <1>9, SMT DEF InEwram, Between
  <2>3. base \in Nat /\ base % 4 = 0 /\ q \in Nat \ {0} /\ q % 4 = 0
    BY SMT
  <2> HIDE DEF base, q, Goal, c, d
  <2>4. from - base \in Nat /\ (from - base) % w = 0 /\ (from + k) - base = (from - base) + k
    BY <1>3, <2>2, <2>3
  <2>5. (from - base) % q \in Nat /\ ((from - base) % q) % w = 0
        /\ ((from - base) + k) % q = ((from - base) % q) + k
    <3>1. Whole(from - base, w) /\ Whole(q, 4)
      BY <2>3, <2>4 DEF Whole
    <3>2. InOrder(from - base, k, q, w)
      BY <2>3, <2>4, <3>1, BlockMod
    <3> QED  BY <3>2 DEF InOrder
  <2> QED  BY <1>2, <2>1, <2>4, <2>5
<1>10. CASE InIwram(from)
  <2> DEFINE base == \h03000000
             q == \h8000
  <2>1. c = <<"iwram", (from - base) % q>> /\ d = <<"iwram", ((from + k) - base) % q>>
    BY <1>1, <1>10, SameMemory, CellIs, SMT
  <2>2. base =< from
    BY <1>10, SMT DEF InIwram, Between
  <2>3. base \in Nat /\ base % 4 = 0 /\ q \in Nat \ {0} /\ q % 4 = 0
    BY SMT
  <2> HIDE DEF base, q, Goal, c, d
  <2>4. from - base \in Nat /\ (from - base) % w = 0 /\ (from + k) - base = (from - base) + k
    BY <1>3, <2>2, <2>3
  <2>5. (from - base) % q \in Nat /\ ((from - base) % q) % w = 0
        /\ ((from - base) + k) % q = ((from - base) % q) + k
    <3>1. Whole(from - base, w) /\ Whole(q, 4)
      BY <2>3, <2>4 DEF Whole
    <3>2. InOrder(from - base, k, q, w)
      BY <2>3, <2>4, <3>1, BlockMod
    <3> QED  BY <3>2 DEF InOrder
  <2> QED  BY <1>2, <2>1, <2>4, <2>5
<1>11. CASE InVram(from)
  <2> DEFINE base == \h06000000
  <2>1. c = <<"vram", VramOffset(from - base)>> /\ d = <<"vram", VramOffset((from + k) - base)>>
    BY <1>1, <1>11, SameMemory, CellIs, SMT
  <2>2. base =< from
    BY <1>11, SMT DEF InVram, Between
  <2>3. base \in Nat /\ base % 4 = 0
    BY SMT
  <2> HIDE DEF base, Goal, c, d
  <2>4. from - base \in Nat /\ (from - base) % w = 0 /\ (from + k) - base = (from - base) + k
    BY <1>3, <2>2, <2>3
  <2>5. /\ VramOffset(from - base) \in Nat /\ VramOffset(from - base) % w = 0
        /\ VramOffset((from - base) + k) = VramOffset(from - base) + k
    BY <2>4, VramIs
  <2> QED  BY <1>2, <2>1, <2>4, <2>5
<1>12. CASE InRom(from)
  <2>1. c[1] = "rom" /\ d[1] = "rom"
    BY <1>1, <1>12, SameMemory, MemoryIs
  <2> QED  BY <2>1
<1>13. CASE InNone(from)
  <2>1. InNone(from + k)
    BY <1>13, SameMemory DEF InNone
  <2>2. c[1] = "open" /\ d[1] = "open"
    BY <1>1, <1>13, <2>1, MemoryIs
  <2> QED  BY <2>2
<1> HIDE DEF Goal
<1> QED  BY <1>4, <1>5, <1>6, <1>7, <1>8, <1>9, <1>10, <1>11, <1>12, <1>13 DEF InNone

(* What a byte stored in a cell leaves there.                               *)
Flags == {<<"io", \h202>>, <<"io", \h203>>}
StoredIn(old, c, x) == IF c \in Flags THEN Cleared(old, Mask(c, x)) ELSE Mask(c, x)
Doubled == {"palette", "vram"}
Unstored == {"open", "rom"}

LEMMA WithIs ==
  ASSUME NEW m, NEW c, NEW x, NEW d, c[1] \notin Unstored
  PROVE  At(With(m, c, x), d) = IF d = c THEN x ELSE At(m, d)
<1>1. DOMAIN With(m, c, x) = DOMAIN m \union {c}
  BY DEF With
<1>2. \A e \in DOMAIN m \union {c} : With(m, c, x)[e] = IF e = c THEN x ELSE m[e]
  BY DEF With
<1>3. CASE d = c
  BY <1>1, <1>2, <1>3 DEF At, Unstored
<1>4. CASE d # c
  BY <1>1, <1>2, <1>4 DEF At
<1> QED  BY <1>3, <1>4

(* In the ROM and where there is nothing, and from a byte of its own in     *)
(* OAM, a store changes nothing.                                            *)
LEMMA PutNone ==
  ASSUME NEW m, NEW a \in Nat, NEW x, NEW w \in Widths,
         CellOf(a)[1] \in Unstored \/ (CellOf(a)[1] = "oam" /\ w = 1)
  PROVE  PutByte(m, a, x, w) = m
<1> DEFINE c == CellOf(a)
           even == 2 * (c[2] \div 2)
<1>1. c \in Flags => c[1] = "io"
  BY SMT DEF Flags
<1>2. PutByte(m, a, x, w) =
        CASE c[1] \in {"open", "rom"} -> m
        [] c[1] \in {"palette", "vram"} /\ w = 1 -> With(With(m, <<c[1], even + 1>>, x), <<c[1], even>>, x)
        [] c[1] = "oam" /\ w = 1 -> m
        [] c \in Flags -> With(m, c, Cleared(At(m, c), Mask(c, x)))
        [] OTHER -> With(m, c, Mask(c, x))
  BY SMT DEF PutByte, Flags
<1>0. c = CellOf(a)
  OBVIOUS
<1> HIDE DEF c, even
<1>3. c[1] \in {"open", "rom"} \/ (c[1] = "oam" /\ w = 1)
  BY <1>0 DEF Unstored
<1> QED  BY <1>1, <1>2, <1>3

(* A byte of its own fills a halfword of palette and VRAM.                  *)
LEMMA PutTwice ==
  ASSUME NEW m, NEW a \in Nat, NEW x, NEW even, CellOf(a)[1] \in Doubled, even = 2 * (CellOf(a)[2] \div 2)
  PROVE  PutByte(m, a, x, 1) = With(With(m, <<CellOf(a)[1], even + 1>>, x), <<CellOf(a)[1], even>>, x)
<1>1. PutByte(m, a, x, 1) =
        CASE CellOf(a)[1] \in {"open", "rom"} -> m
        [] CellOf(a)[1] \in {"palette", "vram"} ->
             With(With(m, <<CellOf(a)[1], even + 1>>, x), <<CellOf(a)[1], even>>, x)
        [] CellOf(a)[1] = "oam" -> m
        [] CellOf(a) \in Flags -> With(m, CellOf(a), Cleared(At(m, CellOf(a)), Mask(CellOf(a), x)))
        [] OTHER -> With(m, CellOf(a), Mask(CellOf(a), x))
  BY SMT DEF PutByte, Flags
<1>2. CellOf(a) \in Flags => CellOf(a)[1] = "io"
  BY SMT DEF Flags
<1> QED  BY <1>1, <1>2 DEF Doubled

LEMMA PutPlain ==
  ASSUME NEW m, NEW a \in Nat, NEW x, NEW w \in Widths,
         CellOf(a)[1] \notin Unstored, ~(w = 1 /\ CellOf(a)[1] \in Doubled \union {"oam"})
  PROVE  PutByte(m, a, x, w) = With(m, CellOf(a), StoredIn(At(m, CellOf(a)), CellOf(a), x))
<1> DEFINE c == CellOf(a)
           even == 2 * (c[2] \div 2)
<1>1. c \in Flags => c[1] = "io"
  BY SMT DEF Flags
<1>2. PutByte(m, a, x, w) =
        CASE c[1] \in {"open", "rom"} -> m
        [] c[1] \in {"palette", "vram"} /\ w = 1 -> With(With(m, <<c[1], even + 1>>, x), <<c[1], even>>, x)
        [] c[1] = "oam" /\ w = 1 -> m
        [] c \in Flags -> With(m, c, Cleared(At(m, c), Mask(c, x)))
        [] OTHER -> With(m, c, Mask(c, x))
  BY SMT DEF PutByte, Flags
<1>0. c = CellOf(a)
  OBVIOUS
<1> HIDE DEF c, even
<1>3. ~ (c[1] \in {"open", "rom"}) /\ ~ (c[1] \in {"palette", "vram"} /\ w = 1) /\ ~ (c[1] = "oam" /\ w = 1)
  BY <1>0 DEF Unstored, Doubled
<1>4. PutByte(m, a, x, w) = With(m, c, StoredIn(At(m, c), c, x))
  <2>1. CASE c \in Flags
    BY <1>2, <1>3, <2>1 DEF StoredIn
  <2>2. CASE c \notin Flags
    BY <1>2, <1>3, <2>2 DEF StoredIn
  <2> QED  BY <2>1, <2>2
<1> QED  BY <1>4 DEF c

(* The memory after each byte of a store.                                   *)
StoreSteps(st, m, a, bytes) ==
  /\ st[0] = m /\ AfterStore(m, a, bytes) = st[Len(bytes)]
  /\ \A n \in 1..Len(bytes) :
       st[n] = PutByte(st[n - 1], Aligned(a, Len(bytes)) + n - 1, bytes[n], Len(bytes))

LEMMA StoreHeld ==
  ASSUME NEW m, NEW a \in Nat, NEW bytes, Len(bytes) \in Widths
  PROVE  \E st : StoreSteps(st, m, a, bytes)
<1> DEFINE w == Len(bytes)
           from == Aligned(a, w)
           Of(st) == [n \in 0..w |-> IF n = 0 THEN m ELSE PutByte(st[n - 1], from + n - 1, bytes[n], w)]
           one == PutByte(m, from + 1 - 1, bytes[1], w)
           two == PutByte(one, from + 2 - 1, bytes[2], w)
           three == PutByte(two, from + 3 - 1, bytes[3], w)
           four == PutByte(three, from + 4 - 1, bytes[4], w)
           g == [n \in 0..w |-> IF n = 0 THEN m ELSE IF n = 1 THEN one ELSE IF n = 2 THEN two
                                ELSE IF n = 3 THEN three ELSE four]
           st == CHOOSE s : s = Of(s)
<1>1. AfterStore(m, a, bytes) = st[w]
  BY DEF AfterStore
<1>2. w \in Nat /\ w =< 4
  <2>1. w \in Widths
    OBVIOUS
  <2> HIDE DEF w
  <2> QED  BY <2>1 DEF Widths
<1>3. \A n \in 0..w : g[n] = IF n = 0 THEN m ELSE PutByte(g[n - 1], from + n - 1, bytes[n], w)
  <2> SUFFICES ASSUME NEW n \in 0..w
               PROVE  g[n] = IF n = 0 THEN m ELSE PutByte(g[n - 1], from + n - 1, bytes[n], w)
    OBVIOUS
  <2>1. n = 0 \/ n = 1 \/ n = 2 \/ n = 3 \/ n = 4
    BY <1>2
  <2> HIDE DEF w, from
  <2>2. CASE n = 0
    BY <1>2, <2>2
  <2>3. CASE n = 1
    BY <1>2, <2>3
  <2>4. CASE n = 2
    BY <1>2, <2>4
  <2>5. CASE n = 3
    BY <1>2, <2>5
  <2>6. CASE n = 4
    BY <1>2, <2>6
  <2> QED  BY <2>1, <2>2, <2>3, <2>4, <2>5, <2>6
<1>4. g = Of(g)
  <2>1. g = [n \in 0..w |-> g[n]]
    OBVIOUS
  <2> HIDE DEF g
  <2> QED  BY <1>3, <2>1
<1>5. st = Of(st)
  <2> HIDE DEF g, Of
  <2> QED  BY <1>4
<1> HIDE DEF st
<1>6. \A n \in 0..w : st[n] = IF n = 0 THEN m ELSE PutByte(st[n - 1], from + n - 1, bytes[n], w)
  BY <1>5
<1>7. st[0] = m
  BY <1>2, <1>6
<1>8. \A n \in 1..w : st[n] = PutByte(st[n - 1], from + n - 1, bytes[n], w)
  BY <1>2, <1>6
<1> QED  BY <1>1, <1>7, <1>8 DEF StoreSteps

(* A store of width bytes leaves each of them in its cell, and no other    *)
(* cell changes.                                                           *)
LEMMA StoreIs ==
  ASSUME NEW m, NEW a \in Nat, NEW bytes, Len(bytes) \in Widths,
         LET area == CellOf(Aligned(a, Len(bytes)))[1]
         IN  area \notin Unstored /\ ~(Len(bytes) = 1 /\ area \in Doubled \union {"oam"})
  PROVE  LET w == Len(bytes)
             from == Aligned(a, w)
             after == AfterStore(m, a, bytes)
         IN  /\ \A k \in 0..(w - 1) :
                  At(after, CellOf(from + k)) = StoredIn(At(m, CellOf(from + k)), CellOf(from + k), bytes[k + 1])
             /\ \A d : (\A k \in 0..(w - 1) : d # CellOf(from + k)) => At(after, d) = At(m, d)
<1> DEFINE w == Len(bytes)
           from == Aligned(a, w)
           area == CellOf(from)[1]
           c(k) == CellOf(from + k)
           new(k) == StoredIn(At(m, c(k)), c(k), bytes[k + 1])
<1>1. w \in Widths /\ area \notin Unstored /\ ~(w = 1 /\ area \in Doubled \union {"oam"})
  OBVIOUS
<1>0. PICK st : StoreSteps(st, m, a, bytes)
  BY StoreHeld
<1>2. /\ st[0] = m /\ AfterStore(m, a, bytes) = st[w]
      /\ \A n \in 1..w : st[n] = PutByte(st[n - 1], from + n - 1, bytes[n], w)
  BY <1>0 DEF StoreSteps
<1> HIDE DEF w
<1>3. from \in Nat /\ from % w = 0
  BY <1>1, AlignedAddress
<1>4. w = 1 \/ w = 2 \/ w = 4
  BY <1>1 DEF Widths
<1> HIDE DEF from
<1>5. \A k \in 0..(w - 1) : c(k)[1] = area /\ CellOf(from)[2] \in Nat /\ c(k) = <<area, CellOf(from)[2] + k>>
  BY <1>1, <1>3, CellsOfBlock DEF Unstored
<1>6. \A j, k \in 0..(w - 1) : c(j) = c(k) => j = k
  <2> HIDE DEF c, area
  <2> QED  BY <1>4, <1>5
<1>7. \A n \in 0..(w - 1) : st[n + 1] = With(st[n], c(n), StoredIn(At(st[n], c(n)), c(n), bytes[n + 1]))
  <2> SUFFICES ASSUME NEW n \in 0..(w - 1)
               PROVE  st[n + 1] = With(st[n], c(n), StoredIn(At(st[n], c(n)), c(n), bytes[n + 1]))
    OBVIOUS
  <2>1. n + 1 \in 1..w /\ (n + 1) - 1 = n /\ from + (n + 1) - 1 = from + n /\ from + n \in Nat
    BY <1>3, <1>4
  <2>2. st[n + 1] = PutByte(st[n], from + n, bytes[n + 1], w)
    BY <1>2, <2>1
  <2>3. c(n)[1] = area
    BY <1>5
  <2>4. c(n)[1] \notin Unstored /\ ~(w = 1 /\ c(n)[1] \in Doubled \union {"oam"})
    BY <1>1, <2>3
  <2>5. PutByte(st[n], from + n, bytes[n + 1], w) = With(st[n], c(n), StoredIn(At(st[n], c(n)), c(n), bytes[n + 1]))
    BY <1>1, <2>1, <2>4, PutPlain
  <2> QED  BY <2>2, <2>5
<1> DEFINE Sofar(n) == /\ \A k \in 0..(w - 1) : At(st[n], c(k)) = IF k < n THEN new(k) ELSE At(m, c(k))
                       /\ \A d : (\A k \in 0..(w - 1) : d # c(k)) => At(st[n], d) = At(m, d)
<1>8. Sofar(0)
  BY <1>2, <1>4
<1>9. ASSUME NEW n \in 0..(w - 1), Sofar(n) PROVE Sofar(n + 1)
  <2>1. c(n)[1] \notin Unstored
    BY <1>1, <1>5
  <2>2. At(st[n], c(n)) = At(m, c(n))
    BY <1>4, <1>9
  <2>3. st[n + 1] = With(st[n], c(n), new(n))
    BY <1>7, <2>2
  <2>4. \A d : At(st[n + 1], d) = IF d = c(n) THEN new(n) ELSE At(st[n], d)
    <3> HIDE DEF c, new
    <3> QED  BY <2>1, <2>3, WithIs
  <2> HIDE DEF c, new
  <2>5. ASSUME NEW k \in 0..(w - 1)
        PROVE  At(st[n + 1], c(k)) = IF k < n + 1 THEN new(k) ELSE At(m, c(k))
    <3>1. CASE k = n
      BY <1>4, <2>4, <3>1
    <3>2. CASE k # n
      <4>1. c(k) # c(n)
        BY <1>6, <3>2
      <4>2. At(st[n + 1], c(k)) = At(st[n], c(k))
        BY <2>4, <4>1
      <4>3. At(st[n], c(k)) = IF k < n THEN new(k) ELSE At(m, c(k))
        BY <1>9
      <4>4. k < n + 1 <=> k < n
        BY <1>4, <3>2
      <4> QED  BY <4>2, <4>3, <4>4
    <3> QED  BY <3>1, <3>2
  <2>6. ASSUME NEW d, \A k \in 0..(w - 1) : d # c(k)
        PROVE  At(st[n + 1], d) = At(m, d)
    BY <1>9, <2>4, <2>6
  <2> QED  BY <2>5, <2>6
<1> HIDE DEF Sofar
<1>10. Sofar(w)
  <2>1. Sofar(1)
    BY <1>4, <1>8, <1>9
  <2>2. CASE w = 1
    BY <2>1, <2>2
  <2>3. CASE w = 2
    BY <1>9, <2>1, <2>3
  <2>4. CASE w = 4
    <3>1. Sofar(2)
      BY <1>9, <2>1, <2>4
    <3>2. Sofar(3)
      BY <1>9, <3>1, <2>4
    <3> QED  BY <1>9, <3>2, <2>4
  <2> QED  BY <1>4, <2>2, <2>3, <2>4
<1>11. \A k \in 0..(w - 1) : At(st[w], c(k)) = new(k)
  BY <1>4, <1>10 DEF Sofar
<1>12. \A d : (\A k \in 0..(w - 1) : d # c(k)) => At(st[w], d) = At(m, d)
  BY <1>10 DEF Sofar
<1> QED  BY <1>2, <1>11, <1>12 DEF w, from

LEMMA StoreNothing ==
  ASSUME NEW m, NEW a \in Nat, NEW bytes, Len(bytes) \in Widths,
         LET area == CellOf(Aligned(a, Len(bytes)))[1]
         IN  area \in Unstored \/ (area = "oam" /\ Len(bytes) = 1)
  PROVE  AfterStore(m, a, bytes) = m
<1> DEFINE w == Len(bytes)
           from == Aligned(a, w)
           area == CellOf(from)[1]
<1>1. w \in Widths /\ (area \in Unstored \/ (area = "oam" /\ w = 1))
  OBVIOUS
<1>0. PICK st : StoreSteps(st, m, a, bytes)
  BY StoreHeld
<1>2. /\ st[0] = m /\ AfterStore(m, a, bytes) = st[w]
      /\ \A n \in 1..w : st[n] = PutByte(st[n - 1], from + n - 1, bytes[n], w)
  BY <1>0 DEF StoreSteps
<1> HIDE DEF w
<1>3. from \in Nat /\ from % w = 0
  BY <1>1, AlignedAddress
<1>4. w = 1 \/ w = 2 \/ w = 4
  BY <1>1 DEF Widths
<1> HIDE DEF from
<1>5. ASSUME NEW n \in 0..(w - 1) PROVE st[n + 1] = st[n]
  <2>1. n + 1 \in 1..w /\ (n + 1) - 1 = n /\ from + (n + 1) - 1 = from + n /\ from + n \in Nat
    BY <1>3, <1>4
  <2>2. st[n + 1] = PutByte(st[n], from + n, bytes[n + 1], w)
    BY <1>2, <2>1
  <2>3. CellOf(from + n)[1] = area
    BY <1>1, <1>3, CellsOfBlock
  <2> HIDE DEF area
  <2>4. CellOf(from + n)[1] \in Unstored \/ (CellOf(from + n)[1] = "oam" /\ w = 1)
    BY <1>1, <2>3
  <2>5. PutByte(st[n], from + n, bytes[n + 1], w) = st[n]
    BY <1>1, <2>1, <2>4, PutNone
  <2> QED  BY <2>2, <2>5
<1>6. 0 + 1 = 1 /\ 1 + 1 = 2 /\ 2 + 1 = 3 /\ 3 + 1 = 4
  OBVIOUS
<1>7. st[1] = st[0]
  BY <1>4, <1>5, <1>6
<1>8. w # 1 => st[2] = st[1]
  BY <1>4, <1>5, <1>6
<1>9. w = 4 => st[3] = st[2] /\ st[4] = st[3]
  BY <1>4, <1>5, <1>6
<1> QED  BY <1>2, <1>4, <1>7, <1>8, <1>9

LEMMA StoreTwice ==
  ASSUME NEW m, NEW a \in Nat, NEW bytes, Len(bytes) = 1, CellOf(a)[1] \in Doubled
  PROVE  LET lower == CellOf(Aligned(a, 2))
             upper == CellOf(Aligned(a, 2) + 1)
             after == AfterStore(m, a, bytes)
         IN  /\ CellOf(a) = lower \/ CellOf(a) = upper
             /\ At(after, lower) = bytes[1] /\ At(after, upper) = bytes[1]
             /\ \A d : d # lower /\ d # upper => At(after, d) = At(m, d)
<1> DEFINE half == Aligned(a, 2)
           lower == CellOf(half)
           upper == CellOf(half + 1)
           area == lower[1]
           o == lower[2]
           x == bytes[1]
           after == AfterStore(m, a, bytes)
<1>1. half \in Nat /\ half % 2 = 0 /\ (a = half \/ a = half + 1) /\ Aligned(a, 1) = a
  BY DEF Aligned
<1> HIDE DEF half
<1>2. 2 \in Widths /\ 0 \in 0..(2 - 1) /\ 1 \in 0..(2 - 1) /\ half + 0 = half /\ Len(bytes) \in Widths
  BY <1>1 DEF Widths
<1>3. CellOf(half)[1] = CellOf(half + 1)[1]
  BY <1>1, <1>2, CellsOfBlock
<1>4. CellOf(a)[1] = area /\ area \in Doubled /\ area \notin Unstored
  BY <1>1, <1>3 DEF Doubled, Unstored
<1>5. o \in Nat /\ o % 2 = 0 /\ upper = <<area, o + 1>> /\ CellOf(half + 0) = <<area, o + 0>>
  BY <1>1, <1>2, <1>4, CellsOfBlock DEF Unstored
<1>6. lower = <<area, o>> /\ 2 * (o \div 2) = o /\ 2 * ((o + 1) \div 2) = o /\ o + 1 \in Nat
  BY <1>2, <1>5
<1>7. CellOf(a)[2] = o \/ CellOf(a)[2] = o + 1
  <2>1. upper[2] = o + 1
    BY <1>5
  <2>2. CASE a = half
    BY <2>2
  <2>3. CASE a = half + 1
    BY <2>1, <2>3
  <2> QED  BY <1>1, <2>2, <2>3
<1>8. o = 2 * (CellOf(a)[2] \div 2)
  <2> HIDE DEF o
  <2> QED  BY <1>6, <1>7
<1> HIDE DEF lower, upper, area, o
<1>9. PutByte(m, a, x, 1) = With(With(m, upper, x), lower, x)
  BY <1>4, <1>5, <1>6, <1>8, PutTwice
<1>10. after = PutByte(m, a, x, 1)
  <2>0. PICK st : StoreSteps(st, m, a, bytes)
    BY <1>2, StoreHeld
  <2>1. /\ st[0] = m /\ AfterStore(m, a, bytes) = st[Len(bytes)]
        /\ \A n \in 1..Len(bytes) :
             st[n] = PutByte(st[n - 1], Aligned(a, Len(bytes)) + n - 1, bytes[n], Len(bytes))
    BY <2>0 DEF StoreSteps
  <2>2. 1 \in 1..Len(bytes) /\ 1 - 1 = 0 /\ Aligned(a, Len(bytes)) + 1 - 1 = a
    BY <1>1
  <2>3. st[1] = PutByte(st[0], a, bytes[1], 1)
    BY <2>1, <2>2
  <2> QED  BY <2>1, <2>3
<1>11. lower[1] \notin Unstored /\ upper[1] \notin Unstored
  BY <1>4, <1>5, <1>6
<1>12. \A d : At(after, d) = IF d = lower THEN x ELSE IF d = upper THEN x ELSE At(m, d)
  <2> SUFFICES ASSUME NEW d PROVE At(after, d) = IF d = lower THEN x ELSE IF d = upper THEN x ELSE At(m, d)
    OBVIOUS
  <2>1. At(With(With(m, upper, x), lower, x), d) = IF d = lower THEN x ELSE At(With(m, upper, x), d)
    BY <1>11, WithIs
  <2>2. At(With(m, upper, x), d) = IF d = upper THEN x ELSE At(m, d)
    BY <1>11, WithIs
  <2> QED  BY <1>9, <1>10, <2>1, <2>2
<1>13. CellOf(a) = lower \/ CellOf(a) = upper
  BY <1>1 DEF lower, upper
<1> HIDE DEF after
<1>14. /\ At(after, lower) = x /\ At(after, upper) = x
       /\ \A d : d # lower /\ d # upper => At(after, d) = At(m, d)
  BY <1>12
<1> QED  BY <1>13, <1>14 DEF lower, upper, after, half

(***************************************************************************)
(* Loads.                                                                  *)
(***************************************************************************)
LEMMA LoadIs ==
  ASSUME NEW m, NEW a \in Nat, NEW w \in Widths, NEW n \in 1..w
  PROVE  /\ (n - 1 + a) % w \in 0..(w - 1)
         /\ Load(m, a, w)[n] = At(m, CellOf(Aligned(a, w) + ((n - 1 + a) % w)))
<1>1. w = 1 \/ w = 2 \/ w = 4
  BY DEF Widths
<1>2. (n - 1 + a) % w \in 0..(w - 1)
  BY <1>1
<1> QED  BY <1>2 DEF Load

LEMMA LoadByte ==
  ASSUME NEW m, NEW a \in Nat
  PROVE  Load(m, a, 1) = <<At(m, CellOf(a))>>
<1>1. Aligned(a, 1) = a
  BY DEF Aligned
<1>2. Load(m, a, 1) = [n \in 1..1 |-> At(m, CellOf(Aligned(a, 1) + ((n - 1 + a) % 1)))]
  BY DEF Load
<1>3. \A n \in 1..1 : Aligned(a, 1) + ((n - 1 + a) % 1) = a
  BY <1>1
<1> QED  BY <1>2, <1>3

LEMMA LoadHalf ==
  ASSUME NEW m, NEW f \in Nat, f % 2 = 0
  PROVE  /\ Load(m, f, 2) = <<At(m, CellOf(f)), At(m, CellOf(f + 1))>>
         /\ LoadFast(m, f, 2) = <<At(m, CellOf(f)), At(m, CellOf(f + 1))>>
<1>1. Aligned(f, 2) = f
  BY DEF Aligned
<1>2. /\ Load(m, f, 2) = [n \in 1..2 |-> At(m, CellOf(Aligned(f, 2) + ((n - 1 + f) % 2)))]
      /\ LoadFast(m, f, 2) = [n \in 1..2 |-> At(m, CellOf(Aligned(f, 2) + n - 1))]
  BY DEF Load, LoadFast
<1>3. /\ Aligned(f, 2) + ((1 - 1 + f) % 2) = f /\ Aligned(f, 2) + ((2 - 1 + f) % 2) = f + 1
      /\ Aligned(f, 2) + 1 - 1 = f /\ Aligned(f, 2) + 2 - 1 = f + 1
  BY <1>1
<1> QED  BY <1>2, <1>3

LEMMA LoadWord ==
  ASSUME NEW m, NEW f \in Nat, f % 4 = 0
  PROVE  Load(m, f, 4) = <<At(m, CellOf(f)), At(m, CellOf(f + 1)), At(m, CellOf(f + 2)), At(m, CellOf(f + 3))>>
<1>1. Aligned(f, 4) = f
  BY DEF Aligned
<1>2. Load(m, f, 4) = [n \in 1..4 |-> At(m, CellOf(Aligned(f, 4) + ((n - 1 + f) % 4)))]
  BY DEF Load
<1>3. /\ Aligned(f, 4) + ((1 - 1 + f) % 4) = f /\ Aligned(f, 4) + ((2 - 1 + f) % 4) = f + 1
      /\ Aligned(f, 4) + ((3 - 1 + f) % 4) = f + 2 /\ Aligned(f, 4) + ((4 - 1 + f) % 4) = f + 3
  BY <1>1
<1> QED  BY <1>2, <1>3

LEMMA Halves ==
  ASSUME NEW p, NEW q, NEW r, NEW s
  PROVE  SubSeq(<<p, q, r, s>>, 1, 2) = <<p, q>> /\ SubSeq(<<p, q, r, s>>, 3, 4) = <<r, s>>
<1> DEFINE t == <<p, q, r, s>>
           S == {p, q, r, s}
<1>1. t \in Seq(S) /\ Len(t) = 4 /\ t[1] = p /\ t[2] = q /\ t[3] = r /\ t[4] = s
  OBVIOUS
<1> HIDE DEF t, S
<1>2. ASSUME NEW m \in {1, 3} PROVE SubSeq(t, m, m + 1) = <<t[m], t[m + 1]>>
  <2> DEFINE h == SubSeq(t, m, m + 1)
  <2>1. m \in Int /\ m + 1 \in Int /\ \A i \in m..(m + 1) : t[i] \in S
    BY <1>1 DEF S
  <2>2. /\ h \in Seq(S) /\ Len(h) = IF m =< m + 1 THEN (m + 1) - m + 1 ELSE 0
        /\ \A i \in 1..((m + 1) - m + 1) : h[i] = t[m + i - 1]
    BY <2>1, SubSeqProperties
  <2> HIDE DEF h
  <2>3. h \in Seq(S) /\ Len(h) = 2 /\ h[1] = t[m] /\ h[2] = t[m + 1]
    <3>1. m =< m + 1 /\ (m + 1) - m + 1 = 2 /\ m + 1 - 1 = m /\ m + 2 - 1 = m + 1
      BY <2>1
    <3>2. Len(h) = 2 /\ h \in Seq(S)
      BY <2>2, <3>1
    <3>3. \A i \in 1..2 : h[i] = t[m + i - 1]
      BY <2>2, <3>1
    <3>4. 1 \in 1..2 /\ 2 \in 1..2
      OBVIOUS
    <3>5. h[1] = t[m + 1 - 1] /\ h[2] = t[m + 2 - 1]
      BY <3>3, <3>4
    <3> QED  BY <3>1, <3>2, <3>5
  <2>4. h = <<h[1], h[2]>>
    BY <2>3
  <2> QED  BY <2>3, <2>4 DEF h
<1>3. SubSeq(t, 1, 2) = <<t[1], t[2]>>
  BY <1>2
<1>4. SubSeq(t, 3, 4) = <<t[3], t[4]>>
  BY <1>2
<1> QED  BY <1>1, <1>3, <1>4 DEF t

(* A halfword and a byte are halves and bytes of the word around them.      *)
LEMMA PartsOfWord ==
  ASSUME NEW m, NEW x \in Nat
  PROVE  LET whole == Load(m, Aligned(x, 4), 4)
         IN  /\ Load(m, Aligned(x, 4), 2) = SubSeq(whole, 1, 2)
             /\ LoadFast(m, Aligned(x, 4) + 2, 2) = SubSeq(whole, 3, 4)
             /\ Load(m, x, 1) = <<whole[(x % 4) + 1]>>
<1> DEFINE f == Aligned(x, 4)
           p == At(m, CellOf(f))
           q == At(m, CellOf(f + 1))
           r == At(m, CellOf(f + 2))
           s == At(m, CellOf(f + 3))
<1>1. f \in Nat /\ f % 4 = 0 /\ f % 2 = 0 /\ (f + 2) % 2 = 0 /\ f + 2 \in Nat /\ (f + 2) + 1 = f + 3
      /\ x % 4 \in 0..3 /\ x = f + (x % 4)
  BY DEF Aligned
<1> HIDE DEF f
<1>2. Load(m, f, 4) = <<p, q, r, s>>
  BY <1>1, LoadWord
<1>3. Load(m, f, 2) = <<p, q>>
  BY <1>1, LoadHalf
<1>4. LoadFast(m, f + 2, 2) = <<r, s>>
  <2>1. LoadFast(m, f + 2, 2) = <<At(m, CellOf(f + 2)), At(m, CellOf((f + 2) + 1))>>
    BY <1>1, LoadHalf
  <2> QED  BY <1>1, <2>1
<1>5. Load(m, x, 1) = <<At(m, CellOf(x))>>
  BY LoadByte
<1>6. At(m, CellOf(x)) = <<p, q, r, s>>[(x % 4) + 1]
  <2>1. x % 4 = 0 \/ x % 4 = 1 \/ x % 4 = 2 \/ x % 4 = 3
    BY <1>1
  <2>2. CASE x % 4 = 0
    BY <1>1, <2>2
  <2>3. CASE x % 4 = 1
    BY <1>1, <2>3
  <2>4. CASE x % 4 = 2
    BY <1>1, <2>4
  <2>5. CASE x % 4 = 3
    BY <1>1, <2>5
  <2> QED  BY <2>1, <2>2, <2>3, <2>4, <2>5
<1> HIDE DEF p, q, r, s
<1> QED  BY <1>2, <1>3, <1>4, <1>5, <1>6, Halves DEF f

LEMMA ModAgain ==
  ASSUME NEW q \in Nat \ {0}, NEW o \in Nat
  PROVE  (o + q) % q = o % q
<1> DEFINE d == o \div q
           r == o % q
<1>1. d \in Int /\ r \in 0..(q - 1) /\ o = q * d + r
  BY DivIs
<1> HIDE DEF d, r
<1>2. q * (d + 1) = q * d + q /\ q * d \in Int
  BY <1>1
<1>3. o + q = q * (d + 1) + r
  BY <1>1, <1>2
<1>4. (q * (d + 1) + r) % q = r
  BY <1>1, DivMod
<1> QED  BY <1>3, <1>4 DEF r

(* The mirrors of the two work memories and of the last third of VRAM.      *)
LEMMA Mirrored ==
  ASSUME NEW x \in Nat, NEW y \in Nat,
         \/ Between(x, \h02000000, \h02FBFFFF) /\ y = x + \h40000
         \/ Between(x, \h03000000, \h03FF7FFF) /\ y = x + \h8000
         \/ Between(x, \h06010000, \h06017FFF) /\ y = x + \h8000
  PROVE  CellOf(x) = CellOf(y)
<1>2. CASE Between(x, \h02000000, \h02FBFFFF) /\ y = x + \h40000
  <2>1. InEwram(x) /\ InEwram(y)
    BY <1>2, SMT DEF InEwram, Between
  <2> DEFINE q == \h40000
             o == x - \h02000000
  <2>2. CellOf(x) = <<"ewram", (x - \h02000000) % q>> /\ CellOf(y) = <<"ewram", (y - \h02000000) % q>>
    BY <2>1, CellIs, SMT
  <2>4. x - \h02000000 = o /\ y - \h02000000 = o + q
    BY <1>2, SMT
  <2>3. o \in Nat /\ q \in Nat \ {0}
    BY <2>1, SMT DEF InEwram, Between
  <2>5. CellOf(x)[1] = CellOf(y)[1]
    BY <2>2, SMT
  <2> QED  BY <2>2, <2>3, <2>4, <2>5, ModAgain, SMT
<1>3. CASE Between(x, \h03000000, \h03FF7FFF) /\ y = x + \h8000
  <2>1. InIwram(x) /\ InIwram(y)
    BY <1>3, SMT DEF InIwram, Between
  <2> DEFINE q == \h8000
             o == x - \h03000000
  <2>2. CellOf(x) = <<"iwram", (x - \h03000000) % q>> /\ CellOf(y) = <<"iwram", (y - \h03000000) % q>>
    BY <2>1, CellIs, SMT
  <2>4. x - \h03000000 = o /\ y - \h03000000 = o + q
    BY <1>3, SMT
  <2>3. o \in Nat /\ q \in Nat \ {0}
    BY <2>1, SMT DEF InIwram, Between
  <2>5. CellOf(x)[1] = CellOf(y)[1]
    BY <2>2, SMT
  <2> QED  BY <2>2, <2>3, <2>4, <2>5, ModAgain, SMT
<1>4. CASE Between(x, \h06010000, \h06017FFF) /\ y = x + \h8000
  <2>1. InVram(x) /\ InVram(y)
    BY <1>4, SMT DEF InVram, Between
  <2>2. VramOffset(x - \h06000000) = VramOffset(y - \h06000000)
    BY <1>4, SMT DEF VramOffset, Between
  <2> QED  BY <2>1, <2>2, CellIs, SMT
<1> QED  BY <1>2, <1>3, <1>4, SMT

(***************************************************************************)
(* The flags a store clears.                                               *)
(***************************************************************************)
LEMMA FlagsCleared ==
  ASSUME NEW x, NEW y, NEW bit \in {1, 2, 4, 8, 16, 32, 64, 128}
  PROVE  (Cleared(x, y) \div bit) % 2 = 1 <=> (x \div bit) % 2 = 1 /\ (y \div bit) % 2 = 0
<1> DEFINE b(i) == IF (x \div i) % 2 = 1 /\ (y \div i) % 2 = 0 THEN i ELSE 0
           p == b(1)
           q == b(2)
           r == b(4)
           s == b(8)
           t == b(16)
           u == b(32)
           v == b(64)
           w == b(128)
<1>1. /\ p \in {0, 1} /\ q \in {0, 2} /\ r \in {0, 4} /\ s \in {0, 8}
      /\ t \in {0, 16} /\ u \in {0, 32} /\ v \in {0, 64} /\ w \in {0, 128}
  OBVIOUS
<1>2. Cleared(x, y) = p + q + r + s + t + u + v + w
  BY DEF Cleared
<1>3. b(bit) # 0 <=> (x \div bit) % 2 = 1 /\ (y \div bit) % 2 = 0
  OBVIOUS
<1> SUFFICES (Cleared(x, y) \div bit) % 2 = 1 <=> b(bit) # 0
  BY <1>3
<1>4. b(1) = p /\ b(2) = q /\ b(4) = r /\ b(8) = s /\ b(16) = t /\ b(32) = u /\ b(64) = v /\ b(128) = w
  OBVIOUS
<1> HIDE DEF b, p, q, r, s, t, u, v, w
<1> DEFINE z == p + q + r + s + t + u + v + w
<1>5. CASE bit = 1
  BY <1>1, <1>2, <1>4, <1>5
<1>6. CASE bit = 2
  BY <1>1, <1>2, <1>4, <1>6
<1>7. CASE bit = 4
  BY <1>1, <1>2, <1>4, <1>7
<1>8. CASE bit = 8
  BY <1>1, <1>2, <1>4, <1>8
<1>9. CASE bit = 16
  BY <1>1, <1>2, <1>4, <1>9
<1>10. CASE bit = 32
  BY <1>1, <1>2, <1>4, <1>10
<1>11. CASE bit = 64
  BY <1>1, <1>2, <1>4, <1>11
<1>12. CASE bit = 128
  BY <1>1, <1>2, <1>4, <1>12
<1> QED  BY <1>5, <1>6, <1>7, <1>8, <1>9, <1>10, <1>11, <1>12

LEMMA StoredInIs ==
  ASSUME NEW old, NEW a \in Nat, NEW x
  PROVE  /\ CellOf(a)[1] # "io" => StoredIn(old, CellOf(a), x) = x
         /\ a = \h04000202 => StoredIn(old, CellOf(a), x) = Cleared(old, x)
<1>1. ASSUME CellOf(a)[1] # "io" PROVE StoredIn(old, CellOf(a), x) = x
  BY <1>1, SMT DEF StoredIn, Mask, Flags
<1>2. ASSUME a = \h04000202 PROVE StoredIn(old, CellOf(a), x) = Cleared(old, x)
  <2>1. InIo(a) /\ a - \h04000000 = \h202
    BY <1>2, SMT DEF InIo, Between
  <2>2. CellOf(a) = <<"io", \h202>>
    BY <2>1, CellIs, SMT
  <2>3. CellOf(a) \in Flags /\ Mask(CellOf(a), x) = x
    BY <2>2, SMT DEF Flags, Mask
  <2> QED  BY <2>3 DEF StoredIn
<1> QED  BY <1>1, <1>2

(* A load at the address of a store gives its bytes.                        *)
Returned(m, a, bytes) ==
  \A n \in 1..Len(bytes) : Load(m, a, Len(bytes))[n] = bytes[((n - 1 + a) % Len(bytes)) + 1]
LEMMA LoadsBack ==
  ASSUME NEW m, NEW a \in Nat, NEW bytes, Len(bytes) \in Widths,
         LET area == CellOf(Aligned(a, Len(bytes)))[1]
         IN  area \notin {"io", "rom", "open"} /\ ~(area = "oam" /\ Len(bytes) = 1)
  PROVE  Returned(AfterStore(m, a, bytes), a, bytes)
<1> DEFINE w == Len(bytes)
           from == Aligned(a, w)
           area == CellOf(from)[1]
           after == AfterStore(m, a, bytes)
<1>1. w \in Widths /\ area \notin {"io", "rom", "open"} /\ ~(area = "oam" /\ w = 1)
  OBVIOUS
<1>2. from \in Nat /\ from % w = 0
  BY <1>1, AlignedAddress
<1>3. ASSUME NEW k \in 0..(w - 1) PROVE At(after, CellOf(from + k)) = bytes[k + 1]
  <2>1. CASE w = 1 /\ area \in Doubled
    <3>1. from = a /\ k = 0 /\ from + k = a
      BY <1>2, <2>1 DEF Aligned
    <3>2. CellOf(a)[1] \in Doubled /\ Len(bytes) = 1
      BY <2>1, <3>1
    <3>3. At(after, CellOf(a)) = bytes[1]
      BY <3>2, StoreTwice
    <3> QED  BY <3>1, <3>3
  <2>2. CASE ~(w = 1 /\ area \in Doubled)
    <3>1. area \notin Unstored /\ ~(w = 1 /\ area \in Doubled \union {"oam"})
      BY <1>1, <2>2 DEF Unstored
    <3>2. At(after, CellOf(from + k)) = StoredIn(At(m, CellOf(from + k)), CellOf(from + k), bytes[k + 1])
      BY <1>1, <3>1, StoreIs
    <3>3. from + k \in Nat /\ CellOf(from + k)[1] = area
      <4>1. w = 1 \/ w = 2 \/ w = 4
        BY <1>1 DEF Widths
      <4> HIDE DEF from, w
      <4>2. from + k \in Nat
        BY <1>2, <4>1
      <4>3. CellOf(from + k)[1] = area
        BY <1>1, <1>2, CellsOfBlock
      <4> QED  BY <4>2, <4>3
    <3> QED  BY <1>1, <3>2, <3>3, StoredInIs
  <2> QED  BY <2>1, <2>2
<1> HIDE DEF after, from, w
<1>4. ASSUME NEW n \in 1..w
      PROVE  Load(after, a, w)[n] = bytes[((n - 1 + a) % w) + 1]
  <2>1. (n - 1 + a) % w \in 0..(w - 1) /\ Load(after, a, w)[n] = At(after, CellOf(Aligned(a, w) + ((n - 1 + a) % w)))
    BY <1>1, LoadIs
  <2> QED  BY <1>3, <2>1 DEF from
<1> QED  BY <1>4 DEF after, w, Returned

(* Outside its window a store changes nothing.                              *)
LEMMA KeepsRest ==
  ASSUME NEW m, NEW a \in Nat, NEW bytes, Len(bytes) \in Widths, NEW d,
         LET from == Aligned(a, Len(bytes))
             grain == IF Len(bytes) = 1 /\ CellOf(from)[1] \in {"palette", "vram"} THEN 2 ELSE Len(bytes)
         IN  d \notin {CellOf(Aligned(from, grain) + n) : n \in 0..(grain - 1)}
  PROVE  At(AfterStore(m, a, bytes), d) = At(m, d)
<1> DEFINE w == Len(bytes)
           from == Aligned(a, w)
           area == CellOf(from)[1]
           after == AfterStore(m, a, bytes)
           grain == IF w = 1 /\ area \in {"palette", "vram"} THEN 2 ELSE w
<1>1. w \in Widths /\ d \notin {CellOf(Aligned(from, grain) + n) : n \in 0..(grain - 1)}
  OBVIOUS
<1>2. from \in Nat /\ from % w = 0 /\ Aligned(from, w) = from
  <2>1. w = 1 \/ w = 2 \/ w = 4
    BY <1>1 DEF Widths
  <2>2. from \in Nat /\ from % w = 0
    BY <1>1, AlignedAddress
  <2> HIDE DEF from, w
  <2> QED  BY <2>1, <2>2 DEF Aligned
<1>3. CASE area \in Unstored \/ (area = "oam" /\ w = 1)
  BY <1>1, <1>3, StoreNothing
<1>4. CASE w = 1 /\ area \in Doubled
  <2>1. from = a
    BY <1>4 DEF Aligned
  <2>2. grain = 2
    BY <1>4 DEF Doubled
  <2>3. \A n \in 0..1 : d # CellOf(Aligned(a, 2) + n)
    <3> HIDE DEF from, grain
    <3>1. \A n \in 0..(grain - 1) : d # CellOf(Aligned(from, grain) + n)
      BY <1>1
    <3> QED  BY <2>1, <2>2, <3>1
  <2>4. Aligned(a, 2) + 0 = Aligned(a, 2)
    BY DEF Aligned
  <2>5. d # CellOf(Aligned(a, 2)) /\ d # CellOf(Aligned(a, 2) + 1)
    BY <2>3, <2>4
  <2> QED  BY <1>4, <2>1, <2>5, StoreTwice
<1>5. CASE area \notin Unstored /\ ~(w = 1 /\ area \in Doubled \union {"oam"})
  <2>1. grain = w
    BY <1>5 DEF Doubled
  <2>2. \A k \in 0..(w - 1) : d # CellOf(from + k)
    BY <1>1, <1>2, <2>1
  <2> HIDE DEF area
  <2>3. \A e : (\A k \in 0..(w - 1) : e # CellOf(from + k)) => At(after, e) = At(m, e)
    BY <1>1, <1>5, StoreIs DEF area
  <2> QED  BY <2>2, <2>3
<1> QED  BY <1>3, <1>4, <1>5

(***************************************************************************)
(* The memory is the last store's, and the program has not seen another.   *)
(***************************************************************************)
StoreDone ==
  Len(lastStore.bytes) # 0 =>
    /\ Len(lastStore.bytes) \in Widths /\ lastStore.a \in Nat
    /\ memory = AfterStore(lastStore.before, lastStore.a, lastStore.bytes)

LEMMA StoreDoneAlways == BusMemorySpec => []StoreDone
<1>1. BusMemoryInit => StoreDone
  BY DEF BusMemoryInit, StoreDone
<1>2. StoreDone /\ [BusMemoryNext]_memoryVars => StoreDone'
  <2> SUFFICES ASSUME StoreDone, [BusMemoryNext]_memoryVars PROVE StoreDone'
    OBVIOUS
  <2>1. ASSUME NEW a \in Places, NEW bytes, Len(bytes) \in Widths, BusStore(a, bytes) PROVE StoreDone'
    <3>1. lastStore'.a = a /\ lastStore'.bytes = bytes /\ lastStore'.before = memory
          /\ memory' = AfterStore(memory, a, bytes)
      BY <2>1 DEF BusStore
    <3> QED  BY <2>1, <3>1, MapAssumption DEF StoreDone
  <2>2. ASSUME NEW a \in Places, NEW x \in Contents, NEW y \in Contents,
               BusStore(a, <<x>>) \/ BusStore(a, <<x, y>>) \/ BusStore(a, <<x, y, y, x>>)
        PROVE  StoreDone'
    <3>1. Len(<<x>>) \in Widths /\ Len(<<x, y>>) \in Widths /\ Len(<<x, y, y, x>>) \in Widths
      BY DEF Widths
    <3> QED  BY <2>1, <2>2, <3>1
  <2>3. ASSUME NEW x \in Contents, RaiseIf(x) PROVE StoreDone'
    BY <2>3 DEF RaiseIf, StoreDone
  <2>4. CASE TakeSignals
    BY <2>4 DEF TakeSignals, StoreDone
  <2>5. CASE UNCHANGED memoryVars
    BY <2>5 DEF memoryVars, StoreDone
  <2> QED  BY <2>2, <2>3, <2>4, <2>5 DEF BusMemoryNext
<1> QED  BY <1>1, <1>2, PTL DEF BusMemorySpec

(* A store is read back: with its width and address a load gives its bytes, *)
(* the mirrors and the parts of a word agree, no other byte watched changes *)
(* and IF loses exactly the flags written (read8 to write32 of              *)
(* core/gba_bus.cpp), whatever was stored before and wherever the loads     *)
(* look.                                                                    *)
THEOREM StoresReadBack == BusMemorySpec => []BusReadsBack
<1>1. StoreDone => BusReadsBack
  <2> DEFINE b == lastStore.bytes
             w == Len(b)
             a == lastStore.a
             m == lastStore.before
             from == Aligned(a, w)
             area == CellOf(from)[1]
             grain == IF w = 1 /\ area \in {"palette", "vram"} THEN 2 ELSE w
             window == {CellOf(Aligned(from, grain) + n) : n \in 0..(grain - 1)}
             plain == area \notin {"io", "rom", "open"} /\ ~(area = "oam" /\ w = 1)
  <2> SUFFICES ASSUME StoreDone, w # 0 PROVE BusReadsBack
    BY DEF BusReadsBack
  <2>1. w \in Widths /\ a \in Nat /\ memory = AfterStore(m, a, b)
    BY DEF StoreDone
  <2>2. plain => \A n \in 1..w : Load(memory, a, w)[n] = b[((n - 1 + a) % w) + 1]
    <3>1. ASSUME plain PROVE Returned(AfterStore(m, a, b), a, b)
      BY <2>1, <3>1, LoadsBack
    <3> HIDE DEF plain
    <3>2. plain => Returned(memory, a, b)
      BY <2>1, <3>1
    <3> QED  BY <3>2 DEF Returned
  <2>3. plain /\ w = 1 /\ grain = 2 => Load(memory, from, 2) = <<b[1], b[1]>>
    <3> SUFFICES ASSUME plain, w = 1, grain = 2 PROVE Load(memory, from, 2) = <<b[1], b[1]>>
      OBVIOUS
    <3>1. from = a
      BY <2>1 DEF Aligned
    <3>2. CellOf(a)[1] \in Doubled
      BY <3>1 DEF Doubled
    <3>3. At(memory, CellOf(Aligned(a, 2))) = b[1] /\ At(memory, CellOf(Aligned(a, 2) + 1)) = b[1]
      BY <2>1, <3>2, StoreTwice
    <3>4. Load(memory, a, 2) = [n \in 1..2 |-> At(memory, CellOf(Aligned(a, 2) + ((n - 1 + a) % 2)))]
      BY DEF Load
    <3>5. ASSUME NEW n \in 1..2 PROVE At(memory, CellOf(Aligned(a, 2) + ((n - 1 + a) % 2))) = b[1]
      <4>1. (n - 1 + a) % 2 = 0 \/ (n - 1 + a) % 2 = 1
        BY <2>1
      <4>2. Aligned(a, 2) + 0 = Aligned(a, 2)
        BY <2>1 DEF Aligned
      <4> QED  BY <3>3, <4>1, <4>2
    <3>6. Load(memory, a, 2) = [n \in 1..2 |-> b[1]]
      BY <3>4, <3>5
    <3> HIDE DEF b
    <3> QED  BY <3>1, <3>6
  <2>4. area \in {"rom", "open"} \/ (area = "oam" /\ w = 1) => memory = m
    BY <2>1, StoreNothing DEF Unstored
  <2>5. ASSUME NEW n \in 1..w, from + n - 1 = \h04000202, NEW bit \in {1, 2, 4, 8, 16, 32, 64, 128}
        PROVE  (At(memory, CellOf(from + n - 1)) \div bit) % 2 = 1
                 <=> (At(m, CellOf(from + n - 1)) \div bit) % 2 = 1 /\ (b[n] \div bit) % 2 = 0
    <3>1. w = 1 \/ w = 2 \/ w = 4
      BY <2>1 DEF Widths
    <3>2. from \in Nat /\ from % w = 0
      BY <2>1, AlignedAddress
    <3> DEFINE k == n - 1
               at == from + n - 1
    <3>3. k \in 0..(w - 1) /\ from + k = at /\ at \in Nat /\ k + 1 = n
      <4> HIDE DEF from, w
      <4> QED  BY <3>1, <3>2
    <3>4. CellOf(at)[1] = "io"
      <4>1. InIo(at)
        BY <2>5, SMT DEF InIo, Between
      <4> HIDE DEF at
      <4> QED  BY <3>3, <4>1, MemoryIs
    <3>5. area = "io"
      <4> HIDE DEF at, k
      <4> QED  BY <2>1, <3>2, <3>3, <3>4, CellsOfBlock
    <3>6. area \notin Unstored /\ ~(w = 1 /\ area \in Doubled \union {"oam"})
      BY <3>5 DEF Unstored, Doubled
    <3>7. At(memory, CellOf(from + k)) = StoredIn(At(m, CellOf(from + k)), CellOf(from + k), b[k + 1])
      <4> HIDE DEF k
      <4> QED  BY <2>1, <3>3, <3>6, StoreIs
    <3>8. at = \h04000202
      BY <2>5, SMT
    <3>9. StoredIn(At(m, CellOf(at)), CellOf(at), b[n]) = Cleared(At(m, CellOf(at)), b[n])
      <4> HIDE DEF at, b
      <4> QED  BY <3>3, <3>8, StoredInIs, SMT
    <3> HIDE DEF at, k, from, b
    <3>10. At(memory, CellOf(at)) = Cleared(At(m, CellOf(at)), b[n])
      BY <3>3, <3>7, <3>9
    <3> QED  BY <3>10, FlagsCleared DEF at
  <2>6. \A x \in Watched : CellOf(x) \notin window => Load(memory, x, 1) = Load(m, x, 1)
    <3> SUFFICES ASSUME NEW x \in Watched, CellOf(x) \notin window PROVE Load(memory, x, 1) = Load(m, x, 1)
      OBVIOUS
    <3>1. x \in Nat
      BY MapAssumption
    <3>2. At(memory, CellOf(x)) = At(m, CellOf(x))
      BY <2>1, KeepsRest
    <3> QED  BY <3>1, <3>2, LoadByte
  <2>7. \A x \in Watched :
          LET whole == Load(memory, Aligned(x, 4), 4)
          IN  /\ Load(memory, Aligned(x, 4), 2) = SubSeq(whole, 1, 2)
              /\ LoadFast(memory, Aligned(x, 4) + 2, 2) = SubSeq(whole, 3, 4)
              /\ Load(memory, x, 1) = <<whole[(x % 4) + 1]>>
    BY PartsOfWord, MapAssumption
  <2>8. ASSUME NEW x \in Watched, NEW y \in Watched,
               \/ Between(x, \h02000000, \h02FBFFFF) /\ y = x + \h40000
               \/ Between(x, \h03000000, \h03FF7FFF) /\ y = x + \h8000
               \/ Between(x, \h06010000, \h06017FFF) /\ y = x + \h8000
        PROVE  Load(memory, x, 1) = Load(memory, y, 1)
    <3>1. x \in Nat /\ y \in Nat
      BY MapAssumption, SMT
    <3>2. CellOf(x) = CellOf(y)
      BY <2>8, <3>1, Mirrored, SMT
    <3>3. Load(memory, x, 1) = <<At(memory, CellOf(x))>> /\ Load(memory, y, 1) = <<At(memory, CellOf(y))>>
      BY <3>1, LoadByte, SMT
    <3> QED  BY <3>2, <3>3, SMT
  <2> QED  BY <2>2, <2>3, <2>4, <2>5, <2>6, <2>7, <2>8, SMT DEF BusReadsBack
<1> QED  BY <1>1, StoreDoneAlways, PTL

(***************************************************************************)
(* The memory map of the GB.  Everything but the cells of a memory is what *)
(* its registers say.                                                      *)
(***************************************************************************)
MemFields == {"color", "cell", "vbk", "svbk", "boot", "joyp", "pad", "ifs", "key1", "palette", "hdma", "serial"}
SameRegisters(m, n) ==
  /\ DOMAIN n = DOMAIN m /\ MemFields \subseteq DOMAIN m
  /\ n.color = m.color /\ n.vbk = m.vbk /\ n.svbk = m.svbk /\ n.boot = m.boot /\ n.joyp = m.joyp
  /\ n.pad = m.pad /\ n.ifs = m.ifs /\ n.key1 = m.key1 /\ n.palette = m.palette /\ n.hdma = m.hdma

LEMMA PutKeeps ==
  ASSUME NEW m, MemFields \subseteq DOMAIN m, NEW p, NEW x
  PROVE  /\ SameRegisters(m, Put(m, p, x))
         /\ \A q : Cell(Put(m, p, x), q) = IF q = p THEN x ELSE Cell(m, q)
<1> DEFINE cells == [q \in DOMAIN m.cell \union {p} |-> IF q = p THEN x ELSE m.cell[q]]
           n == Put(m, p, x)
<1>1. n = [m EXCEPT !.cell = cells]
  BY DEF Put
<1>2. DOMAIN cells = DOMAIN m.cell \union {p} /\ \A q \in DOMAIN m.cell \union {p} : cells[q] = IF q = p THEN x ELSE m.cell[q]
  OBVIOUS
<1> HIDE DEF cells, n
<1>3. SameRegisters(m, n)
  BY <1>1 DEF SameRegisters, MemFields
<1>4. n.cell = cells
  BY <1>1 DEF MemFields
<1>5. ASSUME NEW q PROVE Cell(n, q) = IF q = p THEN x ELSE Cell(m, q)
  BY <1>2, <1>4 DEF Cell
<1> QED  BY <1>3, <1>5 DEF n

(* The areas of the map.                                                    *)
AtRom(a) == a < 32768
AtVram(a) == 32768 =< a /\ a =< 40959
AtEram(a) == 40960 =< a /\ a =< 49151
AtWram(a) == 49152 =< a /\ a =< 57343
AtEcho(a) == 57344 =< a /\ a =< 65023
AtOam(a) == 65024 =< a /\ a =< 65183
AtNone(a) == 65184 =< a /\ a =< 65279
AtIo(a) == 65280 =< a /\ a =< 65407
AtHram(a) == 65408 =< a /\ a =< 65534
AtIe(a) == a = 65535

LEMMA AreaIs ==
  ASSUME NEW a \in Nat, a < Space
  PROVE  \/ AtRom(a) \/ AtVram(a) \/ AtEram(a) \/ AtWram(a) \/ AtEcho(a)
         \/ AtOam(a) \/ AtNone(a) \/ AtIo(a) \/ AtHram(a) \/ AtIe(a)
BY SMT DEF AtRom, AtVram, AtEram, AtWram, AtEcho, AtOam, AtNone, AtIo, AtHram, AtIe, Space

LEMMA LocateIs ==
  ASSUME NEW m, NEW a \in Nat
  PROVE  /\ AtRom(a) => Locate(m, a) = <<"rom", a>>
         /\ AtVram(a) => Locate(m, a) = <<"vram", 8192 * m.vbk + a - 32768>>
         /\ AtEram(a) => Locate(m, a) = <<"eram", a - 40960>>
         /\ AtWram(a) => Locate(m, a) = Wram(m, a - 49152)
         /\ AtEcho(a) => Locate(m, a) = Wram(m, a - 57344)
         /\ AtOam(a) => Locate(m, a) = <<"oam", a - 65024>>
         /\ AtNone(a) => Locate(m, a) = <<"none", a>>
         /\ AtIo(a) => Locate(m, a) = <<"io", a - 65280>>
         /\ AtHram(a) => Locate(m, a) = <<"hram", a - 65408>>
         /\ AtIe(a) => Locate(m, a) = <<"ie", 0>>
<1>1. /\ AtRom(a) => Locate(m, a) = <<"rom", a>>
      /\ AtVram(a) => Locate(m, a) = <<"vram", 8192 * m.vbk + a - 32768>>
      /\ AtEram(a) => Locate(m, a) = <<"eram", a - 40960>>
  BY SMT DEF AtRom, AtVram, AtEram, Locate
<1>2. /\ AtWram(a) => Locate(m, a) = Wram(m, a - 49152)
      /\ AtEcho(a) => Locate(m, a) = Wram(m, a - 57344)
  BY SMT DEF AtWram, AtEcho, Locate
<1>3. /\ AtOam(a) => Locate(m, a) = <<"oam", a - 65024>>
      /\ AtNone(a) => Locate(m, a) = <<"none", a>>
  BY SMT DEF AtOam, AtNone, Locate
<1>4. AtIo(a) => Locate(m, a) = <<"io", a - 65280>>
  BY SMT DEF AtIo, Locate
<1>5. AtHram(a) => Locate(m, a) = <<"hram", a - 65408>>
  BY SMT DEF AtHram, Locate
<1>6. AtIe(a) => Locate(m, a) = <<"ie", 0>>
  BY SMT DEF AtIe, Locate
<1> QED  BY <1>1, <1>2, <1>3, <1>4, <1>5, <1>6

LEMMA SameMap ==
  ASSUME NEW m, NEW n, SameRegisters(m, n), NEW a
  PROVE  Locate(n, a) = Locate(m, a) /\ (BootMaps(n, a) <=> BootMaps(m, a))
<1>1. n.color = m.color /\ n.vbk = m.vbk /\ n.svbk = m.svbk /\ n.boot = m.boot
  BY DEF SameRegisters
<1>2. \A o : Wram(n, o) = Wram(m, o)
  BY <1>1 DEF Wram, WramBank
<1>3. BootMaps(n, a) <=> BootMaps(m, a)
  BY <1>1 DEF BootMaps
<1>4. Locate(n, a) = Locate(m, a)
  BY <1>1, <1>2 DEF Locate
<1> QED  BY <1>3, <1>4

BanksOK(m) == m.vbk \in Nat /\ m.svbk \in Nat

(* Two offsets of the work RAM are two cells of it.                        *)
LEMMA WramIs ==
  ASSUME NEW m, BanksOK(m), NEW o \in Nat, NEW i \in Nat, o < 8192, i < 8192
  PROVE  /\ Wram(m, o)[1] = "wram" /\ Wram(m, i)[1] = "wram"
         /\ Wram(m, o) = Wram(m, i) => o = i
<1> DEFINE b == WramBank(m)
<1>1. b \in Nat /\ b >= 1
  BY DEF BanksOK, WramBank
<1> HIDE DEF b
<1>2. /\ Wram(m, o) = IF o < 4096 THEN <<"wram", o>> ELSE <<"wram", 4096 * b + o - 4096>>
      /\ Wram(m, i) = IF i < 4096 THEN <<"wram", i>> ELSE <<"wram", 4096 * b + i - 4096>>
  BY DEF Wram, b
<1>3. Wram(m, o)[1] = "wram" /\ Wram(m, i)[1] = "wram"
  BY <1>2
<1>4. Wram(m, o)[2] = (IF o < 4096 THEN o ELSE 4096 * b + o - 4096)
      /\ Wram(m, i)[2] = (IF i < 4096 THEN i ELSE 4096 * b + i - 4096)
  BY <1>2
<1>5. Wram(m, o)[2] = Wram(m, i)[2] => o = i
  BY <1>1, <1>4
<1> QED  BY <1>3, <1>5

LEMMA WramOne ==
  ASSUME NEW m, BanksOK(m), NEW o \in Nat, NEW i \in Nat, o < 8192, i < 8192, Wram(m, o) = Wram(m, i)
  PROVE  o = i
BY WramIs

LEMMA KindIs ==
  ASSUME NEW m, BanksOK(m), NEW a \in Nat, a < Space
  PROVE  /\ Locate(m, a)[1] = "rom" <=> AtRom(a)
         /\ Locate(m, a)[1] = "vram" <=> AtVram(a)
         /\ Locate(m, a)[1] = "eram" <=> AtEram(a)
         /\ Locate(m, a)[1] = "wram" <=> AtWram(a) \/ AtEcho(a)
         /\ Locate(m, a)[1] = "oam" <=> AtOam(a)
         /\ Locate(m, a)[1] = "none" <=> AtNone(a)
         /\ Locate(m, a)[1] = "io" <=> AtIo(a)
         /\ Locate(m, a)[1] = "hram" <=> AtHram(a)
         /\ Locate(m, a)[1] = "ie" <=> AtIe(a)
<1> DEFINE k == Locate(m, a)[1]
<1>1. /\ AtRom(a) => k = "rom"
      /\ AtVram(a) => k = "vram"
      /\ AtEram(a) => k = "eram"
      /\ AtOam(a) => k = "oam"
      /\ AtNone(a) => k = "none"
      /\ AtIo(a) => k = "io"
      /\ AtHram(a) => k = "hram"
      /\ AtIe(a) => k = "ie"
  BY LocateIs
<1>2. AtWram(a) => k = "wram"
  <2> SUFFICES ASSUME AtWram(a) PROVE k = "wram"
    OBVIOUS
  <2>1. a - 49152 \in Nat /\ a - 49152 < 8192
    BY DEF AtWram
  <2>2. Wram(m, a - 49152)[1] = "wram"
    BY <2>1, WramIs
  <2> QED  BY <2>2, LocateIs
<1>3. AtEcho(a) => k = "wram"
  <2> SUFFICES ASSUME AtEcho(a) PROVE k = "wram"
    OBVIOUS
  <2>1. a - 57344 \in Nat /\ a - 57344 < 8192
    BY DEF AtEcho
  <2>2. Wram(m, a - 57344)[1] = "wram"
    BY <2>1, WramIs
  <2> QED  BY <2>2, LocateIs
<1> HIDE DEF k
<1>4. \/ AtRom(a) \/ AtVram(a) \/ AtEram(a) \/ AtWram(a) \/ AtEcho(a)
      \/ AtOam(a) \/ AtNone(a) \/ AtIo(a) \/ AtHram(a) \/ AtIe(a)
  BY AreaIs
<1>5. /\ k = "rom" <=> AtRom(a)
      /\ k = "vram" <=> AtVram(a)
      /\ k = "eram" <=> AtEram(a)
      /\ k = "wram" <=> AtWram(a) \/ AtEcho(a)
      /\ k = "oam" <=> AtOam(a)
      /\ k = "none" <=> AtNone(a)
      /\ k = "io" <=> AtIo(a)
      /\ k = "hram" <=> AtHram(a)
      /\ k = "ie" <=> AtIe(a)
  BY <1>1, <1>2, <1>3, <1>4
<1> QED  BY <1>5 DEF k

(* Two addresses name the same cell only in the echo of the work RAM.       *)
LEMMA SameCell ==
  ASSUME NEW m, BanksOK(m), NEW a \in Nat, a < Space, NEW b \in Nat, b < Space,
         Locate(m, a) = Locate(m, b)
  PROVE  a \in Aliases(b)
<1>1. b \in Aliases(b)
  BY DEF Aliases
<1>2. CASE AtRom(a)
  <2>1. AtRom(b)
    BY <1>2, KindIs
  <2>2. a = b
    BY <1>2, <2>1, LocateIs
  <2> QED  BY <1>1, <2>2
<1>3. CASE AtVram(a)
  <2>1. AtVram(b)
    BY <1>3, KindIs
  <2>2. 8192 * m.vbk + a - 32768 = 8192 * m.vbk + b - 32768
    BY <1>3, <2>1, LocateIs
  <2>3. a = b
    BY <2>2 DEF BanksOK
  <2> QED  BY <1>1, <2>3
<1>4. CASE AtEram(a)
  <2>1. AtEram(b)
    BY <1>4, KindIs
  <2>2. a = b
    BY <1>4, <2>1, LocateIs
  <2> QED  BY <1>1, <2>2
<1>5. CASE AtOam(a)
  <2>1. AtOam(b)
    BY <1>5, KindIs
  <2>2. a = b
    BY <1>5, <2>1, LocateIs
  <2> QED  BY <1>1, <2>2
<1>6. CASE AtNone(a)
  <2>1. AtNone(b)
    BY <1>6, KindIs
  <2>2. a = b
    BY <1>6, <2>1, LocateIs
  <2> QED  BY <1>1, <2>2
<1>7. CASE AtIo(a)
  <2>1. AtIo(b)
    BY <1>7, KindIs
  <2>2. a = b
    BY <1>7, <2>1, LocateIs
  <2> QED  BY <1>1, <2>2
<1>8. CASE AtHram(a)
  <2>1. AtHram(b)
    BY <1>8, KindIs
  <2>2. a = b
    BY <1>8, <2>1, LocateIs
  <2> QED  BY <1>1, <2>2
<1>9. CASE AtIe(a)
  <2>1. AtIe(b)
    BY <1>9, KindIs
  <2> QED  BY <1>1, <1>9, <2>1 DEF AtIe
<1>10. CASE AtWram(a) \/ AtEcho(a)
  <2>1. AtWram(b) \/ AtEcho(b)
    BY <1>10, KindIs
  <2> DEFINE o == IF AtWram(a) THEN a - 49152 ELSE a - 57344
             i == IF AtWram(b) THEN b - 49152 ELSE b - 57344
  <2>2. o \in Nat /\ o < 8192 /\ i \in Nat /\ i < 8192
    BY <1>10, <2>1 DEF AtWram, AtEcho
  <2>3. Locate(m, a) = Wram(m, o) /\ Locate(m, b) = Wram(m, i)
    BY <1>10, <2>1, LocateIs
  <2>4. o = i
    <3> HIDE DEF o, i
    <3>1. Wram(m, o) = Wram(m, i)
      BY <2>3
    <3> QED  BY <2>2, <3>1, WramOne
  <2>5. CASE AtWram(a) /\ AtWram(b)
    BY <1>1, <2>4, <2>5
  <2>6. CASE AtWram(a) /\ AtEcho(b)
    <3>1. 57344 =< b /\ b =< 65023 /\ a = b - 8192 /\ ~(49152 =< b /\ b =< 56831)
      BY <2>4, <2>6 DEF AtWram, AtEcho
    <3> QED  BY <3>1 DEF Aliases
  <2>7. CASE AtEcho(a) /\ AtWram(b)
    <3>1. 49152 =< b /\ b =< 56831 /\ a = b + 8192 /\ ~(57344 =< b /\ b =< 65023)
      BY <2>4, <2>7 DEF AtWram, AtEcho
    <3> QED  BY <3>1 DEF Aliases
  <2>8. CASE AtEcho(a) /\ AtEcho(b)
    <3>1. ~AtWram(a) /\ ~AtWram(b)
      BY <2>8 DEF AtEcho, AtWram
    <3> QED  BY <1>1, <2>4, <3>1
  <2> QED  BY <1>10, <2>1, <2>5, <2>6, <2>7, <2>8
<1> QED  BY <1>2, <1>3, <1>4, <1>5, <1>6, <1>7, <1>8, <1>9, <1>10, AreaIs

LEMMA AliasIs ==
  ASSUME NEW m, NEW a \in Nat, NEW b \in Nat, b < Space, a \in Aliases(b)
  PROVE  Locate(m, a) = Locate(m, b) /\ a < Space
<1>1. CASE 49152 =< b /\ b =< 56831
  <2>1. a = b \/ a = b + 8192
    BY <1>1 DEF Aliases
  <2>2. CASE a = b + 8192
    <3>1. AtWram(b) /\ AtEcho(a) /\ b - 49152 = a - 57344 /\ a < Space
      BY <1>1, <2>2 DEF AtWram, AtEcho, Space
    <3> QED  BY <3>1, LocateIs
  <2> QED  BY <2>1, <2>2
<1>2. CASE 57344 =< b /\ b =< 65023
  <2>1. a = b \/ a = b - 8192
    BY <1>2 DEF Aliases
  <2>2. CASE a = b - 8192
    <3>1. AtWram(a) /\ AtEcho(b) /\ a - 49152 = b - 57344 /\ a < Space
      BY <1>2, <2>2 DEF AtWram, AtEcho, Space
    <3> QED  BY <3>1, LocateIs
  <2> QED  BY <2>1, <2>2
<1>3. CASE ~(49152 =< b /\ b =< 56831) /\ ~(57344 =< b /\ b =< 65023)
  BY <1>3 DEF Aliases
<1> QED  BY <1>1, <1>2, <1>3

(* A store to memory changes the cell it names, and nothing in the ROM or   *)
(* where there is no memory.                                                *)
Kept(x) == 224 + (x % 32)
LEMMA PlainIs ==
  ASSUME NEW m, NEW a, NEW x
  PROVE  /\ Locate(m, a)[1] \in {"rom", "none"} => Plain(m, a, x) = m
         /\ Locate(m, a)[1] = "ie" => Plain(m, a, x) = Put(m, Locate(m, a), Kept(x))
         /\ Locate(m, a)[1] \notin {"rom", "none", "ie"} => Plain(m, a, x) = Put(m, Locate(m, a), x)
BY DEF Plain, Kept

LEMMA PlainKeeps ==
  ASSUME NEW m, MemFields \subseteq DOMAIN m, NEW a, NEW x
  PROVE  /\ SameRegisters(m, Plain(m, a, x))
         /\ \A q : q # Locate(m, a) => Cell(Plain(m, a, x), q) = Cell(m, q)
         /\ Locate(m, a)[1] \in {"rom", "none"} => Plain(m, a, x) = m
         /\ Locate(m, a)[1] \notin {"rom", "none", "ie"} => Cell(Plain(m, a, x), Locate(m, a)) = x
<1> DEFINE p == Locate(m, a)
           n == Plain(m, a, x)
<1>1. CASE p[1] \in {"rom", "none"}
  <2>1. n = m
    BY <1>1, PlainIs
  <2> QED  BY <1>1, <2>1 DEF SameRegisters
<1>2. CASE p[1] = "ie"
  <2>1. n = Put(m, p, Kept(x))
    BY <1>2, PlainIs
  <2> HIDE DEF n, p
  <2>2. SameRegisters(m, n) /\ \A q : q # p => Cell(n, q) = Cell(m, q)
    BY <2>1, PutKeeps
  <2> QED  BY <1>2, <2>2 DEF n, p
<1>3. CASE p[1] \notin {"rom", "none", "ie"}
  <2>1. n = Put(m, p, x)
    BY <1>3, PlainIs
  <2> HIDE DEF n, p
  <2>2. SameRegisters(m, n) /\ \A q : Cell(n, q) = IF q = p THEN x ELSE Cell(m, q)
    BY <2>1, PutKeeps
  <2> QED  BY <1>3, <2>2 DEF n, p
<1> QED  BY <1>1, <1>2, <1>3

(* A load outside of the registers.                                         *)
LEMMA ReadIs ==
  ASSUME NEW m, NEW a \in Nat, Locate(m, a)[1] # "io"
  PROVE  Read(m, a) = IF BootMaps(m, a) THEN 1000 + a
                      ELSE IF Locate(m, a)[1] = "none" THEN 255
                      ELSE IF Locate(m, a)[1] = "ie" THEN Kept(Cell(m, Locate(m, a)))
                      ELSE Cell(m, Locate(m, a))
<1> DEFINE p == Locate(m, a)
<1>1. Read(m, a) = CASE BootMaps(m, a) -> 1000 + a
                     [] ~BootMaps(m, a) /\ p[1] = "io" -> ReadIo(m, p[2])
                     [] p[1] = "none" -> 255
                     [] p[1] = "ie" -> Kept(Cell(m, p))
                     [] OTHER -> Cell(m, p)
  BY DEF Read, Kept
<1>2. BootMaps(m, a) => p[1] = "rom"
  <2> SUFFICES ASSUME BootMaps(m, a) PROVE p[1] = "rom"
    OBVIOUS
  <2>1. AtRom(a)
    BY DEF BootMaps, AtRom
  <2> QED  BY <2>1, LocateIs
<1> HIDE DEF p
<1>3. p[1] # "io"
  BY DEF p
<1>4. CASE BootMaps(m, a)
  BY <1>1, <1>2, <1>4
<1>5. CASE ~BootMaps(m, a)
  BY <1>1, <1>3, <1>5 DEF p
<1> QED  BY <1>4, <1>5

LEMMA ReadSame ==
  ASSUME NEW m, NEW n, SameRegisters(m, n), NEW a \in Nat, Locate(m, a)[1] # "io",
         Cell(n, Locate(m, a)) = Cell(m, Locate(m, a))
  PROVE  Read(n, a) = Read(m, a)
<1>1. Locate(n, a) = Locate(m, a) /\ (BootMaps(n, a) <=> BootMaps(m, a))
  BY SameMap
<1>2. Locate(n, a)[1] # "io"
  BY <1>1
<1>3. Read(m, a) = IF BootMaps(m, a) THEN 1000 + a
                   ELSE IF Locate(m, a)[1] = "none" THEN 255
                   ELSE IF Locate(m, a)[1] = "ie" THEN Kept(Cell(m, Locate(m, a)))
                   ELSE Cell(m, Locate(m, a))
  BY ReadIs
<1>4. Read(n, a) = IF BootMaps(n, a) THEN 1000 + a
                   ELSE IF Locate(n, a)[1] = "none" THEN 255
                   ELSE IF Locate(n, a)[1] = "ie" THEN Kept(Cell(n, Locate(n, a)))
                   ELSE Cell(n, Locate(n, a))
  BY <1>2, ReadIs
<1> QED  BY <1>1, <1>3, <1>4

(* A store shows at its address and at its echo, and nowhere else.          *)
LEMMA StoreShows ==
  ASSUME NEW m, MemFields \subseteq DOMAIN m, BanksOK(m), NEW b \in Nat, b < Space, ~AtIo(b), NEW x,
         NEW a \in Nat, a < Space, ~AtIo(a)
  PROVE  IF a \in Aliases(b) THEN InRam(a) => Read(Plain(m, b, x), a) = x
         ELSE Read(Plain(m, b, x), a) = Read(m, a)
<1> DEFINE n == Plain(m, b, x)
           p == Locate(m, b)
<1>1. /\ SameRegisters(m, n) /\ \A q : q # p => Cell(n, q) = Cell(m, q)
      /\ p[1] \notin {"rom", "none", "ie"} => Cell(n, p) = x
  BY PlainKeeps
<1>2. Locate(m, a)[1] # "io"
  BY KindIs
<1>3. CASE a \in Aliases(b)
  <2> SUFFICES ASSUME InRam(a) PROVE Read(n, a) = x
    BY <1>3
  <2>1. Locate(m, a) = p
    BY <1>3, AliasIs
  <2>2. /\ ~AtRom(a) /\ ~AtNone(a) /\ ~AtIe(a) /\ a >= 40960
    BY DEF InRam, AtRom, AtNone, AtIe
  <2>3. p[1] \notin {"rom", "none", "ie"}
    BY <2>1, <2>2, KindIs
  <2>4. Locate(n, a) = p /\ ~BootMaps(n, a)
    <3>1. ~BootMaps(n, a)
      BY <2>2 DEF BootMaps
    <3> QED  BY <1>1, <2>1, <3>1, SameMap
  <2>5. Locate(n, a)[1] # "io"
    BY <1>2, <2>1, <2>4
  <2> HIDE DEF n, p
  <2>6. Read(n, a) = Cell(n, p)
    BY <2>3, <2>4, <2>5, ReadIs
  <2> QED  BY <1>1, <2>3, <2>6
<1>4. CASE a \notin Aliases(b)
  <2>1. Locate(m, a) # p
    BY <1>4, SameCell
  <2>2. Cell(n, Locate(m, a)) = Cell(m, Locate(m, a))
    BY <1>1, <2>1
  <2> HIDE DEF n
  <2>3. Read(n, a) = Read(m, a)
    BY <1>1, <1>2, <2>2, ReadSame
  <2> QED  BY <1>4, <2>3 DEF n
<1> QED  BY <1>3, <1>4

(***************************************************************************)
(* Loads from registers.                                                   *)
(***************************************************************************)
PalettesOK(m) == m.palette \in [{104, 106} -> [index : Nat, inc : BOOLEAN]]
DmaPage == <<"io", 70>>

LEMMA PaletteIs ==
  ASSUME NEW m, PalettesOK(m), NEW port \in {105, 107}
  PROVE  /\ m.palette[port - 1].index \in Nat
         /\ PaletteCell(m, port) = <<"io", 64 * port + m.palette[port - 1].index>>
         /\ PaletteCell(m, port) # DmaPage
<1>1. port - 1 \in {104, 106}
  OBVIOUS
<1>2. m.palette[port - 1] \in [index : Nat, inc : BOOLEAN]
  BY <1>1 DEF PalettesOK
<1>3. m.palette[port - 1].index \in Nat
  BY <1>2
<1>4. PaletteCell(m, port) = <<"io", 64 * port + m.palette[port - 1].index>>
  BY DEF PaletteCell
<1>5. 64 * port + m.palette[port - 1].index # 70
  BY <1>3
<1>6. PaletteCell(m, port)[2] # 70
  BY <1>4, <1>5
<1>7. DmaPage[2] = 70
  BY DEF DmaPage
<1> QED  BY <1>3, <1>4, <1>6, <1>7

LEMMA ReadIoSame ==
  ASSUME NEW m, NEW n, SameRegisters(m, n), PalettesOK(m), NEW port,
         Cell(n, <<"io", port>>) = Cell(m, <<"io", port>>),
         \A q : q[1] = "io" /\ q # DmaPage => Cell(n, q) = Cell(m, q)
  PROVE  ReadIo(n, port) = ReadIo(m, port)
<1>1. /\ n.color = m.color /\ n.vbk = m.vbk /\ n.svbk = m.svbk /\ n.joyp = m.joyp /\ n.pad = m.pad
      /\ n.ifs = m.ifs /\ n.key1 = m.key1 /\ n.palette = m.palette /\ n.hdma = m.hdma
  BY DEF SameRegisters
<1>2. Joypad(n) = Joypad(m)
  BY <1>1 DEF Joypad
<1>3. \A r : r # 70 => Cell(n, <<"io", r>>) = Cell(m, <<"io", r>>)
  <2> SUFFICES ASSUME NEW r, r # 70 PROVE Cell(n, <<"io", r>>) = Cell(m, <<"io", r>>)
    OBVIOUS
  <2> DEFINE q == <<"io", r>>
  <2>1. q[1] = "io" /\ q # DmaPage
    BY DEF DmaPage
  <2> HIDE DEF q
  <2>2. Cell(n, q) = Cell(m, q)
    BY <2>1
  <2> QED  BY <2>2 DEF q
<1>4. port \in {105, 107} => Cell(n, PaletteCell(n, port)) = Cell(m, PaletteCell(m, port))
  <2> SUFFICES ASSUME port \in {105, 107} PROVE Cell(n, PaletteCell(n, port)) = Cell(m, PaletteCell(m, port))
    OBVIOUS
  <2>1. PaletteCell(n, port) = PaletteCell(m, port)
    BY <1>1 DEF PaletteCell
  <2>2. PaletteCell(m, port)[1] = "io" /\ PaletteCell(m, port) # DmaPage
    BY PaletteIs
  <2> QED  BY <2>1, <2>2
<1>5. Cell(n, <<"io", port>>) = Cell(m, <<"io", port>>) /\ Cell(n, <<"io", 83>>) = Cell(m, <<"io", 83>>)
  BY <1>3
<1>6. CASE port \in {105, 107}
  <2>1. ReadIo(m, port) = Cell(m, PaletteCell(m, port)) /\ ReadIo(n, port) = Cell(n, PaletteCell(n, port))
    BY <1>6 DEF ReadIo
  <2> QED  BY <1>4, <1>6, <2>1
<1>7. CASE port \notin {105, 107}
  BY <1>1, <1>2, <1>5, <1>7 DEF ReadIo
<1> QED  BY <1>6, <1>7

(* Where two maps have the same registers and cells, loads agree.           *)
LEMMA ReadAgrees ==
  ASSUME NEW m, NEW n, SameRegisters(m, n), BanksOK(m), PalettesOK(m), NEW a \in Nat, a < Space,
         Cell(n, Locate(m, a)) = Cell(m, Locate(m, a)),
         \A q : q[1] = "io" /\ q # DmaPage => Cell(n, q) = Cell(m, q)
  PROVE  Read(n, a) = Read(m, a)
<1>1. CASE ~AtIo(a)
  <2>1. Locate(m, a)[1] # "io"
    BY <1>1, KindIs
  <2> QED  BY <2>1, ReadSame
<1>2. CASE AtIo(a)
  <2> DEFINE port == a - 65280
  <2>1. Locate(m, a) = <<"io", port>>
    BY <1>2, LocateIs
  <2>2. Cell(n, <<"io", port>>) = Cell(m, <<"io", port>>)
    BY <2>1
  <2>3. ~BootMaps(m, a)
    BY <1>2 DEF BootMaps, AtIo
  <2>4. Locate(n, a) = <<"io", port>> /\ ~BootMaps(n, a)
    BY <2>1, <2>3, SameMap
  <2> HIDE DEF port
  <2>5. Read(m, a) = ReadIo(m, port)
    BY <2>1, <2>3 DEF Read
  <2>6. Read(n, a) = ReadIo(n, port)
    BY <2>4 DEF Read
  <2>7. ReadIo(n, port) = ReadIo(m, port)
    BY <2>2, ReadIoSame
  <2> QED  BY <2>5, <2>6, <2>7
<1> QED  BY <1>1, <1>2

(***************************************************************************)
(* OAM DMA.                                                                *)
(***************************************************************************)
LEMMA OamDmaIs ==
  ASSUME NEW m, MemFields \subseteq DOMAIN m, NEW page
  PROVE  /\ SameRegisters(m, OamDma(m, page))
         /\ \A q \in OamCells : Cell(OamDma(m, page), q) = Read(Put(m, DmaPage, page), 256 * page + q[2])
         /\ \A q : q \notin OamCells => Cell(OamDma(m, page), q) = IF q = DmaPage THEN page ELSE Cell(m, q)
<1> DEFINE set == Put(m, DmaPage, page)
           taken == [p \in DOMAIN set.cell \union OamCells |->
                       IF p \in OamCells THEN Read(set, 256 * page + p[2]) ELSE set.cell[p]]
           n == OamDma(m, page)
<1>1. n = [set EXCEPT !.cell = taken]
  BY DEF OamDma, DmaPage
<1>2. SameRegisters(m, set) /\ \A q : Cell(set, q) = IF q = DmaPage THEN page ELSE Cell(m, q)
  BY PutKeeps
<1>3. DOMAIN taken = DOMAIN set.cell \union OamCells
  OBVIOUS
<1>4. \A p \in OamCells : taken[p] = Read(set, 256 * page + p[2])
  OBVIOUS
<1>5. \A p \in DOMAIN set.cell : p \notin OamCells => taken[p] = set.cell[p]
  OBVIOUS
<1> HIDE DEF set, taken, n
<1>6. SameRegisters(m, n) /\ n.cell = taken
  BY <1>1, <1>2 DEF SameRegisters, MemFields
<1>7. ASSUME NEW q \in OamCells PROVE Cell(n, q) = Read(set, 256 * page + q[2])
  BY <1>3, <1>4, <1>6 DEF Cell
<1>8. ASSUME NEW q, q \notin OamCells PROVE Cell(n, q) = IF q = DmaPage THEN page ELSE Cell(m, q)
  <2>1. Cell(n, q) = Cell(set, q)
    BY <1>3, <1>5, <1>6, <1>8 DEF Cell
  <2> QED  BY <1>2, <2>1
<1> QED  BY <1>6, <1>7, <1>8 DEF n, set

(* What a DMA leaves is what the CPU would have read at the source.        *)
LEMMA OamDmaShows ==
  ASSUME NEW m, MemFields \subseteq DOMAIN m, BanksOK(m), PalettesOK(m), NEW page \in Nat, page < 256,
         NEW i \in Nat, i < 160, i # 70
  PROVE  Read(OamDma(m, page), 65024 + i) = Read(m, 256 * page + i)
<1> DEFINE n == OamDma(m, page)
           set == Put(m, DmaPage, page)
           q == <<"oam", i>>
           a == 256 * page + i
<1>1. q \in OamCells /\ q[2] = i /\ q[1] = "oam"
  <2>1. i \in 0..(OamSize - 1)
    BY DEF OamSize
  <2> QED  BY <2>1 DEF OamCells
<1>2. SameRegisters(m, n) /\ Cell(n, q) = Read(set, a)
  <2>1. /\ SameRegisters(m, n)
        /\ \A p \in OamCells : Cell(n, p) = Read(set, 256 * page + p[2])
    BY OamDmaIs
  <2>2. Cell(n, q) = Read(set, 256 * page + q[2]) /\ q[2] = i
    <3> HIDE DEF n, set, q
    <3> QED  BY <1>1, <2>1
  <2> HIDE DEF n, set, q
  <2> QED  BY <2>1, <2>2
<1>3. SameRegisters(m, set) /\ \A p : Cell(set, p) = IF p = DmaPage THEN page ELSE Cell(m, p)
  BY PutKeeps
<1>4. AtOam(65024 + i) /\ 65024 + i \in Nat /\ (65024 + i) - 65024 = i
  BY DEF AtOam
<1>5. Locate(m, 65024 + i) = q
  <2> DEFINE b == 65024 + i
  <2>1. AtOam(b) /\ b \in Nat /\ b - 65024 = i
    BY <1>4
  <2> HIDE DEF b
  <2>2. Locate(m, b) = <<"oam", b - 65024>>
    BY <2>1, LocateIs
  <2> QED  BY <2>1, <2>2 DEF b
<1>6. Read(n, 65024 + i) = Cell(n, q)
  <2> DEFINE b == 65024 + i
  <2>1. b \in Nat /\ ~(b < 32768)
    OBVIOUS
  <2>2. ~BootMaps(m, b)
    BY <2>1 DEF BootMaps
  <2>3. Locate(n, b) = q /\ ~BootMaps(n, b)
    BY <1>2, <1>5, <2>2, SameMap
  <2> HIDE DEF b, n, q
  <2>4. Read(n, b) = Cell(n, q)
    BY <1>1, <2>1, <2>3, ReadIs
  <2> QED  BY <2>4 DEF b
<1>7. a \in Nat /\ a < Space
  BY DEF Space
<1>8. Locate(m, a) # DmaPage
  <2>1. SUFFICES ASSUME Locate(m, a) = DmaPage PROVE FALSE
    OBVIOUS
  <2>2. DmaPage[1] = "io" /\ DmaPage[2] = 70
    BY DEF DmaPage
  <2> HIDE DEF a
  <2>3. AtIo(a)
    BY <1>7, <2>1, <2>2, KindIs
  <2>4. a - 65280 = 70
    BY <1>7, <2>1, <2>2, <2>3, LocateIs
  <2>5. a = 65350
    BY <1>7, <2>4
  <2> QED  BY <2>5 DEF a
<1>9. Read(set, a) = Read(m, a)
  <2> HIDE DEF a, set
  <2>1. Cell(set, Locate(m, a)) = Cell(m, Locate(m, a))
    BY <1>3, <1>8
  <2>2. \A p : p[1] = "io" /\ p # DmaPage => Cell(set, p) = Cell(m, p)
    BY <1>3
  <2> QED  BY <1>3, <1>7, <2>1, <2>2, ReadAgrees
<1> QED  BY <1>2, <1>6, <1>9

(***************************************************************************)
(* HDMA.  After k bytes of a block, the first k cells of the destination   *)
(* hold what the source read before it, and no other cell has changed.     *)
(***************************************************************************)
HdmaFrom(m) == m.hdma.source
HdmaTo(m) == m.hdma.dest
BlockOK(m) ==
  /\ HdmaFrom(m) \in Nat /\ HdmaFrom(m) < Space /\ HdmaFrom(m) % 16 = 0
  /\ HdmaTo(m) \in Nat /\ 32768 =< HdmaTo(m) /\ HdmaTo(m) + 16 =< 43008 /\ HdmaTo(m) % 16 = 0
Into(m, j) == Locate(m, HdmaTo(m) + j)
Copied(s, m, k) ==
  /\ SameRegisters(m, s)
  /\ \A j \in Nat : j < k => Cell(s, Into(m, j)) = Read(m, HdmaFrom(m) + j)
  /\ \A q : (\A j \in Nat : j < 16 => q # Into(m, j)) => Cell(s, q) = Cell(m, q)
  /\ \A j \in Nat : k =< j /\ j < 16 => Cell(s, Into(m, j)) = Cell(m, Into(m, j))

(* The cells of a destination are sixteen cells of the VRAM or of the      *)
(* cartridge's RAM.                                                        *)
LEMMA IntoIs ==
  ASSUME NEW m, BanksOK(m), BlockOK(m), NEW j \in Nat, j < 16
  PROVE  /\ HdmaTo(m) + j \in Nat /\ HdmaTo(m) + j < 43008 /\ HdmaTo(m) + j >= 32768
         /\ Into(m, j)[1] \in {"vram", "eram"}
<1> DEFINE a == HdmaTo(m) + j
<1>1. a \in Nat /\ a < 43008 /\ a >= 32768
  BY DEF BlockOK
<1> HIDE DEF a
<1>2. AtVram(a) \/ AtEram(a)
  BY <1>1 DEF AtVram, AtEram
<1>3. Locate(m, a)[1] \in {"vram", "eram"}
  BY <1>1, <1>2, KindIs DEF Space
<1> QED  BY <1>1, <1>3 DEF a, Into

LEMMA IntoOne ==
  ASSUME NEW m, BanksOK(m), BlockOK(m), NEW j \in Nat, j < 16, NEW a \in Nat, a < Space,
         Locate(m, a) = Into(m, j)
  PROVE  a = HdmaTo(m) + j
<1> DEFINE b == HdmaTo(m) + j
<1>1. b \in Nat /\ b < 43008
  BY IntoIs
<1> HIDE DEF b
<1>2. b < Space /\ Locate(m, a) = Locate(m, b)
  BY <1>1 DEF Space, Into, b
<1>3. a \in Aliases(b)
  BY <1>1, <1>2, SameCell
<1>4. a = b
  BY <1>1, <1>3 DEF Aliases
<1> QED  BY <1>4 DEF b

LEMMA CopiedStep ==
  ASSUME NEW m, BanksOK(m), PalettesOK(m), BlockOK(m), NEW s, NEW k \in Nat, k < 16, Copied(s, m, k)
  PROVE  Copied(HdmaByte(s, m, k), m, k + 1)
<1> DEFINE a == HdmaFrom(m) + k
           b == HdmaTo(m) + k
           x == Read(s, a)
           n == Plain(s, b, x)
<1>1. a \in Nat /\ a < Space /\ (m.hdma.source + k) % Space = a
  <2> DEFINE h == HdmaFrom(m)
  <2>1. h \in Nat /\ h < 65536 /\ h % 16 = 0 /\ m.hdma.source = h
    BY DEF BlockOK, HdmaFrom, Space
  <2> HIDE DEF h
  <2>2. h + k < 65536
    BY <2>1
  <2> QED  BY <2>1, <2>2 DEF Space, h
<1>2. HdmaByte(s, m, k) = n
  BY <1>1 DEF HdmaByte, HdmaTo
<1>3. SameRegisters(m, s) /\ MemFields \subseteq DOMAIN s
  BY DEF Copied, SameRegisters
<1>4. b \in Nat /\ b < Space /\ Into(m, k) = Locate(m, b) /\ Into(m, k)[1] \in {"vram", "eram"}
  BY IntoIs DEF Into, Space
<1>5. x = Read(m, a)
  <2>1. Cell(s, Locate(m, a)) = Cell(m, Locate(m, a))
    <3>1. CASE \A j \in Nat : j < 16 => Locate(m, a) # Into(m, j)
      BY <3>1 DEF Copied
    <3>2. CASE \E j \in Nat : j < 16 /\ Locate(m, a) = Into(m, j)
      <4>1. PICK j \in Nat : j < 16 /\ Locate(m, a) = Into(m, j)
        BY <3>2
      <4>2. a = HdmaTo(m) + j
        BY <1>1, <4>1, IntoOne
      <4>3. k = j
        BY <4>1, <4>2 DEF BlockOK
      <4> QED  BY <4>1, <4>3 DEF Copied
    <3> QED  BY <3>1, <3>2
  <2>2. \A q : q[1] = "io" /\ q # DmaPage => Cell(s, q) = Cell(m, q)
    <3> SUFFICES ASSUME NEW q, q[1] = "io" PROVE Cell(s, q) = Cell(m, q)
      OBVIOUS
    <3>1. \A j \in Nat : j < 16 => q # Into(m, j)
      BY IntoIs
    <3> QED  BY <3>1 DEF Copied
  <2> HIDE DEF a
  <2> QED  BY <1>1, <1>3, <2>1, <2>2, ReadAgrees
<1>6. Locate(s, b) = Into(m, k)
  BY <1>3, <1>4, SameMap
<1> HIDE DEF a, b, x, n
<1>7. /\ SameRegisters(s, n) /\ \A q : q # Into(m, k) => Cell(n, q) = Cell(s, q)
      /\ Cell(n, Into(m, k)) = x
  BY <1>3, <1>4, <1>6, PlainKeeps DEF n
<1>8. SameRegisters(m, n)
  BY <1>3, <1>7 DEF SameRegisters
<1>9. \A j \in Nat : j < 16 /\ j # k => Into(m, j) # Into(m, k)
  <2> SUFFICES ASSUME NEW j \in Nat, j < 16, j # k, Into(m, j) = Into(m, k) PROVE FALSE
    OBVIOUS
  <2>1. b = HdmaTo(m) + j
    BY <1>4, IntoOne
  <2> QED  BY <2>1 DEF b, BlockOK
<1>10. ASSUME NEW j \in Nat, j < k + 1 PROVE Cell(n, Into(m, j)) = Read(m, HdmaFrom(m) + j)
  <2>1. CASE j = k
    BY <1>5, <1>7, <2>1 DEF a
  <2>2. CASE j < k
    <3>1. Cell(n, Into(m, j)) = Cell(s, Into(m, j))
      BY <1>7, <1>9, <2>2
    <3> QED  BY <2>2, <3>1 DEF Copied
  <2> QED  BY <1>10, <2>1, <2>2
<1>11. ASSUME NEW q, \A j \in Nat : j < 16 => q # Into(m, j) PROVE Cell(n, q) = Cell(m, q)
  <2>1. Cell(n, q) = Cell(s, q)
    BY <1>7, <1>11
  <2> QED  BY <1>11, <2>1 DEF Copied
<1>12. ASSUME NEW j \in Nat, k + 1 =< j, j < 16 PROVE Cell(n, Into(m, j)) = Cell(m, Into(m, j))
  <2>1. Cell(n, Into(m, j)) = Cell(s, Into(m, j))
    BY <1>7, <1>9, <1>12
  <2> QED  BY <1>12, <2>1 DEF Copied
<1> QED  BY <1>2, <1>8, <1>10, <1>11, <1>12 DEF Copied

(* The sixteen bytes of a block are copied in order.                       *)
BlockCopies(run, m) ==
  \A n \in 0..16 : run[n] = IF n = 0 THEN m ELSE HdmaByte(run[n - 1], m, n - 1)

LEMMA BlockRule ==
  ASSUME NEW m
  PROVE  \E run : /\ BlockCopies(run, m)
                  /\ HdmaBlock(m) = [run[16] EXCEPT !.hdma =
                       [source |-> (m.hdma.source + 16) % Space, dest |-> (m.hdma.dest + 16) % Space,
                        length |-> m.hdma.length - 1, active |-> m.hdma.active /\ m.hdma.length - 1 > 0]]
<1> DEFINE Rec(g) == g = [n \in 0..16 |-> IF n = 0 THEN m ELSE HdmaByte(g[n - 1], m, n - 1)]
           Is(g, j) == g = [n \in 0..j |-> IF n = 0 THEN m ELSE HdmaByte(g[n - 1], m, n - 1)]
           S == {j \in Nat : j =< 16 => \E g : Is(g, j)}
<1>1. HdmaBlock(m) = [(CHOOSE g : Rec(g))[16] EXCEPT !.hdma =
                       [source |-> (m.hdma.source + 16) % Space, dest |-> (m.hdma.dest + 16) % Space,
                        length |-> m.hdma.length - 1, active |-> m.hdma.active /\ m.hdma.length - 1 > 0]]
  BY DEF HdmaBlock
<1>2. 0 \in S
  <2>1. Is([n \in 0..0 |-> m], 0)
    OBVIOUS
  <2> QED  BY <2>1
<1>3. ASSUME NEW j \in Nat, j \in S PROVE j + 1 \in S
  <2>1. SUFFICES ASSUME j + 1 =< 16 PROVE \E g : Is(g, j + 1)
    OBVIOUS
  <2>2. PICK h : Is(h, j)
    BY <1>3, <2>1
  <2> DEFINE g == [n \in 0..(j + 1) |-> IF n =< j THEN h[n] ELSE HdmaByte(h[j], m, j)]
  <2>3. /\ \A n \in 0..j : g[n] = h[n]
        /\ g[j + 1] = HdmaByte(h[j], m, j)
        /\ g = [n \in 0..(j + 1) |-> g[n]]
    OBVIOUS
  <2> HIDE DEF g
  <2>4. ASSUME NEW n \in 0..(j + 1)
        PROVE  g[n] = IF n = 0 THEN m ELSE HdmaByte(g[n - 1], m, n - 1)
    <3>1. CASE n = 0
      <4>1. 0 \in 0..j
        OBVIOUS
      <4>2. h[0] = m
        BY <2>2, <4>1
      <4>3. g[0] = h[0]
        BY <2>3, <4>1
      <4> QED  BY <3>1, <4>2, <4>3
    <3>2. CASE n \in 1..j
      <4>1. n \in 0..j /\ n - 1 \in 0..j /\ n # 0
        BY <3>2
      <4>2. g[n] = h[n] /\ g[n - 1] = h[n - 1] /\ h[n] = HdmaByte(h[n - 1], m, n - 1)
        BY <2>2, <2>3, <4>1
      <4> QED  BY <4>1, <4>2
    <3>3. CASE n = j + 1
      <4>1. n # 0 /\ n - 1 = j /\ j \in 0..j
        BY <3>3
      <4>2. g[j] = h[j]
        BY <2>3, <4>1
      <4> QED  BY <2>3, <3>3, <4>1, <4>2
    <3> QED  BY <3>1, <3>2, <3>3
  <2>5. Is(g, j + 1)
    BY <2>3, <2>4
  <2> QED  BY <2>5
<1>4. 16 \in S
  <2> HIDE DEF S
  <2>1. Nat \subseteq S
    BY <1>2, <1>3, SetInduction
  <2> QED  BY <2>1
<1>5. PICK run : Rec(run)
  BY <1>4
<1> DEFINE chosen == CHOOSE g : Rec(g)
<1>6. Rec(chosen)
  BY <1>5
<1>7. BlockCopies(chosen, m)
  BY <1>6 DEF BlockCopies
<1>8. HdmaBlock(m) = [chosen[16] EXCEPT !.hdma =
                       [source |-> (m.hdma.source + 16) % Space, dest |-> (m.hdma.dest + 16) % Space,
                        length |-> m.hdma.length - 1, active |-> m.hdma.active /\ m.hdma.length - 1 > 0]]
  BY <1>1
<1> QED  BY <1>7, <1>8

LEMMA BlockCopied ==
  ASSUME NEW m, MemFields \subseteq DOMAIN m, BanksOK(m), PalettesOK(m), BlockOK(m),
         NEW run, BlockCopies(run, m)
  PROVE  Copied(run[16], m, 16)
<1> DEFINE S == {j \in Nat : j =< 16 => Copied(run[j], m, j)}
<1>1. 0 \in S
  <2>1. run[0] = m
    BY DEF BlockCopies
  <2>2. Copied(m, m, 0)
    BY DEF Copied, SameRegisters
  <2> QED  BY <2>1, <2>2
<1>2. ASSUME NEW j \in Nat, j \in S PROVE j + 1 \in S
  <2>1. SUFFICES ASSUME j + 1 =< 16 PROVE Copied(run[j + 1], m, j + 1)
    OBVIOUS
  <2>2. Copied(run[j], m, j) /\ j < 16
    BY <1>2, <2>1
  <2>3. j + 1 \in 0..16 /\ j + 1 # 0 /\ (j + 1) - 1 = j
    BY <2>1
  <2>4. run[j + 1] = HdmaByte(run[j], m, j)
    BY <2>3 DEF BlockCopies
  <2>5. Copied(HdmaByte(run[j], m, j), m, j + 1)
    BY <2>2, CopiedStep
  <2> QED  BY <2>4, <2>5
<1>3. 16 \in S
  <2> HIDE DEF S
  <2>1. Nat \subseteq S
    BY <1>1, <1>2, SetInduction
  <2> QED  BY <2>1
<1> QED  BY <1>3

(* The registers of an HDMA and nothing else of a memory.                   *)
LEMMA HdmaOnly ==
  ASSUME NEW s, MemFields \subseteq DOMAIN s, NEW h, NEW a, NEW q
  PROVE  LET n == [s EXCEPT !.hdma = h]
         IN  /\ DOMAIN n = DOMAIN s /\ n.hdma = h /\ Cell(n, q) = Cell(s, q)
             /\ Locate(n, a) = Locate(s, a) /\ (BootMaps(n, a) <=> BootMaps(s, a))
             /\ n.color = s.color /\ n.vbk = s.vbk /\ n.svbk = s.svbk /\ n.joyp = s.joyp
             /\ n.palette = s.palette /\ n.pad = s.pad
<1> DEFINE n == [s EXCEPT !.hdma = h]
<1>1. /\ DOMAIN n = DOMAIN s /\ n.hdma = h /\ n.cell = s.cell
      /\ n.color = s.color /\ n.vbk = s.vbk /\ n.svbk = s.svbk /\ n.boot = s.boot /\ n.joyp = s.joyp
      /\ n.palette = s.palette /\ n.pad = s.pad
  BY DEF MemFields
<1> HIDE DEF n
<1>2. Cell(n, q) = Cell(s, q)
  BY <1>1 DEF Cell
<1>3. \A o : Wram(n, o) = Wram(s, o)
  BY <1>1 DEF Wram, WramBank
<1>4. Locate(n, a) = Locate(s, a)
  BY <1>1, <1>3 DEF Locate
<1>5. BootMaps(n, a) <=> BootMaps(s, a)
  BY <1>1 DEF BootMaps
<1> QED  BY <1>1, <1>2, <1>4, <1>5 DEF n

(***************************************************************************)
(* The invariant: the registers hold what they can hold, and a transfer    *)
(* that has blocks left ends within the VRAM and the cartridge's RAM.       *)
(***************************************************************************)
HdmaOK(m) ==
  /\ m.hdma \in [source : Nat, dest : Nat, length : Nat, active : BOOLEAN]
  /\ m.hdma.source < Space /\ m.hdma.source % 16 = 0
  /\ m.hdma.length # 0 => /\ 32768 =< m.hdma.dest /\ m.hdma.dest % 16 = 0
                          /\ m.hdma.dest + 16 * m.hdma.length =< 43008
Register(m, r) == Cell(m, <<"io", r>>)
PortsOK(m) ==
  /\ Register(m, 81) \in Nat /\ Register(m, 81) < 256
  /\ Register(m, 82) \in Nat /\ Register(m, 82) < 256 /\ Register(m, 82) % 16 = 0
  /\ Register(m, 83) \in Nat /\ Register(m, 83) < 32
  /\ Register(m, 84) \in Nat /\ Register(m, 84) < 256 /\ Register(m, 84) % 16 = 0
FieldsOK(m) ==
  /\ MemFields \subseteq DOMAIN m
  /\ m.color \in BOOLEAN
  /\ BanksOK(m)
  /\ PalettesOK(m)
  /\ m.joyp \in {0, 16, 32, 48}
MemOK(m) == FieldsOK(m) /\ HdmaOK(m) /\ PortsOK(m)

LEMMA SamePorts ==
  ASSUME NEW m, NEW n, PortsOK(m), \A r \in {81, 82, 83, 84} : Register(n, r) = Register(m, r)
  PROVE  PortsOK(n)
BY DEF PortsOK

LEMMA FieldsKept ==
  ASSUME NEW m, NEW n, FieldsOK(m), SameRegisters(m, n)
  PROVE  FieldsOK(n) /\ (HdmaOK(m) => HdmaOK(n))
<1>1. /\ DOMAIN n = DOMAIN m /\ n.color = m.color /\ n.vbk = m.vbk /\ n.svbk = m.svbk /\ n.joyp = m.joyp
      /\ n.palette = m.palette /\ n.hdma = m.hdma
  BY DEF SameRegisters
<1>2. FieldsOK(n)
  BY <1>1 DEF FieldsOK, BanksOK, PalettesOK
<1>3. HdmaOK(m) => HdmaOK(n)
  BY <1>1 DEF HdmaOK
<1> QED  BY <1>2, <1>3

(* A store to any register but the four of the HDMA's addresses.            *)
LEMMA PutOK ==
  ASSUME NEW m, MemOK(m), NEW p, \A r \in {81, 82, 83, 84} : p # <<"io", r>>, NEW x
  PROVE  MemOK(Put(m, p, x))
<1> DEFINE n == Put(m, p, x)
<1>1. SameRegisters(m, n) /\ \A q : Cell(n, q) = IF q = p THEN x ELSE Cell(m, q)
  BY PutKeeps DEF MemOK, FieldsOK
<1> HIDE DEF n
<1>2. \A r \in {81, 82, 83, 84} : Register(n, r) = Register(m, r)
  BY <1>1 DEF Register
<1> QED  BY <1>1, <1>2, SamePorts, FieldsKept DEF MemOK, n

PortFits(r, x) ==
  x \in Nat /\ x < 256 /\ (r \in {82, 84} => x % 16 = 0) /\ (r = 83 => x < 32)
LEMMA PortOK ==
  ASSUME NEW m, MemOK(m), NEW r \in {81, 82, 83, 84}, NEW x, PortFits(r, x)
  PROVE  MemOK(Put(m, <<"io", r>>, x))
<1> DEFINE n == Put(m, <<"io", r>>, x)
<1>1. SameRegisters(m, n) /\ \A q : Cell(n, q) = IF q = <<"io", r>> THEN x ELSE Cell(m, q)
  BY PutKeeps DEF MemOK, FieldsOK
<1> HIDE DEF n
<1>2. ASSUME NEW i \in {81, 82, 83, 84}
      PROVE  Register(n, i) = IF i = r THEN x ELSE Register(m, i)
  <2> DEFINE q == <<"io", i>>
             p == <<"io", r>>
  <2>1. q = p <=> i = r
    <3>1. q[2] = i /\ p[2] = r
      OBVIOUS
    <3> QED  BY <3>1
  <2>2. Cell(n, q) = IF q = p THEN x ELSE Cell(m, q)
    BY <1>1
  <2> HIDE DEF q, p
  <2>3. Cell(n, q) = IF i = r THEN x ELSE Cell(m, q)
    BY <2>1, <2>2
  <2> QED  BY <2>3 DEF Register, q
<1>3. /\ Register(n, 81) = IF 81 = r THEN x ELSE Register(m, 81)
      /\ Register(n, 82) = IF 82 = r THEN x ELSE Register(m, 82)
      /\ Register(n, 83) = IF 83 = r THEN x ELSE Register(m, 83)
      /\ Register(n, 84) = IF 84 = r THEN x ELSE Register(m, 84)
  BY <1>2
<1>4. PortsOK(n)
  BY <1>3 DEF PortsOK, MemOK, PortFits
<1> QED  BY <1>1, <1>4, FieldsKept DEF MemOK, n

LEMMA BlockKeeps ==
  ASSUME NEW m, MemOK(m), m.hdma.length # 0
  PROVE  LET n == HdmaBlock(m)
         IN  /\ MemOK(n) /\ n.hdma.length = m.hdma.length - 1
             /\ n.hdma.active <=> m.hdma.active /\ m.hdma.length > 1
             /\ BlockOK(m)
             /\ \A a : Locate(n, a) = Locate(m, a) /\ (BootMaps(n, a) <=> BootMaps(m, a))
             /\ \A j \in Nat : j < 16 => Cell(n, Into(m, j)) = Read(m, HdmaFrom(m) + j)
<1> DEFINE n == HdmaBlock(m)
           h == [source |-> (m.hdma.source + 16) % Space, dest |-> (m.hdma.dest + 16) % Space,
                 length |-> m.hdma.length - 1, active |-> m.hdma.active /\ m.hdma.length - 1 > 0]
<1>1. PICK run : BlockCopies(run, m) /\ n = [run[16] EXCEPT !.hdma = h]
  BY BlockRule
<1> DEFINE s == run[16]
<1>2. /\ m.hdma.source \in Nat /\ m.hdma.source < 65536 /\ m.hdma.source % 16 = 0
      /\ m.hdma.dest \in Nat /\ m.hdma.length \in Nat /\ m.hdma.length >= 1
      /\ m.hdma.active \in BOOLEAN
      /\ 32768 =< m.hdma.dest /\ m.hdma.dest % 16 = 0 /\ m.hdma.dest + 16 * m.hdma.length =< 43008
  BY DEF MemOK, HdmaOK, Space
<1>3. BlockOK(m)
  BY <1>2 DEF BlockOK, HdmaFrom, HdmaTo, Space
<1>4. Copied(s, m, 16)
  BY <1>1, <1>3, BlockCopied DEF MemOK, FieldsOK
<1>5. SameRegisters(m, s) /\ MemFields \subseteq DOMAIN s
  BY <1>4 DEF Copied, SameRegisters
<1>6. /\ h.source = (m.hdma.source + 16) % 65536 /\ h.dest = (m.hdma.dest + 16) % 65536
      /\ h.length = m.hdma.length - 1 /\ (h.active <=> m.hdma.active /\ m.hdma.length - 1 > 0)
      /\ h.active \in BOOLEAN
      /\ h = [source |-> h.source, dest |-> h.dest, length |-> h.length, active |-> h.active]
  <2> DEFINE going == m.hdma.active /\ m.hdma.length - 1 > 0
  <2>1. going \in BOOLEAN
    OBVIOUS
  <2>2. h = [source |-> (m.hdma.source + 16) % 65536, dest |-> (m.hdma.dest + 16) % 65536,
             length |-> m.hdma.length - 1, active |-> going]
    BY DEF Space
  <2> HIDE DEF h
  <2>3. /\ h.source = (m.hdma.source + 16) % 65536 /\ h.dest = (m.hdma.dest + 16) % 65536
        /\ h.length = m.hdma.length - 1 /\ h.active = going
    <3> HIDE DEF going
    <3> QED  BY <2>2
  <2>4. h = [source |-> h.source, dest |-> h.dest, length |-> h.length, active |-> h.active]
    <3> HIDE DEF going
    <3> QED  BY <2>2, <2>3
  <2>5. h.active = going
    BY <2>3
  <2>6. h.active \in BOOLEAN /\ (h.active <=> m.hdma.active /\ m.hdma.length - 1 > 0)
    BY <2>1, <2>5, Zenon
  <2> QED  BY <2>3, <2>4, <2>6
<1> HIDE DEF h, n, s
<1>7. n = [s EXCEPT !.hdma = h]
  BY <1>1 DEF s
<1>8. /\ DOMAIN n = DOMAIN s /\ n.hdma = h
      /\ n.color = s.color /\ n.vbk = s.vbk /\ n.svbk = s.svbk /\ n.joyp = s.joyp /\ n.palette = s.palette
  BY <1>5, <1>7, HdmaOnly
<1>9. \A q : Cell(n, q) = Cell(s, q)
  BY <1>5, <1>7, HdmaOnly
<1>10. \A a : Locate(n, a) = Locate(s, a) /\ (BootMaps(n, a) <=> BootMaps(s, a))
  BY <1>5, <1>7, HdmaOnly
<1>11. HdmaOK(n)
  <2>1. (m.hdma.source + 16) % 65536 \in Nat /\ (m.hdma.source + 16) % 65536 < 65536
        /\ ((m.hdma.source + 16) % 65536) % 16 = 0
    BY <1>2
  <2>2. (m.hdma.dest + 16) % 65536 = m.hdma.dest + 16 /\ (m.hdma.dest + 16) % 16 = 0
    BY <1>2
  <2>3. m.hdma.length - 1 \in Nat /\ m.hdma.dest + 16 + 16 * (m.hdma.length - 1) =< 43008
    BY <1>2
  <2>4. h \in [source : Nat, dest : Nat, length : Nat, active : BOOLEAN]
    BY <1>2, <1>6, <2>1, <2>2, <2>3
  <2> QED  BY <1>2, <1>6, <1>8, <2>1, <2>2, <2>3, <2>4 DEF HdmaOK, Space
<1>12. PortsOK(n)
  <2>1. ASSUME NEW r \in {81, 82, 83, 84} PROVE Register(n, r) = Register(m, r)
    <3> DEFINE q == <<"io", r>>
    <3>1. \A j \in Nat : j < 16 => q # Into(m, j)
      <4>1. q[1] = "io"
        OBVIOUS
      <4> HIDE DEF q
      <4> QED  BY <1>3, <4>1, IntoIs DEF MemOK, FieldsOK
    <3> HIDE DEF q
    <3>2. Cell(s, q) = Cell(m, q)
      BY <1>4, <3>1 DEF Copied
    <3> QED  BY <1>9, <3>2 DEF Register, q
  <2> QED  BY <2>1, SamePorts DEF MemOK
<1>13. FieldsOK(n)
  <2>1. FieldsOK(s)
    BY <1>5, FieldsKept DEF MemOK
  <2> QED  BY <1>8, <2>1 DEF FieldsOK, BanksOK, PalettesOK
<1>14. \A a : Locate(n, a) = Locate(m, a) /\ (BootMaps(n, a) <=> BootMaps(m, a))
  BY <1>5, <1>10, SameMap
<1>15. \A j \in Nat : j < 16 => Cell(n, Into(m, j)) = Read(m, HdmaFrom(m) + j)
  BY <1>4, <1>9 DEF Copied
<1>16. n.hdma.length = m.hdma.length - 1 /\ (n.hdma.active <=> m.hdma.active /\ m.hdma.length > 1)
  BY <1>2, <1>6, <1>8
<1> QED  BY <1>3, <1>11, <1>12, <1>13, <1>14, <1>15, <1>16 DEF MemOK, n

(* A block leaves at its destination what the CPU would have read at its    *)
(* source.                                                                 *)
LEMMA BlockShows ==
  ASSUME NEW m, MemOK(m), m.hdma.length # 0, NEW i \in Nat, i < 16, m.hdma.dest + i < 40960
  PROVE  Read(HdmaBlock(m), m.hdma.dest + i) = Read(m, m.hdma.source + i)
<1> DEFINE n == HdmaBlock(m)
           b == m.hdma.dest + i
<1>1. /\ BlockOK(m)
      /\ Locate(n, b) = Locate(m, b) /\ (BootMaps(n, b) <=> BootMaps(m, b))
      /\ Cell(n, Into(m, i)) = Read(m, HdmaFrom(m) + i)
  BY BlockKeeps
<1>2. b \in Nat /\ b < 65536 /\ b >= 32768 /\ b = HdmaTo(m) + i
  BY <1>1 DEF BlockOK, HdmaTo
<1> HIDE DEF n, b
<1>3. AtVram(b)
  BY <1>2 DEF AtVram, b
<1>4. Locate(m, b)[1] = "vram" /\ Into(m, i) = Locate(m, b)
  BY <1>2, <1>3, KindIs DEF MemOK, FieldsOK, Space, Into
<1>5. ~BootMaps(m, b)
  BY <1>2 DEF BootMaps
<1>6. Read(n, b) = Cell(n, Locate(n, b))
  BY <1>1, <1>2, <1>4, <1>5, ReadIs
<1> QED  BY <1>1, <1>4, <1>6 DEF n, b, HdmaFrom

(* A transfer started at once moves its blocks in order.                   *)
Asked(m, x) ==
  [m EXCEPT !.hdma = [source |-> 256 * Register(m, 81) + Register(m, 82),
                      dest |-> 32768 + 256 * Register(m, 83) + Register(m, 84),
                      length |-> (x % 128) + 1, active |-> x >= 128]]
Moves(run, set, total) ==
  \A n \in 0..total : run[n] = IF n = 0 THEN set ELSE HdmaBlock(run[n - 1])

LEMMA MovesRule ==
  ASSUME NEW m, NEW x \in Nat, ~(x >= 128)
  PROVE  \E run : Moves(run, Asked(m, x), (x % 128) + 1) /\ HdmaStart(m, x) = run[(x % 128) + 1]
<1> DEFINE set == Asked(m, x)
           total == (x % 128) + 1
           Rec(g) == g = [n \in 0..total |-> IF n = 0 THEN set ELSE HdmaBlock(g[n - 1])]
           Is(g, j) == g = [n \in 0..j |-> IF n = 0 THEN set ELSE HdmaBlock(g[n - 1])]
           S == {j \in Nat : j =< total => \E g : Is(g, j)}
<1>1. HdmaStart(m, x) = (CHOOSE g : Rec(g))[total]
  BY DEF HdmaStart, Asked, Register
<1>t. total \in Nat
  OBVIOUS
<1> HIDE DEF set, total
<1>2. 0 \in S
  <2>1. Is([n \in 0..0 |-> set], 0)
    OBVIOUS
  <2> QED  BY <2>1
<1>3. ASSUME NEW j \in Nat, j \in S PROVE j + 1 \in S
  <2>1. SUFFICES ASSUME j + 1 =< total PROVE \E g : Is(g, j + 1)
    OBVIOUS
  <2>2. PICK h : Is(h, j)
    BY <1>t, <1>3, <2>1
  <2> DEFINE g == [n \in 0..(j + 1) |-> IF n =< j THEN h[n] ELSE HdmaBlock(h[j])]
  <2>3. /\ \A n \in 0..j : g[n] = h[n]
        /\ g[j + 1] = HdmaBlock(h[j])
        /\ g = [n \in 0..(j + 1) |-> g[n]]
    OBVIOUS
  <2> HIDE DEF g
  <2>4. ASSUME NEW n \in 0..(j + 1)
        PROVE  g[n] = IF n = 0 THEN set ELSE HdmaBlock(g[n - 1])
    <3>1. CASE n = 0
      <4>1. 0 \in 0..j
        OBVIOUS
      <4>2. h[0] = set
        BY <2>2, <4>1
      <4>3. g[0] = h[0]
        BY <2>3, <4>1
      <4> QED  BY <3>1, <4>2, <4>3
    <3>2. CASE n \in 1..j
      <4>1. n \in 0..j /\ n - 1 \in 0..j /\ n # 0
        BY <3>2
      <4>2. g[n] = h[n] /\ g[n - 1] = h[n - 1] /\ h[n] = HdmaBlock(h[n - 1])
        BY <2>2, <2>3, <4>1
      <4> QED  BY <4>1, <4>2
    <3>3. CASE n = j + 1
      <4>1. n # 0 /\ n - 1 = j /\ j \in 0..j
        BY <3>3
      <4>2. g[j] = h[j]
        BY <2>3, <4>1
      <4> QED  BY <2>3, <3>3, <4>1, <4>2
    <3> QED  BY <3>1, <3>2, <3>3
  <2>5. Is(g, j + 1)
    BY <2>3, <2>4
  <2> QED  BY <2>5
<1>4. total \in S
  <2> HIDE DEF S
  <2>1. Nat \subseteq S
    BY <1>2, <1>3, SetInduction
  <2> QED  BY <1>t, <2>1
<1>5. PICK run : Rec(run)
  BY <1>t, <1>4
<1> DEFINE chosen == CHOOSE g : Rec(g)
<1>6. Rec(chosen)
  BY <1>5
<1>7. Moves(chosen, set, total)
  BY <1>6 DEF Moves
<1> QED  BY <1>1, <1>7 DEF set, total

LEMMA AskedOK ==
  ASSUME NEW m, MemOK(m), NEW x \in Nat, x < 256
  PROVE  MemOK(Asked(m, x)) /\ Asked(m, x).hdma.length = (x % 128) + 1
<1> DEFINE h == [source |-> 256 * Register(m, 81) + Register(m, 82),
                 dest |-> 32768 + 256 * Register(m, 83) + Register(m, 84),
                 length |-> (x % 128) + 1, active |-> x >= 128]
           n == Asked(m, x)
<1>1. n = [m EXCEPT !.hdma = h]
  BY DEF Asked
<1>2. /\ 256 * Register(m, 81) + Register(m, 82) \in Nat
      /\ 256 * Register(m, 81) + Register(m, 82) < 65536
      /\ (256 * Register(m, 81) + Register(m, 82)) % 16 = 0
  BY DEF MemOK, PortsOK
<1>3. /\ 32768 + 256 * Register(m, 83) + Register(m, 84) \in Nat
      /\ 32768 =< 32768 + 256 * Register(m, 83) + Register(m, 84)
      /\ (32768 + 256 * Register(m, 83) + Register(m, 84)) % 16 = 0
  BY DEF MemOK, PortsOK
<1>4. 32768 + 256 * Register(m, 83) + Register(m, 84) =< 40944
  <2> DEFINE low == Register(m, 84)
             high == Register(m, 83)
  <2>1. low \in Nat /\ low < 256 /\ low % 16 = 0 /\ high \in Nat /\ high =< 31
    BY DEF MemOK, PortsOK
  <2> HIDE DEF low, high
  <2>2. low =< 240
    BY <2>1
  <2>3. 32768 + 256 * high + low =< 40944
    BY <2>1, <2>2
  <2> QED  BY <2>3 DEF low, high
<1>5. (x % 128) + 1 \in Nat /\ (x % 128) + 1 =< 128
  OBVIOUS
<1>7. /\ h.source = 256 * Register(m, 81) + Register(m, 82)
      /\ h.dest = 32768 + 256 * Register(m, 83) + Register(m, 84)
      /\ h.length = (x % 128) + 1
  OBVIOUS
<1>8. h \in [source : Nat, dest : Nat, length : Nat, active : BOOLEAN]
  BY <1>2, <1>3, <1>5
<1> HIDE DEF h, n
<1>9. /\ n.hdma = h /\ DOMAIN n = DOMAIN m
      /\ n.color = m.color /\ n.vbk = m.vbk /\ n.svbk = m.svbk /\ n.joyp = m.joyp /\ n.palette = m.palette
  BY <1>1, HdmaOnly DEF MemOK, FieldsOK
<1>10. \A q : Cell(n, q) = Cell(m, q)
  BY <1>1, HdmaOnly DEF MemOK, FieldsOK
<1>11. HdmaOK(n)
  <2>1. h.source < 65536 /\ h.source % 16 = 0
    BY <1>2, <1>7
  <2>2. 32768 =< h.dest /\ h.dest % 16 = 0 /\ h.dest + 16 * h.length =< 43008
    BY <1>3, <1>4, <1>5, <1>7
  <2> QED  BY <1>8, <1>9, <2>1, <2>2 DEF HdmaOK, Space
<1>12. FieldsOK(n)
  BY <1>9 DEF MemOK, FieldsOK, BanksOK, PalettesOK
<1>13. PortsOK(n)
  BY <1>10, SamePorts DEF MemOK, Register
<1> QED  BY <1>7, <1>9, <1>11, <1>12, <1>13 DEF MemOK, n

LEMMA StartOK ==
  ASSUME NEW m, MemOK(m), NEW x \in Nat, x < 256
  PROVE  MemOK(HdmaStart(m, x))
<1>1. CASE x >= 128
  <2>1. HdmaStart(m, x) = Asked(m, x)
    BY <1>1 DEF HdmaStart, Asked, Register
  <2> QED  BY <2>1, AskedOK
<1>2. CASE ~(x >= 128)
  <2> DEFINE total == (x % 128) + 1
  <2>1. PICK run : Moves(run, Asked(m, x), total) /\ HdmaStart(m, x) = run[total]
    BY <1>2, MovesRule
  <2>2. total \in Nat /\ MemOK(Asked(m, x)) /\ Asked(m, x).hdma.length = total
    BY AskedOK
  <2> HIDE DEF total
  <2> DEFINE S == {j \in Nat : j =< total => MemOK(run[j]) /\ run[j].hdma.length = total - j}
  <2>3. 0 \in S
    <3>1. run[0] = Asked(m, x)
      BY <2>1, <2>2 DEF Moves
    <3> QED  BY <2>2, <3>1
  <2>4. ASSUME NEW j \in Nat, j \in S PROVE j + 1 \in S
    <3>1. SUFFICES ASSUME j + 1 =< total
                   PROVE  MemOK(run[j + 1]) /\ run[j + 1].hdma.length = total - (j + 1)
      OBVIOUS
    <3>2. MemOK(run[j]) /\ run[j].hdma.length = total - j /\ total - j # 0
      BY <2>2, <2>4, <3>1
    <3>3. j + 1 \in 0..total /\ j + 1 # 0 /\ (j + 1) - 1 = j
      BY <2>2, <3>1
    <3>4. run[j + 1] = HdmaBlock(run[j])
      BY <2>1, <3>3 DEF Moves
    <3>5. MemOK(HdmaBlock(run[j])) /\ HdmaBlock(run[j]).hdma.length = run[j].hdma.length - 1
      BY <3>2, BlockKeeps
    <3> QED  BY <2>2, <3>2, <3>4, <3>5
  <2>5. total \in S
    <3> HIDE DEF S
    <3>1. Nat \subseteq S
      BY <2>3, <2>4, SetInduction
    <3> QED  BY <2>2, <3>1
  <2> QED  BY <2>1, <2>2, <2>5
<1> QED  BY <1>1, <1>2

(***************************************************************************)
(* Stores to registers keep the invariant.                                 *)
(***************************************************************************)
SameCells(m, n) == n.cell = m.cell /\ n.hdma = m.hdma
LEMMA CellsOK ==
  ASSUME NEW m, NEW n, MemOK(m), SameCells(m, n), FieldsOK(n)
  PROVE  MemOK(n)
<1>1. \A q : Cell(n, q) = Cell(m, q)
  BY DEF SameCells, Cell
<1>2. PortsOK(n)
  BY <1>1, SamePorts DEF MemOK, Register
<1>3. HdmaOK(n)
  BY DEF MemOK, HdmaOK, SameCells
<1> QED  BY <1>2, <1>3 DEF MemOK

LEMMA SetOK ==
  ASSUME NEW m, MemOK(m), NEW f \in {"vbk", "svbk", "boot", "joyp", "ifs", "key1", "pad", "serial", "palette"}, NEW v,
         f \in {"vbk", "svbk"} => v \in Nat,
         f = "joyp" => v \in {0, 16, 32, 48},
         f = "palette" => v \in [{104, 106} -> [index : Nat, inc : BOOLEAN]]
  PROVE  MemOK([m EXCEPT ![f] = v])
<1> DEFINE n == [m EXCEPT ![f] = v]
<1>1. DOMAIN n = DOMAIN m /\ MemFields \subseteq DOMAIN m
  BY DEF MemOK, FieldsOK
<1>2. \A g \in MemFields : n[g] = IF g = f THEN v ELSE m[g]
  BY <1>1
<1> HIDE DEF n
<1>3. /\ n.cell = m.cell /\ n.hdma = m.hdma /\ n.color = m.color
      /\ n.vbk = IF f = "vbk" THEN v ELSE m.vbk
      /\ n.svbk = IF f = "svbk" THEN v ELSE m.svbk
      /\ n.joyp = IF f = "joyp" THEN v ELSE m.joyp
      /\ n.palette = IF f = "palette" THEN v ELSE m.palette
  BY <1>2 DEF MemFields
<1>4. FieldsOK(n)
  <2>1. m.color \in BOOLEAN /\ m.vbk \in Nat /\ m.svbk \in Nat /\ m.joyp \in {0, 16, 32, 48}
        /\ m.palette \in [{104, 106} -> [index : Nat, inc : BOOLEAN]]
    BY DEF MemOK, FieldsOK, BanksOK, PalettesOK
  <2>2. n.vbk \in Nat
    BY <1>3, <2>1
  <2>3. n.svbk \in Nat
    BY <1>3, <2>1
  <2>4. n.joyp \in {0, 16, 32, 48}
    BY <1>3, <2>1
  <2>5. PalettesOK(n)
    BY <1>3, <2>1 DEF PalettesOK
  <2> QED  BY <1>1, <1>3, <2>1, <2>2, <2>3, <2>4, <2>5 DEF FieldsOK, BanksOK
<1>5. SameCells(m, n)
  BY <1>3 DEF SameCells
<1> QED  BY <1>4, <1>5, CellsOK DEF n

LEMMA IndexOK ==
  ASSUME NEW m, MemOK(m), NEW i \in {104, 106}, NEW v \in [index : Nat, inc : BOOLEAN]
  PROVE  MemOK([m EXCEPT !.palette[i] = v])
<1> DEFINE palettes == [m.palette EXCEPT ![i] = v]
<1>1. [m EXCEPT !.palette[i] = v] = [m EXCEPT !["palette"] = palettes]
  OBVIOUS
<1>2. palettes \in [{104, 106} -> [index : Nat, inc : BOOLEAN]]
  BY DEF MemOK, FieldsOK, PalettesOK
<1> HIDE DEF palettes
<1>3. MemOK([m EXCEPT !["palette"] = palettes])
  BY <1>2, SetOK
<1> QED  BY <1>1, <1>3

LEMMA OamDmaOK ==
  ASSUME NEW m, MemOK(m), NEW page
  PROVE  MemOK(OamDma(m, page))
<1> DEFINE n == OamDma(m, page)
<1>1. /\ SameRegisters(m, n)
      /\ \A q : q \notin OamCells => Cell(n, q) = IF q = DmaPage THEN page ELSE Cell(m, q)
  BY OamDmaIs DEF MemOK, FieldsOK
<1> HIDE DEF n
<1>2. ASSUME NEW r \in {81, 82, 83, 84} PROVE Register(n, r) = Register(m, r)
  <2> DEFINE q == <<"io", r>>
  <2>1. q[1] = "io" /\ q[2] = r
    OBVIOUS
  <2> HIDE DEF q
  <2>2. q \notin OamCells
    BY <2>1 DEF OamCells
  <2>3. q # DmaPage
    BY <2>1 DEF DmaPage
  <2> QED  BY <1>1, <2>2, <2>3 DEF Register, q
<1> QED  BY <1>1, <1>2, SamePorts, FieldsKept DEF MemOK, n

LEMMA PalettePortOK ==
  ASSUME NEW m, MemOK(m), NEW port \in {105, 107}, NEW x
  PROVE  MemOK([Put(m, PaletteCell(m, port), x) EXCEPT
                  !.palette[port - 1].index = IF m.palette[port - 1].inc THEN (@ + 1) % 64 ELSE @])
<1> DEFINE p == PaletteCell(m, port)
           s == Put(m, p, x)
           i == port - 1
           old == s.palette[i]
           v == [old EXCEPT !.index = IF m.palette[i].inc THEN (@ + 1) % 64 ELSE @]
<1>1. PalettesOK(m)
  BY DEF MemOK, FieldsOK
<1>2. i \in {104, 106}
  OBVIOUS
<1>3. \A r \in {81, 82, 83, 84} : p # <<"io", r>>
  <2> SUFFICES ASSUME NEW r \in {81, 82, 83, 84}, p = <<"io", r>> PROVE FALSE
    OBVIOUS
  <2>1. p[2] = 64 * port + m.palette[i].index /\ m.palette[i].index \in Nat
    BY <1>1, PaletteIs
  <2>2. p[2] = r
    OBVIOUS
  <2> HIDE DEF p, i
  <2> QED  BY <2>1, <2>2
<1>4. MemOK(s)
  BY <1>3, PutOK
<1> HIDE DEF s, p
<1>5. old \in [index : Nat, inc : BOOLEAN]
  <2>1. s.palette \in [{104, 106} -> [index : Nat, inc : BOOLEAN]]
    BY <1>4 DEF MemOK, FieldsOK, PalettesOK
  <2> QED  BY <1>2, <2>1
<1>6. v \in [index : Nat, inc : BOOLEAN]
  <2> DEFINE inc == m.palette[i].inc
  <2> HIDE DEF old, inc
  <2>1. (old.index + 1) % 64 \in Nat /\ old.index \in Nat
    BY <1>5
  <2>2. v = [old EXCEPT !.index = IF inc THEN (old.index + 1) % 64 ELSE old.index]
    BY DEF inc
  <2> HIDE DEF v
  <2> QED  BY <1>5, <2>1, <2>2
<1>7. [s EXCEPT !.palette[port - 1].index = IF m.palette[port - 1].inc THEN (@ + 1) % 64 ELSE @]
        = [s EXCEPT !.palette[i] = v]
  OBVIOUS
<1> HIDE DEF v, i
<1>8. MemOK([s EXCEPT !.palette[i] = v])
  BY <1>2, <1>4, <1>6, IndexOK
<1> QED  BY <1>7, <1>8 DEF s, p

LEMMA WriteIoOK ==
  ASSUME NEW m, MemOK(m), NEW port \in Nat, port < 128, NEW x \in Nat, x < 256
  PROVE  MemOK(WriteIo(m, port, x))
<1>1. m.color \in BOOLEAN
  BY DEF MemOK, FieldsOK
<1>2. CASE port = 0
  <2>1. 16 * ((x \div 16) % 4) \in {0, 16, 32, 48}
    <3> DEFINE two == (x \div 16) % 4
    <3>1. two \in 0..3
      OBVIOUS
    <3> HIDE DEF two
    <3>2. 16 * two \in {0, 16, 32, 48}
      BY <3>1
    <3> QED  BY <3>2 DEF two
  <2> DEFINE v == 16 * ((x \div 16) % 4)
  <2>2. WriteIo(m, port, x) = [m EXCEPT !["joyp"] = v]
    BY <1>2 DEF WriteIo
  <2> HIDE DEF v
  <2>3. MemOK([m EXCEPT !["joyp"] = v])
    BY <2>1, SetOK DEF v
  <2> QED  BY <2>2, <2>3
<1>3. CASE port = 2
  <2> DEFINE p == <<"io", 2>>
             s == Put(m, p, x - 128)
             q == Put(m, p, x)
             sent == Append(s.serial, Cell(m, <<"io", 1>>))
             flags == 16 * (s.ifs \div 16) + 8 + (s.ifs % 8)
  <2>1. WriteIo(m, port, x) = IF x >= 128 /\ x % 2 = 1
                             THEN [[s EXCEPT !["serial"] = sent] EXCEPT !["ifs"] = flags]
                             ELSE q
    <3> HIDE DEF s, q
    <3>1. WriteIo(m, port, x) = IF x >= 128 /\ x % 2 = 1
                               THEN [s EXCEPT !.serial = Append(@, Cell(m, <<"io", 1>>)),
                                              !.ifs = 16 * (@ \div 16) + 8 + (@ % 8)]
                               ELSE q
      BY <1>3 DEF WriteIo, s, q
    <3>2. [s EXCEPT !["serial"] = sent].ifs = s.ifs
      OBVIOUS
    <3> QED  BY <3>1, <3>2
  <2>2. \A r \in {81, 82, 83, 84} : p # <<"io", r>>
    <3>1. \A r \in {81, 82, 83, 84} : <<"io", r>>[2] # p[2]
      OBVIOUS
    <3> QED  BY <3>1
  <2> HIDE DEF p
  <2>3. MemOK(s) /\ MemOK(q)
    BY <2>2, PutOK
  <2> HIDE DEF s, q, sent, flags
  <2>4. MemOK([s EXCEPT !["serial"] = sent])
    BY <2>3, SetOK
  <2> DEFINE t == [s EXCEPT !["serial"] = sent]
  <2> HIDE DEF t
  <2>5. MemOK([t EXCEPT !["ifs"] = flags])
    BY <2>4, SetOK DEF t
  <2> HIDE DEF t
  <2>6. CASE x >= 128 /\ x % 2 = 1
    <3>1. WriteIo(m, port, x) = [t EXCEPT !["ifs"] = flags]
      BY <2>1, <2>6 DEF t
    <3> QED  BY <2>5, <3>1
  <2>7. CASE ~(x >= 128 /\ x % 2 = 1)
    <3>1. WriteIo(m, port, x) = q
      BY <2>1, <2>7
    <3> QED  BY <2>3, <3>1
  <2> QED  BY <2>6, <2>7
<1>4. CASE port = 15
  <2> DEFINE v == x % 32
  <2>1. WriteIo(m, port, x) = [m EXCEPT !["ifs"] = v]
    BY <1>4 DEF WriteIo
  <2> HIDE DEF v
  <2>2. MemOK([m EXCEPT !["ifs"] = v])
    BY SetOK
  <2> QED  BY <2>1, <2>2
<1>5. CASE port = 70
  <2>1. WriteIo(m, port, x) = OamDma(m, x)
    BY <1>5 DEF WriteIo
  <2> QED  BY <2>1, OamDmaOK
<1>6. CASE port \in {81, 82, 83, 84, 85} /\ ~m.color
  <2>1. WriteIo(m, port, x) = m
    BY <1>1, <1>6 DEF WriteIo
  <2> QED  BY <2>1
<1>7. CASE port = 81 /\ m.color
  <2>1. WriteIo(m, port, x) = Put(m, <<"io", 81>>, x)
    BY <1>1, <1>7 DEF WriteIo
  <2>2. PortFits(81, x)
    BY DEF PortFits
  <2> QED  BY <2>1, <2>2, PortOK
<1>8. CASE port \in {82, 84} /\ m.color
  <2>1. WriteIo(m, port, x) = Put(m, <<"io", port>>, x - (x % 16))
    BY <1>1, <1>8 DEF WriteIo
  <2> DEFINE v == x - (x % 16)
  <2>2. v \in Nat /\ v < 256 /\ v % 16 = 0
    OBVIOUS
  <2> HIDE DEF v
  <2>3. port \in {81, 82, 83, 84} /\ port # 83
    BY <1>8
  <2>4. PortFits(port, v)
    BY <2>2, <2>3 DEF PortFits
  <2>5. MemOK(Put(m, <<"io", port>>, v))
    BY <2>3, <2>4, PortOK
  <2> QED  BY <2>1, <2>5 DEF v
<1>9. CASE port = 83 /\ m.color
  <2>1. WriteIo(m, port, x) = Put(m, <<"io", 83>>, x % 32)
    BY <1>1, <1>9 DEF WriteIo
  <2>2. PortFits(83, x % 32)
    BY DEF PortFits
  <2> QED  BY <2>1, <2>2, PortOK
<1>10. CASE port = 85 /\ m.color /\ m.hdma.active /\ x < 128
  <2> DEFINE off == FALSE
             halted == [m.hdma EXCEPT !.active = off]
             between == [m EXCEPT !.hdma = halted]
             h == [source |-> m.hdma.source, dest |-> m.hdma.dest, length |-> 0, active |-> off]
             n == [m EXCEPT !.hdma = h]
  <2>2. HdmaOK(m) /\ m.hdma \in [source : Nat, dest : Nat, length : Nat, active : BOOLEAN]
        /\ "hdma" \in DOMAIN m /\ off \in BOOLEAN
    BY DEF MemOK, HdmaOK, FieldsOK, MemFields
  <2>1. WriteIo(m, port, x) = n
    <3>1. WriteIo(m, port, x) = [m EXCEPT !.hdma.active = off, !.hdma.length = 0]
      BY <1>1, <1>10 DEF WriteIo
    <3> HIDE DEF off
    <3>2. h = [halted EXCEPT !.length = 0]
      <4>1. halted \in [source : Nat, dest : Nat, length : Nat, active : BOOLEAN]
        BY <2>2
      <4>2. halted.source = m.hdma.source /\ halted.dest = m.hdma.dest /\ halted.active = off
        BY <2>2
      <4> HIDE DEF halted
      <4> QED  BY <4>1, <4>2
    <3> HIDE DEF halted, h
    <3>3. between.hdma = halted
      BY <2>2
    <3>4. [m EXCEPT !.hdma.active = off, !.hdma.length = 0] = [between EXCEPT !.hdma = [halted EXCEPT !.length = 0]]
      BY <3>3 DEF halted
    <3>5. [between EXCEPT !.hdma = h] = n
      OBVIOUS
    <3> QED  BY <3>1, <3>2, <3>4, <3>5
  <2> HIDE DEF off
  <2>3. /\ h \in [source : Nat, dest : Nat, length : Nat, active : BOOLEAN]
        /\ h.source = m.hdma.source /\ h.length = 0
    BY <2>2
  <2> HIDE DEF h, n
  <2>4. /\ n.hdma = h /\ DOMAIN n = DOMAIN m
        /\ n.color = m.color /\ n.vbk = m.vbk /\ n.svbk = m.svbk /\ n.joyp = m.joyp /\ n.palette = m.palette
    BY HdmaOnly DEF MemOK, FieldsOK, n
  <2>5. \A q : Cell(n, q) = Cell(m, q)
    BY HdmaOnly DEF MemOK, FieldsOK, n
  <2>6. HdmaOK(n)
    BY <2>2, <2>3, <2>4 DEF HdmaOK
  <2>7. FieldsOK(n)
    BY <2>4 DEF MemOK, FieldsOK, BanksOK, PalettesOK
  <2>8. PortsOK(n)
    BY <2>5, SamePorts DEF MemOK, Register
  <2> QED  BY <2>1, <2>6, <2>7, <2>8 DEF MemOK
<1>11. CASE port = 85 /\ m.color /\ ~(m.hdma.active /\ x < 128)
  <2>1. WriteIo(m, port, x) = HdmaStart(m, x)
    BY <1>1, <1>11 DEF WriteIo
  <2> QED  BY <2>1, StartOK
<1>12. CASE port = 112
  <2>1. WriteIo(m, port, x) = IF m.color THEN [m EXCEPT !["svbk"] = IF x % 8 = 0 THEN 1 ELSE x % 8] ELSE m
    BY <1>12 DEF WriteIo
  <2>2. (IF x % 8 = 0 THEN 1 ELSE x % 8) \in Nat
    OBVIOUS
  <2> DEFINE v == IF x % 8 = 0 THEN 1 ELSE x % 8
  <2> HIDE DEF v
  <2>3. MemOK([m EXCEPT !["svbk"] = v])
    BY <2>2, SetOK DEF v
  <2> QED  BY <2>1, <2>3 DEF v
<1>13. CASE port = 77
  <2> DEFINE v == [m.key1 EXCEPT !.switch = x % 2]
  <2>1. WriteIo(m, port, x) = IF m.color THEN [m EXCEPT !["key1"] = v] ELSE m
    BY <1>13 DEF WriteIo
  <2> HIDE DEF v
  <2>2. MemOK([m EXCEPT !["key1"] = v])
    BY SetOK
  <2> QED  BY <2>1, <2>2
<1>14. CASE port = 79
  <2>1. WriteIo(m, port, x) = IF m.color THEN [m EXCEPT !["vbk"] = x % 2] ELSE m
    BY <1>14 DEF WriteIo
  <2>2. x % 2 \in Nat
    OBVIOUS
  <2> DEFINE v == x % 2
  <2> HIDE DEF v
  <2>3. MemOK([m EXCEPT !["vbk"] = v])
    BY <2>2, SetOK DEF v
  <2> QED  BY <2>1, <2>3 DEF v
<1>15. CASE port = 80
  <2> DEFINE p == <<"io", 80>>
             s == Put(m, p, x)
             off == FALSE
  <2>1. WriteIo(m, port, x) = IF x # 0 THEN [s EXCEPT !["boot"] = off] ELSE s
    <3>1. CASE x # 0
      <4>1. WriteIo(m, port, x) = [Put(m, <<"io", 80>>, x) EXCEPT !.boot = FALSE]
        BY <1>15, <3>1 DEF WriteIo
      <4>2. [s EXCEPT !["boot"] = off] = [Put(m, <<"io", 80>>, x) EXCEPT !.boot = FALSE]
        BY Zenon
      <4> QED  BY <3>1, <4>1, <4>2, Zenon
    <3>2. CASE x = 0
      BY <1>15, <3>2 DEF WriteIo
    <3> QED  BY <3>1, <3>2
  <2>2. \A r \in {81, 82, 83, 84} : p # <<"io", r>>
    <3>1. \A r \in {81, 82, 83, 84} : <<"io", r>>[2] # p[2]
      OBVIOUS
    <3> QED  BY <3>1
  <2> HIDE DEF p
  <2>3. MemOK(s)
    BY <2>2, PutOK
  <2> HIDE DEF s, off
  <2>4. MemOK([s EXCEPT !["boot"] = off])
    BY <2>3, SetOK
  <2> QED  BY <2>1, <2>3, <2>4
<1>16. CASE port \in {104, 106}
  <2> DEFINE v == [index |-> x % 64, inc |-> x >= 128]
  <2>1. WriteIo(m, port, x) = [m EXCEPT !.palette[port] = v]
    BY <1>16 DEF WriteIo
  <2>2. v \in [index : Nat, inc : BOOLEAN]
    OBVIOUS
  <2> HIDE DEF v
  <2>3. MemOK([m EXCEPT !.palette[port] = v])
    BY <1>16, <2>2, IndexOK
  <2> QED  BY <2>1, <2>3
<1>17. CASE port \in {105, 107}
  <2>1. WriteIo(m, port, x) = [Put(m, PaletteCell(m, port), x) EXCEPT
                                !.palette[port - 1].index = IF m.palette[port - 1].inc THEN (@ + 1) % 64 ELSE @]
    BY <1>17 DEF WriteIo
  <2> QED  BY <1>17, <2>1, PalettePortOK
<1>18. CASE port \notin {0, 2, 15, 70, 81, 82, 83, 84, 85, 112, 77, 79, 80, 104, 105, 106, 107}
  <2>1. WriteIo(m, port, x) = Put(m, <<"io", port>>, x)
    BY <1>18 DEF WriteIo
  <2> DEFINE p == <<"io", port>>
  <2>2. \A r \in {81, 82, 83, 84} : p # <<"io", r>>
    <3>1. \A r \in {81, 82, 83, 84} : <<"io", r>>[2] # p[2]
      BY <1>18
    <3> QED  BY <3>1
  <2> HIDE DEF p
  <2>3. MemOK(Put(m, p, x))
    BY <2>2, PutOK
  <2> QED  BY <2>1, <2>3 DEF p
<1> QED
  <2>1. CASE port \in {81, 82, 83, 84, 85}
    BY <1>1, <1>6, <1>7, <1>8, <1>9, <1>10, <1>11, <2>1
  <2> QED
    BY <1>2, <1>3, <1>4, <1>5, <1>12, <1>13, <1>14, <1>15, <1>16, <1>17, <1>18, <2>1

LEMMA PlainOK ==
  ASSUME NEW m, MemOK(m), NEW a \in Nat, a < Space, ~AtIo(a), NEW x
  PROVE  MemOK(Plain(m, a, x))
<1> DEFINE n == Plain(m, a, x)
<1>1. SameRegisters(m, n) /\ \A q : q # Locate(m, a) => Cell(n, q) = Cell(m, q)
  BY PlainKeeps DEF MemOK, FieldsOK
<1>2. Locate(m, a)[1] # "io"
  BY KindIs DEF MemOK, FieldsOK
<1> HIDE DEF n
<1>3. ASSUME NEW r \in {81, 82, 83, 84} PROVE Register(n, r) = Register(m, r)
  <2> DEFINE q == <<"io", r>>
  <2>1. q[1] = "io"
    OBVIOUS
  <2> HIDE DEF q
  <2>2. Cell(n, q) = Cell(m, q)
    BY <1>1, <1>2, <2>1
  <2> QED  BY <2>2 DEF Register, q
<1> QED  BY <1>1, <1>3, SamePorts, FieldsKept DEF MemOK, n

(***************************************************************************)
(* The initial memory, and the steps.                                      *)
(***************************************************************************)
MemInv == MemOK(mem)

LEMMA MemInitInv ==
  ASSUME MemInit
  PROVE  MemInv
<1>1. PICK color \in Colors, to \in Targets :
       mem = [color |-> color,
              cell |-> [p \in {<<"io", 81>>, <<"io", 82>>, <<"io", 83>>, <<"io", 84>>} |->
                          CASE p[2] = 81 -> 208 [] p[2] = 82 -> 0 [] p[2] = 83 -> to \div 256 [] p[2] = 84 -> to % 256],
              vbk |-> 0, svbk |-> 1, boot |-> TRUE, joyp |-> 0, pad |-> {},
              ifs |-> 1, key1 |-> [switch |-> 0, speed |-> 0], palette |-> [r \in {104, 106} |-> [index |-> 0, inc |-> FALSE]],
              hdma |-> [source |-> 0, dest |-> 0, length |-> 0, active |-> FALSE], serial |-> <<>>]
  BY DEF MemInit
<1>2. color \in BOOLEAN /\ to \in Nat /\ to < 8192 /\ to % 16 = 0
  BY GbMapAssumption
<1> DEFINE dom == {<<"io", 81>>, <<"io", 82>>, <<"io", 83>>, <<"io", 84>>}
           high == to \div 256
           low == to % 256
           cells == [p \in dom |->
                       CASE p[2] = 81 -> 208 [] p[2] = 82 -> 0 [] p[2] = 83 -> high [] p[2] = 84 -> low]
           palettes == [r \in {104, 106} |-> [index |-> 0, inc |-> FALSE]]
           h == [source |-> 0, dest |-> 0, length |-> 0, active |-> FALSE]
<1>3. high \in Nat /\ high < 32 /\ low \in Nat /\ low < 256 /\ low % 16 = 0
  BY <1>2
<1> HIDE DEF high, low
<1>4. /\ cells[<<"io", 81>>] = 208
      /\ cells[<<"io", 82>>] = 0
      /\ cells[<<"io", 83>>] = high
      /\ cells[<<"io", 84>>] = low
  <2>1. <<"io", 81>>[2] = 81 /\ <<"io", 82>>[2] = 82 /\ <<"io", 83>>[2] = 83 /\ <<"io", 84>>[2] = 84
    OBVIOUS
  <2>2. <<"io", 81>> \in dom /\ <<"io", 82>> \in dom /\ <<"io", 83>> \in dom /\ <<"io", 84>> \in dom
    OBVIOUS
  <2> HIDE DEF dom
  <2> QED  BY <2>1, <2>2
<1>5. palettes \in [{104, 106} -> [index : Nat, inc : BOOLEAN]]
  OBVIOUS
<1>6. h \in [source : Nat, dest : Nat, length : Nat, active : BOOLEAN] /\ h.source = 0 /\ h.length = 0
  OBVIOUS
<1>7. DOMAIN cells = dom
  OBVIOUS
<1> DEFINE off == TRUE
           key == [switch |-> 0, speed |-> 0]
<1>8. mem = [color |-> color, cell |-> cells, vbk |-> 0, svbk |-> 1, boot |-> off, joyp |-> 0, pad |-> {},
             ifs |-> 1, key1 |-> key, palette |-> palettes, hdma |-> h, serial |-> <<>>]
  BY <1>1 DEF high, low
<1> HIDE DEF cells, palettes, h, off, key
<1>9. /\ MemFields \subseteq DOMAIN mem /\ mem.color = color /\ mem.cell = cells /\ mem.vbk = 0 /\ mem.svbk = 1
      /\ mem.joyp = 0 /\ mem.palette = palettes /\ mem.hdma = h
  BY <1>8 DEF MemFields
<1>10. /\ Register(mem, 81) = 208 /\ Register(mem, 82) = 0
       /\ Register(mem, 83) = high /\ Register(mem, 84) = low
  BY <1>4, <1>7, <1>9 DEF Register, Cell
<1>11. PortsOK(mem)
  BY <1>3, <1>10 DEF PortsOK
<1>12. FieldsOK(mem)
  BY <1>2, <1>5, <1>9 DEF FieldsOK, BanksOK, PalettesOK
<1>13. HdmaOK(mem)
  BY <1>6, <1>9 DEF HdmaOK, Space
<1> QED  BY <1>11, <1>12, <1>13 DEF MemOK, MemInv

LEMMA MemNextInv ==
  ASSUME MemInv, [MemNext]_memVars
  PROVE  MemInv'
<1> USE DEF MemInv
<1>1. ASSUME NEW a \in Addresses, NEW x \in Stored, StoreByte(a, x) PROVE MemOK(mem')
  <2>1. a \in Nat /\ a < Space /\ ~AtIo(a)
    BY GbMapAssumption DEF AtIo
  <2> QED  BY <1>1, <2>1, PlainOK DEF StoreByte
<1>2. ASSUME NEW s \in IoStores, StoreIo(s[1], s[2]) PROVE MemOK(mem')
  <2>1. s[1] \in Nat /\ s[1] < 128 /\ s[2] \in Nat /\ s[2] < 256
    BY GbMapAssumption
  <2> QED  BY <1>2, <2>1, WriteIoOK DEF StoreIo
<1>3. ASSUME Hblank PROVE MemOK(mem')
  <2>1. mem.hdma.length # 0 /\ mem' = HdmaBlock(mem)
    BY <1>3 DEF Hblank
  <2> QED  BY <2>1, BlockKeeps
<1>4. ASSUME SwitchSpeed PROVE MemOK(mem')
  <2> DEFINE v == [switch |-> 0, speed |-> 1 - mem.key1.speed]
  <2>1. mem' = [mem EXCEPT !["key1"] = v]
    BY <1>4 DEF SwitchSpeed
  <2> HIDE DEF v
  <2>2. MemOK([mem EXCEPT !["key1"] = v])
    BY SetOK
  <2> QED  BY <2>1, <2>2
<1>5. ASSUME NEW pad \in {{0}, {5}}, SetPad(pad) PROVE MemOK(mem')
  <2>1. mem' = [mem EXCEPT !["pad"] = pad]
    BY <1>5 DEF SetPad
  <2>2. MemOK([mem EXCEPT !["pad"] = pad])
    BY SetOK
  <2> QED  BY <2>1, <2>2
<1>6. ASSUME UNCHANGED memVars PROVE MemOK(mem')
  BY <1>6 DEF memVars
<1> QED  BY <1>1, <1>2, <1>3, <1>4, <1>5, <1>6 DEF MemNext

(* A button that is held shows in a column the program has selected.        *)
LEMMA PadShows ==
  ASSUME NEW m, m.joyp \in {0, 16, 32, 48}, m.pad \in {{0}, {5}}, NEW b \in m.pad
  PROVE  \/ (Joypad(m) \div (2 ^ (b % 4))) % 2 = 0
         \/ (IF b < 4 THEN m.joyp \in {16, 48} ELSE m.joyp \in {32, 48})
<1> DEFINE dirs == m.joyp \notin {16, 48}
           keys == m.joyp \notin {32, 48}
           shown(bit) == (dirs /\ bit \in m.pad) \/ (keys /\ (bit + 4) \in m.pad)
           line(bit, weight) == IF shown(bit) THEN 0 ELSE weight
           l0 == line(0, 1)
           l1 == line(1, 2)
           l2 == line(2, 4)
           l3 == line(3, 8)
<1>1. Joypad(m) = 192 + m.joyp + l0 + l1 + l2 + l3
  BY DEF Joypad
<1>2. l0 \in {0, 1} /\ l1 \in {0, 2} /\ l2 \in {0, 4} /\ l3 \in {0, 8}
  OBVIOUS
<1>3. CASE m.pad = {0}
  <2>1. b = 0 /\ b % 4 = 0 /\ 2 ^ (b % 4) = 1
    BY <1>3
  <2> SUFFICES ASSUME m.joyp \notin {16, 48} PROVE (Joypad(m) \div 1) % 2 = 0
    BY <2>1
  <2>2. l0 = 0
    BY <1>3
  <2> HIDE DEF l0, l1, l2, l3
  <2>3. Joypad(m) \in Nat /\ Joypad(m) % 2 = 0
    BY <1>1, <1>2, <2>2
  <2> QED  BY <2>3
<1>4. CASE m.pad = {5}
  <2>1. b = 5 /\ b % 4 = 1 /\ 2 ^ (b % 4) = 2
    BY <1>4
  <2> SUFFICES ASSUME m.joyp \notin {32, 48} PROVE (Joypad(m) \div 2) % 2 = 0
    BY <2>1
  <2>2. l1 = 0
    BY <1>4
  <2> HIDE DEF l0, l1, l2, l3
  <2>3. (Joypad(m) \div 2) % 2 = 0
    BY <1>1, <1>2, <2>2
  <2> QED  BY <2>3
<1> QED  BY <1>3, <1>4

(* The bank of the work RAM is as the last store to its register left it,    *)
(* and bank 0 is bank 1.                                                    *)
LEMMA BankShows ==
  ASSUME NEW m, MemOK(m), m.color, NEW x \in Nat
  PROVE  Read(WriteIo(m, 112, x), 53248) = Cell(m, <<"wram", 4096 * (IF x % 8 = 0 THEN 1 ELSE x % 8)>>)
<1> DEFINE bank == IF x % 8 = 0 THEN 1 ELSE x % 8
           n == [m EXCEPT !.svbk = bank]
<1>1. bank \in Nat /\ bank # 0
  OBVIOUS
<1>2. WriteIo(m, 112, x) = n
  BY DEF WriteIo
<1> HIDE DEF bank
<1>3. n.cell = m.cell /\ n.color = m.color /\ n.svbk = bank /\ n.boot = m.boot
  BY DEF MemOK, FieldsOK, MemFields
<1> HIDE DEF n
<1>4. WramBank(n) = bank
  BY <1>1, <1>3 DEF WramBank
<1>5. Wram(n, 4096) = <<"wram", 4096 * bank>>
  <2>1. Wram(n, 4096) = <<"wram", 4096 * bank + 4096 - 4096>>
    BY <1>4 DEF Wram
  <2>2. 4096 * bank + 4096 - 4096 = 4096 * bank
    BY <1>1
  <2> QED  BY <2>1, <2>2
<1>6. Locate(n, 53248) = <<"wram", 4096 * bank>>
  <2>1. AtWram(53248) /\ 53248 \in Nat /\ 53248 - 49152 = 4096
    BY DEF AtWram
  <2> QED  BY <1>5, <2>1, LocateIs
<1>7. ~BootMaps(n, 53248)
  BY DEF BootMaps
<1> DEFINE q == <<"wram", 4096 * bank>>
<1>8. q[1] = "wram"
  OBVIOUS
<1> HIDE DEF q
<1>9. Read(n, 53248) = Cell(n, q)
  BY <1>6, <1>7, <1>8, ReadIs DEF q
<1>10. Cell(n, q) = Cell(m, q)
  BY <1>3 DEF Cell
<1> QED  BY <1>2, <1>9, <1>10 DEF q, bank

LEMMA MemStepExact ==
  ASSUME MemInv, MemNext
  PROVE  StoreExact /\ OamDmaExact /\ HdmaExact /\ BankExact /\ PadExact
<1> USE DEF MemInv
<1> DEFINE Goal == StoreExact /\ OamDmaExact /\ HdmaExact /\ BankExact /\ PadExact
<1>f. FieldsOK(mem) /\ MemFields \subseteq DOMAIN mem /\ BanksOK(mem) /\ PalettesOK(mem)
  BY DEF MemOK, FieldsOK
<1>1. ASSUME NEW b \in Addresses, NEW x \in Stored, StoreByte(b, x) PROVE Goal
  <2>1. last' = [kind |-> "store", at |-> b, value |-> x] /\ mem' = Plain(mem, b, x)
    BY <1>1 DEF StoreByte
  <2>2. last'.kind = "store" /\ last'.at = b /\ last'.value = x
    BY <2>1
  <2>3. ASSUME NEW a \in Addresses
        PROVE  IF a \in Aliases(b) THEN InRam(a) => Read(mem', a) = x ELSE Read(mem', a) = Read(mem, a)
    <3>1. /\ a \in Nat /\ a < Space /\ ~AtIo(a)
          /\ b \in Nat /\ b < Space /\ ~AtIo(b)
      BY GbMapAssumption DEF AtIo
    <3> QED  BY <1>f, <2>1, <3>1, StoreShows
  <2>4. StoreExact
    BY <2>2, <2>3 DEF StoreExact
  <2> QED  BY <2>2, <2>4 DEF OamDmaExact, HdmaExact, BankExact, PadExact
<1>2. ASSUME NEW s \in IoStores, StoreIo(s[1], s[2]) PROVE Goal
  <2>1. last' = [kind |-> "io", at |-> s[1], value |-> s[2]] /\ mem' = WriteIo(mem, s[1], s[2])
    BY <1>2 DEF StoreIo
  <2>2. last'.kind = "io" /\ last'.at = s[1] /\ last'.value = s[2]
    BY <2>1
  <2>3. s[2] \in Nat /\ s[2] < 256
    BY GbMapAssumption
  <2>4. OamDmaExact
    <3> SUFFICES ASSUME s[1] = 70, NEW i \in {0, 1, 127, 159}
                 PROVE  Read(mem', 65024 + i) = Read(mem, 256 * s[2] + i)
      BY <2>2 DEF OamDmaExact
    <3>1. mem' = OamDma(mem, s[2])
      BY <2>1 DEF WriteIo
    <3>2. i \in Nat /\ i < 160 /\ i # 70
      OBVIOUS
    <3> QED  BY <1>f, <2>3, <3>1, <3>2, OamDmaShows
  <2>5. BankExact
    <3> SUFFICES ASSUME s[1] = 112, mem.color
                 PROVE  Read(mem', 53248) = Cell(mem, <<"wram", 4096 * (IF s[2] % 8 = 0 THEN 1 ELSE s[2] % 8)>>)
      BY <2>2 DEF BankExact
    <3>1. mem' = WriteIo(mem, 112, s[2])
      BY <2>1
    <3> QED  BY <2>3, <3>1, BankShows
  <2> QED  BY <2>2, <2>4, <2>5 DEF StoreExact, HdmaExact, PadExact
<1>3. ASSUME Hblank PROVE Goal
  <2>1. last' = [kind |-> "hblank"] /\ mem' = HdmaBlock(mem) /\ mem.hdma.active /\ mem.hdma.length # 0
    BY <1>3 DEF Hblank
  <2>2. last'.kind = "hblank"
    BY <2>1
  <2>3. ASSUME NEW i \in 0..15, mem.hdma.dest + i < 40960
        PROVE  Read(mem', mem.hdma.dest + i) = Read(mem, mem.hdma.source + i)
    <3>1. i \in Nat /\ i < 16
      OBVIOUS
    <3> QED  BY <2>1, <2>3, <3>1, BlockShows
  <2>4. mem'.hdma.active <=> mem.hdma.length > 1
    <3>1. HdmaBlock(mem).hdma.active <=> mem.hdma.active /\ mem.hdma.length > 1
      BY <2>1, BlockKeeps
    <3> QED  BY <2>1, <3>1
  <2>5. HdmaExact
    BY <2>3, <2>4 DEF HdmaExact
  <2> QED  BY <2>2, <2>5 DEF StoreExact, OamDmaExact, BankExact, PadExact
<1>4. ASSUME SwitchSpeed PROVE Goal
  <2>1. last' = [kind |-> "stop"]
    BY <1>4 DEF SwitchSpeed
  <2>2. last'.kind = "stop"
    BY <2>1
  <2> QED  BY <2>2 DEF StoreExact, OamDmaExact, HdmaExact, BankExact, PadExact
<1>5. ASSUME NEW pad \in {{0}, {5}}, SetPad(pad) PROVE Goal
  <2>1. last' = [kind |-> "pad"] /\ mem' = [mem EXCEPT !.pad = pad]
    BY <1>5 DEF SetPad
  <2>2. last'.kind = "pad"
    BY <2>1
  <2>3. mem'.pad \in {{0}, {5}} /\ mem'.joyp = mem.joyp /\ mem.joyp \in {0, 16, 32, 48}
    BY <1>f, <2>1 DEF FieldsOK, MemFields
  <2>4. PadExact
    BY <2>3, PadShows DEF PadExact
  <2> QED  BY <2>2, <2>4 DEF StoreExact, OamDmaExact, HdmaExact, BankExact
<1> QED  BY <1>1, <1>2, <1>3, <1>4, <1>5 DEF MemNext

(* For every set of addresses, of values, of HDMA destinations and of        *)
(* register stores, after any number of them: a store to memory shows at its *)
(* address and its echo and nowhere else, the two DMAs leave what the CPU     *)
(* would have read at the source, and the work RAM's bank and the joypad's    *)
(* lines are as the last store left them.                                   *)
THEOREM MemoryIsExact == MemSpec => MemoryExact
<1>1. MemSpec => []MemInv
  <2>1. MemInit => MemInv
    BY MemInitInv
  <2>2. MemInv /\ [MemNext]_memVars => MemInv'
    BY MemNextInv
  <2> QED  BY <2>1, <2>2, PTL DEF MemSpec
<1>2. MemInv /\ [MemNext]_memVars => [StoreExact /\ OamDmaExact /\ HdmaExact /\ BankExact /\ PadExact]_memVars
  BY MemStepExact
<1>3. MemSpec => [][StoreExact /\ OamDmaExact /\ HdmaExact /\ BankExact /\ PadExact]_memVars
  BY <1>1, <1>2, PTL DEF MemSpec
<1> QED  BY <1>3, PTL DEF MemoryExact
=============================================================================

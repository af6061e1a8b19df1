-------------------------------- MODULE GbCpu --------------------------------
(***************************************************************************)
(* What one instruction of the GB/GBC CPU computes (core/cpu.cpp).         *)
(*                                                                         *)
(* The machine is a record: r, the registers by their number in an opcode  *)
(* (0 to 5 are B C D E H L, 7 is A; 6 stands for the byte at HL); f, the   *)
(* four flags; sp and pc; mem, the bytes that were ever written, every     *)
(* other address reading 255; fault, whether an opcode was no instruction. *)
(* Widths are those of the code.  EI, DI, HALT and STOP touch only the     *)
(* state of GbInterrupts; the cycle count of an instruction is left out.   *)
(***************************************************************************)
EXTENDS Integers, TLC, Bitwise

Byte(x) == x % 256
Half(x) == x % 65536
SignedByte(x) == IF x >= 128 THEN x - 256 ELSE x
BitAt(x, i) == (x \div 2 ^ i) % 2 = 1
One(b) == IF b THEN 1 ELSE 0

Read8(m, a) == IF a \in DOMAIN m.mem THEN m.mem[a] ELSE 255
Read16(m, a) == Read8(m, a) + 256 * Read8(m, Half(a + 1))
Write8(m, a, x) == [m EXCEPT !.mem = (a :> x) @@ @]
PushWord(m, x) ==
  LET high == Half(m.sp - 1)
      low == Half(m.sp - 2)
  IN  [Write8(Write8(m, high, x \div 256), low, x % 256) EXCEPT !.sp = low]
PopWord_NoWrap(m) == [x |-> Read8(m, m.sp) + 256 * Read8(m, m.sp + 1), m |-> [m EXCEPT !.sp = Half(@ + 2)]]
PopWord(m) == [x |-> Read16(m, m.sp), m |-> [m EXCEPT !.sp = Half(@ + 2)]]

(***************************************************************************)
(* Registers and pairs: 0 BC, 1 DE, 2 HL, 3 SP; AF is pushed with the low  *)
(* half of F clear and popped without it.                                  *)
(***************************************************************************)
Pair(m, p) == IF p = 3 THEN m.sp ELSE 256 * m.r[2 * p] + m.r[2 * p + 1]
SetPair(m, p, x) ==
  IF p = 3 THEN [m EXCEPT !.sp = x]
  ELSE [m EXCEPT !.r[2 * p] = x \div 256, !.r[2 * p + 1] = x % 256]
GetAf(m) ==
  256 * m.r[7] + 128 * One(m.f.z) + 64 * One(m.f.n) + 32 * One(m.f.h) + 16 * One(m.f.c)
SetAf(m, x) ==
  [m EXCEPT !.r[7] = x \div 256,
            !.f = [z |-> BitAt(x, 7), n |-> BitAt(x, 6), h |-> BitAt(x, 5), c |-> BitAt(x, 4)]]
ReadReg(m, i) == IF i = 6 THEN Read8(m, Pair(m, 2)) ELSE m.r[i]
WriteReg(m, i, x) == IF i = 6 THEN Write8(m, Pair(m, 2), x) ELSE [m EXCEPT !.r[i] = x]
Flags(zero, sub, half, carry) == [z |-> zero, n |-> sub, h |-> half, c |-> carry]

(***************************************************************************)
(* Arithmetic.                                                             *)
(***************************************************************************)
Inc8(m, x) == [x |-> Byte(x + 1), f |-> Flags(Byte(x + 1) = 0, FALSE, x % 16 = 15, m.f.c)]
Dec8(m, x) == [x |-> Byte(x - 1), f |-> Flags(Byte(x - 1) = 0, TRUE, x % 16 = 0, m.f.c)]
AddA(m, x, withCarry) ==
  LET c == One(withCarry /\ m.f.c)
      sum == m.r[7] + x + c
  IN  [m EXCEPT !.r[7] = Byte(sum),
                !.f = Flags(Byte(sum) = 0, FALSE, (m.r[7] % 16) + (x % 16) + c > 15, sum > 255)]
SubA_BorrowOnlyInResult(m, x, withCarry) ==
  LET diff == Byte(m.r[7] - x - One(withCarry /\ m.f.c))
  IN  [m EXCEPT !.r[7] = diff, !.f = Flags(diff = 0, TRUE, m.r[7] % 16 < x % 16, m.r[7] < x)]
SubA(m, x, withCarry) ==
  LET c == One(withCarry /\ m.f.c)
      diff == Byte(m.r[7] - x - c)
  IN  [m EXCEPT !.r[7] = diff,
                !.f = Flags(diff = 0, TRUE, m.r[7] % 16 < (x % 16) + c, m.r[7] < x + c)]
AndA(m, x) == LET y == m.r[7] & x IN [m EXCEPT !.r[7] = y, !.f = Flags(y = 0, FALSE, TRUE, FALSE)]
OrA(m, x) == LET y == m.r[7] | x IN [m EXCEPT !.r[7] = y, !.f = Flags(y = 0, FALSE, FALSE, FALSE)]
XorA(m, x) == LET y == m.r[7] ^^ x IN [m EXCEPT !.r[7] = y, !.f = Flags(y = 0, FALSE, FALSE, FALSE)]
CpA(m, x) ==
  [m EXCEPT !.f = Flags(m.r[7] = x, TRUE, m.r[7] % 16 < x % 16, m.r[7] < x)]
AddHl(m, x) ==
  LET hl == Pair(m, 2)
      kept == [m EXCEPT !.f = Flags(m.f.z, FALSE, (hl % 4096) + (x % 4096) > 4095, hl + x > 65535)]
  IN  SetPair(kept, 2, Half(hl + x))

(* The eight operations on A, in the order of bits 3 to 5 of their opcodes. *)
Alu(m, k, x) ==
  CASE k = 0 -> AddA(m, x, FALSE) [] k = 1 -> AddA(m, x, TRUE)
    [] k = 2 -> SubA(m, x, FALSE) [] k = 3 -> SubA(m, x, TRUE)
    [] k = 4 -> AndA(m, x)        [] k = 5 -> XorA(m, x)
    [] k = 6 -> OrA(m, x)         [] k = 7 -> CpA(m, x)

(* Rotations and shifts, in the order of bits 3 to 5 of their CB opcodes.   *)
Rotated(k, x, carry) ==
  CASE k = 0 -> Byte(2 * x) + x \div 128         (* rlc *)
    [] k = 1 -> x \div 2 + 128 * (x % 2)         (* rrc *)
    [] k = 2 -> Byte(2 * x) + One(carry)         (* rl *)
    [] k = 3 -> x \div 2 + 128 * One(carry)      (* rr *)
    [] k = 4 -> Byte(2 * x)                      (* sla *)
    [] k = 5 -> x \div 2 + 128 * (x \div 128)    (* sra *)
    [] k = 6 -> 16 * (x % 16) + x \div 16        (* swap *)
    [] k = 7 -> x \div 2                         (* srl *)
ShiftedOut(k, x) == IF k \in {0, 2, 4} THEN x >= 128 ELSE k # 6 /\ x % 2 = 1

CbPrefix(m, op) ==
  LET reg == op % 8
      sel == (op \div 8) % 8
      x == ReadReg(m, reg)
      y == Rotated(sel, x, m.f.c)
      bit == 2 ^ sel
  IN  CASE op < \h40 -> [WriteReg(m, reg, y) EXCEPT
                           !.f = Flags(y = 0, FALSE, FALSE, ShiftedOut(sel, x))]
        [] op \in \h40..\h7F -> [m EXCEPT !.f = Flags(~BitAt(x, sel), FALSE, TRUE, m.f.c)]
        [] op \in \h80..\hBF -> WriteReg(m, reg, IF BitAt(x, sel) THEN x - bit ELSE x)
        [] op >= \hC0 -> WriteReg(m, reg, IF BitAt(x, sel) THEN x ELSE x + bit)

(* RLCA, RRCA, RLA and RRA clear Z whatever the result.                     *)
RotateA(m, k) ==
  [m EXCEPT !.r[7] = Rotated(k, @, m.f.c), !.f = Flags(FALSE, FALSE, FALSE, ShiftedOut(k, m.r[7]))]

(* After an addition the low digit is fixed first, and that may wrap A past *)
(* the test of the high digit.                                              *)
Daa(m) ==
  LET a == m.r[7]
      low == IF m.f.h \/ a % 16 > 9 THEN Byte(a + 6) ELSE a
      up == m.f.c \/ low > \h9F
      added == IF up THEN Byte(low + \h60) ELSE low
      subtracted == Byte(a - (IF m.f.h THEN 6 ELSE 0) - (IF m.f.c THEN \h60 ELSE 0))
      x == IF m.f.n THEN subtracted ELSE added
  IN  [m EXCEPT !.r[7] = x,
                !.f = Flags(x = 0, m.f.n, FALSE, IF m.f.n THEN m.f.c ELSE up)]

(* SP plus a signed byte; the flags are those of the low byte.              *)
SpPlus(m, e) ==
  [x |-> Half(m.sp + SignedByte(e)),
   f |-> Flags(FALSE, FALSE, (m.sp % 16) + (e % 16) > 15, (m.sp % 256) + e > 255)]

(***************************************************************************)
(* Jumps, calls and returns.                                               *)
(***************************************************************************)
CheckCond(m, op) ==
  LET code == (op \div 8) % 4
      flag == IF code < 2 THEN m.f.z ELSE m.f.c
  IN  flag = (code % 2 = 1)
GoTo(m, a) == [m EXCEPT !.pc = a]
CallTo(m, a) == GoTo(PushWord(m, m.pc), a)
ReturnFrom(m) == LET top == PopWord(m) IN GoTo(top.m, top.x)
If(cond, taken, m) == IF cond THEN taken ELSE m

(***************************************************************************)
(* The opcode table: the length of an instruction, and what it does.  imm  *)
(* and wide are the byte and the word after the opcode.                    *)
(***************************************************************************)
NoInstruction == {\hD3, \hDB, \hDD, \hE3, \hE4, \hEB, \hEC, \hED, \hF4, \hFC, \hFD}
OpBytes(op) ==
  CASE op \in {\h01, \h11, \h21, \h31, \h08, \hEA, \hFA, \hC3, \hCD}
              \union {\hC2, \hCA, \hD2, \hDA, \hC4, \hCC, \hD4, \hDC} -> 3
    [] op \in {\h10, \hCB, \hF8, \hE8, \hE0, \hF0, \h18, \h20, \h28, \h30, \h38}
              \union {8 * k + 6 : k \in 0..7} \union {8 * k + 6 : k \in 24..31} -> 2
    [] OTHER -> 1

(* Operations on A, the CB opcodes, the five of GbInterrupts and the holes.  *)
AluOp(m, op, imm) ==
  LET y == (op \div 8) % 8
  IN  CASE op \in \h80..\hBF -> Alu(m, y, ReadReg(m, op % 8))
        [] op \in {8 * k + 6 : k \in 24..31} -> Alu(m, y, imm)
        [] op = \hCB -> CbPrefix(m, imm)
        [] op \in {\h00, \h10, \h76, \hF3, \hFB} -> m
        [] op \in NoInstruction -> [m EXCEPT !.fault = TRUE]

(* Jumps, calls, returns and the stack.                                     *)
FlowOp(m, op, imm, wide) ==
  LET y == (op \div 8) % 8
      p == (op \div 16) % 4
      hl == Pair(m, 2)
      taken == CheckCond(m, op)
  IN  CASE op = \h18 -> GoTo(m, Half(m.pc + SignedByte(imm)))
        [] op \in {\h20, \h28, \h30, \h38} -> If(taken, GoTo(m, Half(m.pc + SignedByte(imm))), m)
        [] op = \hC3 -> GoTo(m, wide)
        [] op = \hE9 -> GoTo(m, hl)
        [] op \in {\hC2, \hCA, \hD2, \hDA} -> If(taken, GoTo(m, wide), m)
        [] op = \hCD -> CallTo(m, wide)
        [] op \in {\hC4, \hCC, \hD4, \hDC} -> If(taken, CallTo(m, wide), m)
        [] op \in {\hC9, \hD9} -> ReturnFrom(m)
        [] op \in {\hC0, \hC8, \hD0, \hD8} -> If(taken, ReturnFrom(m), m)
        [] op \in {8 * k + 7 : k \in 24..31} -> CallTo(m, 8 * y)
        [] op \in {\hC5, \hD5, \hE5} -> PushWord(m, Pair(m, p))
        [] op = \hF5 -> PushWord(m, GetAf(m))
        [] op \in {\hC1, \hD1, \hE1} -> SetPair(PopWord(m).m, p, PopWord(m).x)
        [] op = \hF1 -> SetAf(PopWord(m).m, PopWord(m).x)
        [] OTHER -> AluOp(m, op, imm)

(* Counting, sixteen-bit additions, rotations of A and the flags.           *)
CountOp(m, op, imm, wide) ==
  LET y == (op \div 8) % 8
      p == (op \div 16) % 4
  IN  CASE op \in {8 * k + 4 : k \in 0..7} ->
             LET i == Inc8(m, ReadReg(m, y)) IN [WriteReg(m, y, i.x) EXCEPT !.f = i.f]
        [] op \in {8 * k + 5 : k \in 0..7} ->
             LET i == Dec8(m, ReadReg(m, y)) IN [WriteReg(m, y, i.x) EXCEPT !.f = i.f]
        [] op \in {\h03, \h13, \h23, \h33} -> SetPair(m, p, Half(Pair(m, p) + 1))
        [] op \in {\h0B, \h1B, \h2B, \h3B} -> SetPair(m, p, Half(Pair(m, p) - 1))
        [] op \in {\h09, \h19, \h29, \h39} -> AddHl(m, Pair(m, p))
        [] op \in {\h07, \h0F, \h17, \h1F} -> RotateA(m, y)
        [] op = \h27 -> Daa(m)
        [] op = \h2F -> [m EXCEPT !.r[7] = 255 - @, !.f.n = TRUE, !.f.h = TRUE]
        [] op = \h37 -> [m EXCEPT !.f = Flags(m.f.z, FALSE, FALSE, TRUE)]
        [] op = \h3F -> [m EXCEPT !.f = Flags(m.f.z, FALSE, FALSE, ~m.f.c)]
        [] OTHER -> FlowOp(m, op, imm, wide)

(* Loads; every other opcode is of a group above.                           *)
Exec(m, op, imm, wide) ==
  LET y == (op \div 8) % 8
      p == (op \div 16) % 4
      hl == Pair(m, 2)
      a == m.r[7]
  IN  CASE op \in {\h01, \h11, \h21, \h31} -> SetPair(m, p, wide)
        [] op = \h08 -> Write8(Write8(m, wide, m.sp % 256), Half(wide + 1), m.sp \div 256)
        [] op = \hF9 -> [m EXCEPT !.sp = hl]
        [] op = \hF8 -> [SetPair(m, 2, SpPlus(m, imm).x) EXCEPT !.f = SpPlus(m, imm).f]
        [] op = \hE8 -> [m EXCEPT !.sp = SpPlus(m, imm).x, !.f = SpPlus(m, imm).f]
        [] op \in {8 * k + 6 : k \in 0..7} -> WriteReg(m, y, imm)
        [] op \in \h40..\h7F \ {\h76} -> WriteReg(m, y, ReadReg(m, op % 8))
        [] op \in {\h02, \h12} -> Write8(m, Pair(m, p), a)
        [] op \in {\h0A, \h1A} -> WriteReg(m, 7, Read8(m, Pair(m, p)))
        [] op = \h22 -> SetPair(Write8(m, hl, a), 2, Half(hl + 1))
        [] op = \h32 -> SetPair(Write8(m, hl, a), 2, Half(hl - 1))
        [] op = \h2A -> SetPair(WriteReg(m, 7, Read8(m, hl)), 2, Half(hl + 1))
        [] op = \h3A -> SetPair(WriteReg(m, 7, Read8(m, hl)), 2, Half(hl - 1))
        [] op = \hEA -> Write8(m, wide, a)
        [] op = \hFA -> WriteReg(m, 7, Read8(m, wide))
        [] op = \hE0 -> Write8(m, \hFF00 + imm, a)
        [] op = \hF0 -> WriteReg(m, 7, Read8(m, \hFF00 + imm))
        [] op = \hE2 -> Write8(m, \hFF00 + m.r[1], a)
        [] op = \hF2 -> WriteReg(m, 7, Read8(m, \hFF00 + m.r[1]))
        [] OTHER -> CountOp(m, op, imm, wide)

(* One instruction without interrupts: PC passes it, then it runs.  A       *)
(* faulted CPU does not step.                                               *)
StepCpu(m) ==
  LET op == Read8(m, m.pc)
  IN  IF m.fault THEN m
      ELSE Exec(GoTo(m, Half(m.pc + OpBytes(op))), op,
                Read8(m, Half(m.pc + 1)), Read16(m, Half(m.pc + 1)))
=============================================================================

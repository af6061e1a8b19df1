------------------------------- MODULE GbaIsa -------------------------------
(***************************************************************************)
(* What one instruction of the GBA's CPU computes (core/gba_cpu.cpp).      *)
(*                                                                         *)
(* The machine is a record: r, the sixteen visible registers; f, the four  *)
(* condition flags; t, the THUMB state; io, the bus accesses of the        *)
(* machine in order.  A load of a word finds what was last stored there    *)
(* and otherwise a value the bus fixes for its kind and address.  Words    *)
(* have Width bits, 32 in the code, enough for an eight-bit immediate.     *)
(* An instruction is the record of its decoded fields, and k is its format.*)
(* The machine is in a mode without SPSR: mode changes are in GbaCpu.      *)
(***************************************************************************)
EXTENDS Integers, Sequences, SequencesExt, Bitwise

CONSTANT Width

ASSUME WidthAssumption == Width \in 8..15

M == 2 ^ Width
Word == 0 .. M - 1
Wrap(x) == x % M
Msb(x) == x >= M \div 2
Signed(x) == IF Msb(x) THEN x - M ELSE x
BitOf(x, i) == (x \div 2 ^ i) % 2 = 1
Complement(x) == M - 1 - x
OneIf(b) == IF b THEN 1 ELSE 0

(***************************************************************************)
(* Adder, barrel shifter, flags and conditions.                            *)
(***************************************************************************)
AddWithCarry(a, b, cin) ==
  LET wide == a + b + OneIf(cin)
      sum == Signed(a) + Signed(b) + OneIf(cin)
  IN  [x |-> Wrap(wide), c |-> wide > M - 1, v |-> sum \notin -(M \div 2) .. (M \div 2) - 1]

(* An amount of 0 leaves value and carry alone, except that an immediate    *)
(* "lsr 0" or "asr 0" stands for Width and an immediate "ror 0" for RRX.    *)
ShiftValue(x, type, amount, cin, imm) ==
  LET sign == IF Msb(x) THEN M - 1 ELSE 0
      rot == amount % Width
      rotated == (x \div 2 ^ rot) | Wrap(x * 2 ^ (Width - rot))
  IN  CASE amount = 0 /\ (~imm \/ type = "lsl") -> [x |-> x, c |-> cin]
        [] amount = 0 /\ imm /\ type = "lsr" -> [x |-> 0, c |-> Msb(x)]
        [] amount = 0 /\ imm /\ type = "asr" -> [x |-> sign, c |-> Msb(x)]
        [] amount = 0 /\ imm /\ type = "ror" ->
             [x |-> OneIf(cin) * (M \div 2) + x \div 2, c |-> BitOf(x, 0)]
        [] amount > 0 /\ type = "lsl" ->
             IF amount >= Width THEN [x |-> 0, c |-> amount = Width /\ BitOf(x, 0)]
             ELSE [x |-> Wrap(x * 2 ^ amount), c |-> BitOf(x, Width - amount)]
        [] amount > 0 /\ type = "lsr" ->
             IF amount >= Width THEN [x |-> 0, c |-> amount = Width /\ Msb(x)]
             ELSE [x |-> x \div 2 ^ amount, c |-> BitOf(x, amount - 1)]
        [] amount > 0 /\ type = "asr" ->
             IF amount >= Width THEN [x |-> sign, c |-> Msb(x)]
             ELSE [x |-> Wrap(Signed(x) \div 2 ^ amount), c |-> BitOf(x, amount - 1)]
        [] amount > 0 /\ type = "ror" ->
             IF rot = 0 THEN [x |-> x, c |-> Msb(x)] ELSE [x |-> rotated, c |-> Msb(rotated)]

SetNZ(f, x) == [f EXCEPT !.n = Msb(x), !.z = (x = 0)]
SetC(f, c) == [f EXCEPT !.c = c]
SetFlagsAdd(f, a, b, x) ==
  [SetNZ(f, x) EXCEPT !.c = (a + b > M - 1), !.v = (Msb(a) = Msb(b) /\ Msb(a) # Msb(x))]
SetFlagsSub(f, a, b, x) ==
  [SetNZ(f, x) EXCEPT !.c = (a >= b), !.v = (Msb(a) # Msb(b) /\ Msb(a) # Msb(x))]
SetFlagsSum(f, s) == [SetNZ(f, s.x) EXCEPT !.c = s.c, !.v = s.v]

CondPassed(f, cond) ==
  CASE cond = "eq" -> f.z          [] cond = "ne" -> ~f.z
    [] cond = "cs" -> f.c          [] cond = "cc" -> ~f.c
    [] cond = "mi" -> f.n          [] cond = "pl" -> ~f.n
    [] cond = "vs" -> f.v          [] cond = "vc" -> ~f.v
    [] cond = "hi" -> f.c /\ ~f.z  [] cond = "ls" -> ~f.c \/ f.z
    [] cond = "ge" -> f.n = f.v    [] cond = "lt" -> f.n # f.v
    [] cond = "gt" -> ~f.z /\ f.n = f.v
    [] cond = "le" -> f.z \/ f.n # f.v
    [] cond = "al" -> TRUE
    [] cond = "nv" -> FALSE

RotImm(imm8, rot) ==
  IF rot = 0 THEN imm8
  ELSE (imm8 \div 2 ^ (2 * rot)) | Wrap(imm8 * 2 ^ (Width - 2 * rot))

(***************************************************************************)
(* Registers and bus.  PC has already moved past the instruction.          *)
(***************************************************************************)
OperandReg(m, i) == IF i = 15 THEN Wrap(m.r[15] + (IF m.t THEN 2 ELSE 4)) ELSE m.r[i]
SetReg(m, i, x) == [m EXCEPT !.r[i] = x]
SetFlags(m, f) == [m EXCEPT !.f = f]
Align(x, n) == x - (x % n)
Jump(m, x) == SetReg(m, 15, Wrap(x))
SetThumb(m, on) == [m EXCEPT !.t = on]

(* The result of an ARM data operation: PC loses its low bits.              *)
WriteAluResult(m, rd, x) ==
  IF rd = 15 THEN Jump(m, Align(x, IF m.t THEN 2 ELSE 4)) ELSE SetReg(m, rd, x)

(* The value a load finds, narrowed to the size of the access and extended. *)
BusValue(m, kind, a) ==
  LET stores == {j \in DOMAIN m.io : SubSeq(m.io[j], 1, 3) = <<"st", "w", a>>}
      raw == IF kind = "w" /\ stores # {} THEN m.io[Max(stores)][4] ELSE Wrap(37 * a + 11)
      half == 2 ^ (Width \div 2)
      byte == 2 ^ (Width \div 4)
      Extend(x, n) == IF x >= n \div 2 THEN Wrap(x - n) ELSE x
  IN  CASE kind = "w"  -> raw
        [] kind = "h"  -> raw % half
        [] kind = "b"  -> raw % byte
        [] kind = "sh" -> Extend(raw % half, half)
        [] kind = "sb" -> Extend(raw % byte, byte)
Narrow(kind, x) ==
  CASE kind = "w" -> x
    [] kind = "h" -> x % 2 ^ (Width \div 2)
    [] kind = "b" -> x % 2 ^ (Width \div 4)
Store(m, kind, a, x) == [m EXCEPT !.io = Append(@, <<"st", kind, Wrap(a), Narrow(kind, x)>>)]
Touch(m, kind, a) == [m EXCEPT !.io = Append(@, <<"ld", kind, Wrap(a)>>)]
LoadReg(m, kind, a, rd) == SetReg(Touch(m, kind, a), rd, BusValue(m, kind, Wrap(a)))
Access(m, load, kind, a, rd) ==
  IF load THEN LoadReg(m, kind, a, rd) ELSE Store(m, kind, a, m.r[rd])
=============================================================================

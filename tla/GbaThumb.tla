------------------------------ MODULE GbaThumb ------------------------------
(***************************************************************************)
(* The THUMB formats of GbaCpu::step (core/gba_cpu.cpp:644-1107).  Each    *)
(* operator takes the decoded fields and the machine whose PC is already   *)
(* past the instruction.  SWI is in GbaCpu.                                *)
(***************************************************************************)
EXTENDS GbaIsa

(* Format 1: shift by an immediate.                                         *)
ThumbShift(i, m) ==
  LET sh == ShiftValue(m.r[i.rs], i.type, i.amount, m.f.c, TRUE)
  IN  SetFlags(SetReg(m, i.rd, sh.x), SetC(SetNZ(m.f, sh.x), sh.c))

(* Format 4: the sixteen register operations.                               *)
ThumbAlu(i, m) ==
  LET a == m.r[i.rd]
      b == m.r[i.rs]
      Logic(x) == SetFlags(SetReg(m, i.rd, x), SetNZ(m.f, x))
      Shift(type) ==
        LET sh == ShiftValue(a, type, b % 256, m.f.c, FALSE)
        IN  SetFlags(SetReg(m, i.rd, sh.x), SetC(SetNZ(m.f, sh.x), sh.c))
      Sum(y) == LET s == AddWithCarry(a, y, m.f.c)
                IN  SetFlags(SetReg(m, i.rd, s.x), SetFlagsSum(m.f, s))
  IN  CASE i.op = "and" -> Logic(a & b)
        [] i.op = "eor" -> Logic(a ^^ b)
        [] i.op \in {"lsl", "lsr", "asr", "ror"} -> Shift(i.op)
        [] i.op = "adc" -> Sum(b)
        [] i.op = "sbc" -> Sum(Complement(b))
        [] i.op = "tst" -> SetFlags(m, SetNZ(m.f, a & b))
        [] i.op = "neg" -> SetFlags(SetReg(m, i.rd, Wrap(0 - b)),
                                    SetFlagsSub(m.f, 0, b, Wrap(0 - b)))
        [] i.op = "cmp" -> SetFlags(m, SetFlagsSub(m.f, a, b, Wrap(a - b)))
        [] i.op = "cmn" -> SetFlags(m, SetFlagsAdd(m.f, a, b, Wrap(a + b)))
        [] i.op = "orr" -> Logic(a | b)
        [] i.op = "mul" -> Logic(Wrap(a * b))
        [] i.op = "bic" -> Logic(a & Complement(b))
        [] i.op = "mvn" -> Logic(Complement(b))

(* Format 5: high registers and BX; ADD and MOV to PC stay in THUMB.        *)
ThumbHigh(i, m) ==
  LET x == OperandReg(m, i.rs)
      lhs == OperandReg(m, i.rd)
      Write(y) == IF i.rd = 15 THEN Jump(m, Align(y, 2)) ELSE SetReg(m, i.rd, y)
  IN  CASE i.op = "add" -> Write(Wrap(lhs + x))
        [] i.op = "cmp" -> SetFlags(m, SetFlagsSub(m.f, lhs, x, Wrap(lhs - x)))
        [] i.op = "mov" -> Write(x)
        [] i.op = "bx"  -> Jump(SetThumb(m, BitOf(x, 0)), Align(x, 2))

(* Format 3: eight-bit immediates.                                          *)
ThumbImm8(i, m) ==
  LET a == m.r[i.rd]
      x == Wrap(a + i.imm)
      y == Wrap(a - i.imm)
  IN  CASE i.op = "mov" -> SetFlags(SetReg(m, i.rd, i.imm), SetNZ(m.f, i.imm))
        [] i.op = "cmp" -> SetFlags(m, SetFlagsSub(m.f, a, i.imm, y))
        [] i.op = "add" -> SetFlags(SetReg(m, i.rd, x), SetFlagsAdd(m.f, Wrap(x - i.imm), i.imm, x))
        [] i.op = "sub" -> SetFlags(SetReg(m, i.rd, y), SetFlagsSub(m.f, Wrap(y + i.imm), i.imm, y))

(* Format 2, register operand; both operands are read before rd is written. *)
ThumbAddReg(i, m) ==
  LET a == m.r[i.rs]
      b == m.r[i.rn]
      x == IF i.sub THEN Wrap(a - b) ELSE Wrap(a + b)
  IN  SetFlags(SetReg(m, i.rd, x),
               IF i.sub THEN SetFlagsSub(m.f, a, b, x) ELSE SetFlagsAdd(m.f, a, b, x))

(* Format 2, immediate: the flags read rn after rd is written, so with      *)
(* rn = rd they are those of the result, not of the operand.                *)
ThumbAddImm3(i, m) ==
  LET x == IF i.sub THEN Wrap(m.r[i.rn] - i.imm) ELSE Wrap(m.r[i.rn] + i.imm)
      written == SetReg(m, i.rd, x)
      a == written.r[i.rn]
  IN  SetFlags(written, IF i.sub THEN SetFlagsSub(m.f, a, i.imm, x)
                                 ELSE SetFlagsAdd(m.f, a, i.imm, x))

(* Formats 6, 12 and 13: literal load, address of PC or SP, SP adjustment.  *)
ThumbLiteral(i, m, pc) == LoadReg(m, "w", Align(Wrap(pc + 4), 4) + 4 * i.imm, i.rd)
ThumbAddress(i, m, pc) ==
  SetReg(m, i.rd, Wrap((IF i.sp THEN m.r[13] ELSE Align(Wrap(pc + 4), 4)) + 4 * i.imm))
ThumbAdjustSp(i, m) ==
  SetReg(m, 13, IF i.neg THEN Wrap(m.r[13] - 4 * i.imm) ELSE Wrap(m.r[13] + 4 * i.imm))

(* Formats 7 to 11: register, immediate and SP-relative transfers.          *)
ThumbLoadReg(i, m) == Access(m, i.load, i.kind, m.r[i.rn] + m.r[i.rm], i.rd)
ThumbLoadImm(i, m) ==
  LET scale == CASE i.kind = "w" -> 4 [] i.kind = "h" -> 2 [] i.kind = "b" -> 1
  IN  Access(m, i.load, i.kind, m.r[i.rb] + scale * i.imm, i.rd)
ThumbLoadSp(i, m) == Access(m, i.load, "w", m.r[13] + 4 * i.imm, i.rd)

(* Format 14: PUSH goes down from LR to the lowest register; POP goes up,   *)
(* and a popped PC chooses the state by its bit 0.                          *)
ThumbPush(i, m) ==
  LET Down(s, rg) == [m |-> Store(s.m, "w", s.a - 4, m.r[rg]), a |-> Wrap(s.a - 4)]
      regs == Reverse(SetToSortSeq(i.list, <))
      order == IF i.extra THEN <<14>> \o regs ELSE regs
      end == FoldLeft(Down, [m |-> m, a |-> m.r[13]], order)
  IN  SetReg(end.m, 13, end.a)
ThumbPop(i, m) ==
  LET Up(s, rg) == [m |-> LoadReg(s.m, "w", s.a, rg), a |-> Wrap(s.a + 4)]
      end == FoldLeft(Up, [m |-> m, a |-> m.r[13]], SetToSortSeq(i.list, <))
      pc == BusValue(end.m, "w", end.a)
      jumped == Jump(SetThumb(Touch(end.m, "w", end.a), BitOf(pc, 0)), Align(pc, 2))
  IN  IF i.extra THEN SetReg(jumped, 13, Wrap(end.a + 4)) ELSE SetReg(end.m, 13, end.a)

(* Format 15: the base is written back last, listed or not.                 *)
ThumbMultiple(i, m) ==
  LET Up(s, rg) == [m |-> Access(s.m, i.load, "w", s.a, rg), a |-> Wrap(s.a + 4)]
      end == FoldLeft(Up, [m |-> m, a |-> m.r[i.rn]], SetToSortSeq(i.list, <))
  IN  SetReg(end.m, i.rn, end.a)

(* Formats 16, 18 and 19: branches; off counts halfwords and is signed.     *)
ThumbBranchIf(i, m, pc) == IF CondPassed(m.f, i.cond) THEN Jump(m, pc + 4 + 2 * i.off) ELSE m
ThumbBranch(i, m, pc) == Jump(m, pc + 4 + 2 * i.off)
ThumbLinkHigh(i, m, pc) == SetReg(m, 14, Wrap(pc + 4 + 4096 * i.off))
ThumbLinkLow(i, m, pc) == Jump(SetReg(m, 14, Wrap(pc + 2) | 1), m.r[14] + 2 * i.off)

(* The dispatch: PC moves on by two, then the format runs.  A code that is  *)
(* no format only counts as unimplemented.                                  *)
ThumbStep(i, m0) ==
  LET pc == m0.r[15]
      m == Jump(m0, pc + 2)
  IN  CASE i.k = "shift"    -> ThumbShift(i, m)
        [] i.k = "alu"      -> ThumbAlu(i, m)
        [] i.k = "high"     -> ThumbHigh(i, m)
        [] i.k = "imm8"     -> ThumbImm8(i, m)
        [] i.k = "add"      -> ThumbAddReg(i, m)
        [] i.k = "add3"     -> ThumbAddImm3(i, m)
        [] i.k = "literal"  -> ThumbLiteral(i, m, pc)
        [] i.k = "address"  -> ThumbAddress(i, m, pc)
        [] i.k = "adjust"   -> ThumbAdjustSp(i, m)
        [] i.k = "ldreg"    -> ThumbLoadReg(i, m)
        [] i.k = "ldimm"    -> ThumbLoadImm(i, m)
        [] i.k = "ldsp"     -> ThumbLoadSp(i, m)
        [] i.k = "push"     -> ThumbPush(i, m)
        [] i.k = "pop"      -> ThumbPop(i, m)
        [] i.k = "multiple" -> ThumbMultiple(i, m)
        [] i.k = "bcond"    -> ThumbBranchIf(i, m, pc)
        [] i.k = "b"        -> ThumbBranch(i, m, pc)
        [] i.k = "blhi"     -> ThumbLinkHigh(i, m, pc)
        [] i.k = "bllo"     -> ThumbLinkLow(i, m, pc)
        [] i.k = "none"     -> m
=============================================================================

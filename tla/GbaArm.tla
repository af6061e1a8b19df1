------------------------------- MODULE GbaArm -------------------------------
(***************************************************************************)
(* The ARM instructions of GbaCpu::step (core/gba_cpu.cpp:1110-1887) for a *)
(* mode without SPSR.  Each operator takes the decoded fields and the      *)
(* machine whose PC is already past the instruction; SWI, MRS, MSR and the *)
(* returns that restore CPSR are in GbaCpu.                                *)
(***************************************************************************)
EXTENDS GbaIsa

(* Data processing: x is the result written to rd, f the new flags.         *)
Commit(i, m, x, f) ==
  LET flagged == IF i.s THEN SetFlags(m, f) ELSE m
  IN  WriteAluResult(flagged, i.rd, x)
LogicOps == {"and", "eor", "tst", "teq", "orr", "mov", "bic", "mvn"}
TestOps == {"tst", "teq", "cmp", "cmn"}
Logic(op, a, b) ==
  CASE op \in {"and", "tst"} -> a & b
    [] op \in {"eor", "teq"} -> a ^^ b
    [] op = "orr" -> a | b
    [] op = "mov" -> b
    [] op = "bic" -> a & Complement(b)
    [] op = "mvn" -> Complement(b)

(* The immediate form adds through AddWithCarry throughout.  A test writes  *)
(* the flags whatever its S bit says.                                       *)
ArmDataImm(i, m) ==
  LET imm == RotImm(i.imm8, i.rot)
      a == OperandReg(m, i.rn)
      x == Logic(i.op, a, imm)
      logicFlags == SetC(SetNZ(m.f, x), IF i.rot = 0 THEN m.f.c ELSE Msb(imm))
      sum == CASE i.op \in {"sub", "cmp"} -> AddWithCarry(a, Complement(imm), TRUE)
               [] i.op = "rsb" -> AddWithCarry(imm, Complement(a), TRUE)
               [] i.op \in {"add", "cmn"} -> AddWithCarry(a, imm, FALSE)
               [] i.op = "adc" -> AddWithCarry(a, imm, m.f.c)
               [] i.op = "sbc" -> AddWithCarry(a, Complement(imm), m.f.c)
               [] i.op = "rsc" -> AddWithCarry(imm, Complement(a), m.f.c)
      f == IF i.op \in LogicOps THEN logicFlags ELSE SetFlagsSum(m.f, sum)
  IN  IF i.op \in TestOps THEN SetFlags(m, f)
      ELSE Commit(i, m, IF i.op \in LogicOps THEN x ELSE sum.x, f)

(* The register form shifts its operand by an immediate or by a register    *)
(* and has flag rules of its own for plain additions and subtractions.      *)
ArmDataReg(i, m) ==
  LET sh == ShiftValue(OperandReg(m, i.rm), i.type,
                       IF i.byReg THEN m.r[i.rs] % 256 ELSE i.amount, m.f.c, ~i.byReg)
      a == OperandReg(m, i.rn)
      b == sh.x
      x == CASE i.op \in LogicOps -> Logic(i.op, a, b)
             [] i.op \in {"sub", "cmp"} -> Wrap(a - b)
             [] i.op = "rsb" -> Wrap(b - a)
             [] i.op \in {"add", "cmn"} -> Wrap(a + b)
             [] i.op = "adc" -> AddWithCarry(a, b, m.f.c).x
             [] i.op = "sbc" -> AddWithCarry(a, Complement(b), m.f.c).x
             [] i.op = "rsc" -> AddWithCarry(b, Complement(a), m.f.c).x
      f == CASE i.op \in LogicOps -> SetC(SetNZ(m.f, x), sh.c)
             [] i.op \in {"sub", "cmp"} -> SetFlagsSub(m.f, a, b, x)
             [] i.op = "rsb" -> SetFlagsSub(m.f, b, a, x)
             [] i.op \in {"add", "cmn"} -> SetFlagsAdd(m.f, a, b, x)
             [] i.op = "adc" -> SetFlagsSum(m.f, AddWithCarry(a, b, m.f.c))
             [] i.op = "sbc" -> SetFlagsSum(m.f, AddWithCarry(a, Complement(b), m.f.c))
             [] i.op = "rsc" -> SetFlagsSum(m.f, AddWithCarry(b, Complement(a), m.f.c))
  IN  IF i.op \in TestOps THEN SetFlags(m, f) ELSE Commit(i, m, x, f)

(* Multiplications; the long ones deliver 2 * Width bits.                   *)
ArmMul(i, m) ==
  LET x == Wrap(m.r[i.rm] * m.r[i.rs] + (IF i.acc THEN m.r[i.rn] ELSE 0))
  IN  IF i.s THEN SetFlags(SetReg(m, i.rd, x), SetNZ(m.f, x)) ELSE SetReg(m, i.rd, x)
ArmMulLong(i, m) ==
  LET product == IF i.signed THEN Signed(m.r[i.rm]) * Signed(m.r[i.rs]) ELSE m.r[i.rm] * m.r[i.rs]
      acc == IF i.acc THEN m.r[i.hi] * M + m.r[i.lo] ELSE 0
      x == (product + acc) % (M * M)
      wide == SetReg(SetReg(m, i.lo, x % M), i.hi, x \div M)
      flags == [m.f EXCEPT !.n = (x >= M * (M \div 2)), !.z = (x = 0)]
  IN  IF i.s THEN SetFlags(wide, flags) ELSE wide

ArmSwap(i, m) ==
  LET kind == IF i.byte THEN "b" ELSE "w"
      a == OperandReg(m, i.rn)
      old == BusValue(m, kind, a)
      done == Store(Touch(m, kind, a), kind, a, OperandReg(m, i.rm))
  IN  IF i.rd = 15 THEN Jump(done, Align(old, 4)) ELSE SetReg(done, i.rd, old)

(* Address and writeback of a single transfer: post-indexing always writes  *)
(* the base back, pre-indexing only with W, and both before the data moves. *)
Indexed(i, m, offset) ==
  LET base == OperandReg(m, i.rn)
      next == IF i.u THEN Wrap(base + offset) ELSE Wrap(base - offset)
  IN  [a |-> IF i.p THEN next ELSE base,
       m |-> IF i.w \/ ~i.p THEN SetReg(m, i.rn, next) ELSE m]
ArmHalf(i, m) ==
  LET at == Indexed(i, m, IF i.isImm THEN i.imm ELSE OperandReg(m, i.rm))
  IN  Access(at.m, i.load, i.kind, at.a, i.rd)

(* The offset of LDR and STR: an immediate, or a register shifted by an     *)
(* immediate (with "ror 0" as RRX) or by a register.                        *)
OffsetByImm(x, type, amount, cin) ==
  CASE type = "lsl" -> Wrap(x * 2 ^ amount)
    [] type = "lsr" -> IF amount = 0 THEN 0 ELSE x \div 2 ^ amount
    [] type = "asr" -> IF amount = 0 THEN IF Msb(x) THEN M - 1 ELSE 0
                       ELSE Wrap(Signed(x) \div 2 ^ amount)
    [] type = "ror" -> IF amount = 0 THEN OneIf(cin) * (M \div 2) + x \div 2
                       ELSE (x \div 2 ^ amount) | Wrap(x * 2 ^ (Width - amount))
ArmOffset(i, m) ==
  CASE i.src = "imm" -> i.imm
    [] i.src = "shift" -> OffsetByImm(OperandReg(m, i.rm), i.type, i.amount, m.f.c)
    [] i.src = "byReg" -> ShiftValue(OperandReg(m, i.rm), i.type, m.r[i.rs] % 256, m.f.c, FALSE).x
ArmTransfer(i, m) ==
  LET at == Indexed(i, m, ArmOffset(i, m))
      x == BusValue(at.m, i.kind, at.a)
  IN  IF i.load /\ i.rd = 15 THEN Jump(Touch(at.m, i.kind, at.a), Align(x, 4))
      ELSE Access(at.m, i.load, i.kind, at.a, i.rd)

(* LDM and STM: the lowest register at the lowest address; an empty list    *)
(* stands for PC; the base moves by the whole block from whatever it holds  *)
(* after the transfer, so a base that is loaded ends up off by the block.   *)
BlockList(i) == IF i.list = {} THEN {15} ELSE i.list
BlockStart(i, base) ==
  LET size == 4 * Cardinality(BlockList(i))
  IN  CASE i.u /\ ~i.p -> base
        [] i.u /\ i.p -> Wrap(base + 4)
        [] ~i.u /\ i.p -> Wrap(base - size)
        [] ~i.u /\ ~i.p -> Wrap(base - size + 4)
ArmBlock(i, m) ==
  LET regs == SetToSortSeq(BlockList(i), <)
      size == 4 * Len(regs)
      One(s, rg) ==
        LET value == BusValue(s.m, "w", s.a)
            done == IF i.load THEN IF rg = 15 THEN Touch(s.m, "w", s.a) ELSE LoadReg(s.m, "w", s.a, rg)
                    ELSE Store(s.m, "w", s.a, IF rg = 15 THEN Wrap(m.r[15] + 4) ELSE s.m.r[rg])
        IN  [m |-> done, a |-> Wrap(s.a + 4), pc |-> IF rg = 15 THEN value ELSE s.pc]
      end == FoldLeft(One, [m |-> m, a |-> BlockStart(i, m.r[i.rn]), pc |-> 0], regs)
      moved == IF i.load /\ 15 \in BlockList(i) THEN Jump(end.m, Align(end.pc, 4)) ELSE end.m
  IN  IF i.w THEN SetReg(moved, i.rn, Wrap(moved.r[i.rn] + (IF i.u THEN size ELSE -size))) ELSE moved

ArmBranch(i, m, pc) ==
  Jump(IF i.link THEN SetReg(m, 14, Wrap(pc + 4)) ELSE m, pc + 8 + 4 * i.off)
ArmExchange(i, m) ==
  LET x == OperandReg(m, i.rm) IN Jump(SetThumb(m, BitOf(x, 0)), Align(x, 2))

(* The dispatch: PC moves on by four, and a failed condition ends there.    *)
ArmStep(i, m0) ==
  LET pc == m0.r[15]
      m == Jump(m0, pc + 4)
  IN  CASE ~CondPassed(m0.f, i.cond) -> m
        [] CondPassed(m0.f, i.cond) ->
             CASE i.k = "dataImm"  -> ArmDataImm(i, m)
               [] i.k = "dataReg"  -> ArmDataReg(i, m)
               [] i.k = "mul"      -> ArmMul(i, m)
               [] i.k = "mulLong"  -> ArmMulLong(i, m)
               [] i.k = "swap"     -> ArmSwap(i, m)
               [] i.k = "half"     -> ArmHalf(i, m)
               [] i.k = "transfer" -> ArmTransfer(i, m)
               [] i.k = "block"    -> ArmBlock(i, m)
               [] i.k = "b"        -> ArmBranch(i, m, pc)
               [] i.k = "bx"       -> ArmExchange(i, m)
               [] i.k = "none"     -> m
=============================================================================

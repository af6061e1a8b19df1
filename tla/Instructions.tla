---------------------------- MODULE Instructions ----------------------------
(***************************************************************************)
(* Both CPUs executing single instructions and short programs, each from   *)
(* every machine of a set that meets the boundaries of the arithmetic.     *)
(* `call` is what is to be executed and `outcome` what came of it.         *)
(***************************************************************************)
EXTENDS GbaIsa

CONSTANTS Samples,   \* words both operands of an ARM operation are taken from
          Amounts,   \* shift amounts
          Offsets,   \* immediate offsets of transfers and branches
          Bytes,     \* bytes both operands of a GB operation are taken from
          Decimals   \* decimal numbers below 100

Thumb == INSTANCE GbaThumb
Arm == INSTANCE GbaArm
Gb == INSTANCE GbCpu

VARIABLES call, outcome

insVars == <<call, outcome>>

Pending == [unit |-> "none"]

(***************************************************************************)
(* GBA machines: r0 and r1 hold the operands, r2 a pointer, r13 the stack  *)
(* pointer, every other register a value of its own.                       *)
(***************************************************************************)
FlagStates == [n : {FALSE}, z : BOOLEAN, c : BOOLEAN, v : BOOLEAN]
SomeFlags == {[n |-> FALSE, z |-> FALSE, c |-> c, v |-> FALSE] : c \in BOOLEAN}
GbaMachine(a, b, f, thumb) ==
  [r |-> [i \in 0..15 |-> CASE i = 0 -> a [] i = 1 -> b [] i = 2 -> 512 [] i = 13 -> 1024
                            [] i = 15 -> 96 [] OTHER -> 21 * i + 3],
   f |-> f, t |-> thumb, io |-> <<>>]

ShiftTypes == {"lsl", "lsr", "asr", "ror"}
Lists == {{0}, {1, 3}, {0, 4, 7}, {3, 5, 6}}

(* THUMB instructions whose ARM translation does the same: an immediate     *)
(* addition into its own operand, a load that lists its base and an empty   *)
(* list are left out because the code treats the two states differently.    *)
ThumbInstructions ==
  [k : {"shift"}, type : {"lsl", "lsr", "asr"}, amount : Amounts, rs : {0, 1}, rd : {0, 3}]
  \union [k : {"alu"}, op : {"and", "eor", "lsl", "lsr", "asr", "adc", "sbc", "ror", "tst", "neg",
                             "cmp", "cmn", "orr", "mul", "bic", "mvn"}, rs : {0, 1}, rd : {0}]
  \union [k : {"high"}, op : {"add", "cmp", "mov"}, rs : {1, 9, 15}, rd : {0, 10, 15}]
  \union [k : {"high"}, op : {"bx"}, rs : {0, 1, 15}]
  \union [k : {"imm8"}, op : {"mov", "cmp", "add", "sub"}, rd : {0}, imm : {0, 1, 255}]
  \union [k : {"add"}, sub : BOOLEAN, rs : {0}, rn : {0, 1}, rd : {0, 4}]
  \union [k : {"add3"}, sub : BOOLEAN, rn : {0}, imm : {0, 1, 7}, rd : {3}]
  \union [k : {"literal"}, imm : Offsets, rd : {5}]
  \union [k : {"address"}, sp : BOOLEAN, imm : Offsets, rd : {5}]
  \union [k : {"adjust"}, neg : BOOLEAN, imm : Offsets]
  \union [k : {"ldreg"}, load : BOOLEAN, kind : {"w", "h", "b"}, rn : {2}, rm : {0, 1}, rd : {1}]
  \union [k : {"ldreg"}, load : {TRUE}, kind : {"sh", "sb"}, rn : {2}, rm : {0, 1}, rd : {1}]
  \union [k : {"ldimm"}, load : BOOLEAN, kind : {"w", "h", "b"}, rb : {2}, imm : Offsets, rd : {1}]
  \union [k : {"ldsp"}, load : BOOLEAN, imm : Offsets, rd : {1}]
  \union [k : {"push", "pop"}, list : Lists, extra : BOOLEAN]
  \union [k : {"multiple"}, load : BOOLEAN, list : Lists, rn : {2}]
  \union [k : {"bcond"}, cond : {"eq", "ne", "cs", "cc", "mi", "pl", "vs", "vc", "hi", "ls",
                                 "ge", "lt", "gt", "le"}, off : {-64, 8}]
  \union [k : {"b"}, off : {-64, 8}]

(* The ARM instruction a THUMB instruction abbreviates.                     *)
Always(i) == i @@ [cond |-> "al"]
DataReg(op, rd, rn, rm) ==
  Always([k |-> "dataReg", op |-> op, s |-> TRUE, rd |-> rd, rn |-> rn, rm |-> rm,
          byReg |-> FALSE, type |-> "lsl", amount |-> 0])
DataImm(op, s, rd, rn, imm8, rot) ==
  Always([k |-> "dataImm", op |-> op, s |-> s, rd |-> rd, rn |-> rn, imm8 |-> imm8, rot |-> rot])
ByFour == Width \div 2 - 1  \* the rotation that multiplies an immediate by four
Transfer(load, kind, rd, rn, imm) ==
  Always([k |-> IF kind \in {"w", "b"} THEN "transfer" ELSE "half", load |-> load, kind |-> kind,
          rd |-> rd, rn |-> rn, p |-> TRUE, u |-> TRUE, w |-> FALSE,
          src |-> "imm", isImm |-> TRUE, imm |-> imm])
TransferReg(load, kind, rd, rn, rm) ==
  [Transfer(load, kind, rd, rn, 0) EXCEPT !.src = "shift", !.isImm = FALSE]
    @@ [rm |-> rm, type |-> "lsl", amount |-> 0]
Block(load, rn, list, up, pre) ==
  Always([k |-> "block", load |-> load, rn |-> rn, list |-> list, u |-> up, p |-> pre, w |-> TRUE])

ArmOf(i) ==
  CASE i.k = "shift" -> [DataReg("mov", i.rd, 0, i.rs) EXCEPT !.type = i.type, !.amount = i.amount]
    [] i.k = "alu" ->
         CASE i.op \in ShiftTypes ->
                [DataReg("mov", i.rd, 0, i.rd) EXCEPT !.byReg = TRUE, !.type = i.op] @@ [rs |-> i.rs]
           [] i.op = "neg" -> DataImm("rsb", TRUE, i.rd, i.rs, 0, 0)
           [] i.op = "mul" -> Always([k |-> "mul", s |-> TRUE, acc |-> FALSE,
                                      rd |-> i.rd, rm |-> i.rs, rs |-> i.rd])
           [] OTHER -> DataReg(i.op, i.rd, i.rd, i.rs)
    [] i.k = "high" ->
         IF i.op = "bx" THEN Always([k |-> "bx", rm |-> i.rs])
         ELSE [DataReg(i.op, i.rd, i.rd, i.rs) EXCEPT !.s = (i.op = "cmp")]
    [] i.k = "imm8" -> DataImm(i.op, TRUE, i.rd, i.rd, i.imm, 0)
    [] i.k = "add" -> DataReg(IF i.sub THEN "sub" ELSE "add", i.rd, i.rs, i.rn)
    [] i.k = "add3" -> DataImm(IF i.sub THEN "sub" ELSE "add", TRUE, i.rd, i.rn, i.imm, 0)
    [] i.k = "literal" -> Transfer(TRUE, "w", i.rd, 15, 4 * i.imm)
    [] i.k = "address" -> DataImm("add", FALSE, i.rd, IF i.sp THEN 13 ELSE 15, i.imm, ByFour)
    [] i.k = "adjust" -> DataImm(IF i.neg THEN "sub" ELSE "add", FALSE, 13, 13, i.imm, ByFour)
    [] i.k = "ldreg" -> TransferReg(i.load, i.kind, i.rd, i.rn, i.rm)
    [] i.k = "ldimm" ->
         Transfer(i.load, i.kind, i.rd, i.rb,
                  i.imm * (CASE i.kind = "w" -> 4 [] i.kind = "h" -> 2 [] i.kind = "b" -> 1))
    [] i.k = "ldsp" -> Transfer(i.load, "w", i.rd, 13, 4 * i.imm)
    [] i.k = "push" -> Block(FALSE, 13, i.list \union (IF i.extra THEN {14} ELSE {}), FALSE, TRUE)
    [] i.k = "pop" -> Block(TRUE, 13, i.list \union (IF i.extra THEN {15} ELSE {}), TRUE, FALSE)
    [] i.k = "multiple" -> Block(i.load, i.rn, i.list, TRUE, FALSE)
    [] i.k = "bcond" -> [k |-> "b", cond |-> i.cond, link |-> FALSE, off |-> i.off \div 2]
    [] i.k = "b" -> Always([k |-> "b", link |-> FALSE, off |-> i.off \div 2])

RunThumb ==
  /\ call.unit = "thumb" /\ outcome = Pending
  /\ outcome' = [unit  |-> "thumb",
                 thumb |-> Thumb!ThumbStep(call.i, call.m),
                 \* PC reads four bytes further on in ARM state
                 arm   |-> Arm!ArmStep(ArmOf(call.i), [Jump(call.m, call.m.r[15] - 4) EXCEPT !.t = FALSE])]
  /\ UNCHANGED call

(* The two states differ in where PC stands, in the state BX leaves and in  *)
(* the order a block is stored; nothing else an instruction does may.       *)
ThumbIsArm ==
  outcome.unit = "thumb" =>
    LET i == call.i
        t == outcome.thumb
        a == outcome.arm
        jumps == i.k \in {"bcond", "b"} \/ (i.k = "high" /\ (i.op = "bx" \/ (i.op # "cmp" /\ i.rd = 15)))
    IN  /\ \A n \in 0..14 : t.r[n] = a.r[n]
        /\ t.f = a.f
        /\ ToSet(t.io) = ToSet(a.io)
        /\ jumps /\ t.r[15] # 98 => Align(t.r[15], 4) = Align(a.r[15], 4)
        /\ i.k = "high" /\ i.op = "bx" => t.t = a.t

(***************************************************************************)
(* ARM arithmetic against the integers.                                    *)
(***************************************************************************)
ArmOps == {"and", "eor", "sub", "rsb", "add", "adc", "sbc", "rsc",
           "tst", "teq", "cmp", "cmn", "orr", "mov", "bic", "mvn"}
RunArm ==
  /\ call.unit = "arm" /\ outcome = Pending
  /\ outcome' = [unit |-> "arm", arm |-> Arm!ArmStep(Always(call.i), call.m)]
  /\ UNCHANGED call

ArmInstructions ==
  [k : {"dataReg"}, op : ArmOps, s : {TRUE}, rd : {3}, rn : {0}, rm : {1}, byReg : {FALSE},
   type : {"lsl"}, amount : {0}]
  \union [k : {"dataImm"}, op : ArmOps, s : {TRUE}, rd : {3}, rn : {0}, imm8 : {0, 1, 255},
          rot : {0, 1, ByFour}]
  \union [k : {"dataReg"}, op : {"mov"}, s : {TRUE}, rd : {3}, rn : {0}, rm : {0}, byReg : {FALSE},
          type : ShiftTypes, amount : Amounts]
  \union [k : {"dataReg"}, op : {"mov"}, s : {TRUE}, rd : {3}, rn : {0}, rm : {0}, byReg : {TRUE},
          rs : {1}, type : ShiftTypes]
  \union [k : {"mul"}, acc : BOOLEAN, s : {TRUE}, rd : {3}, rm : {0}, rs : {1}, rn : {4}]
  \union [k : {"mulLong"}, signed : BOOLEAN, acc : BOOLEAN, s : {TRUE}, lo : {3}, hi : {4},
          rm : {0}, rs : {1}]

(* A shift by n as n shifts by one.                                         *)
ShiftOnce(type, s) ==
  CASE type = "lsl" -> [x |-> (2 * s.x) % M, c |-> s.x >= M \div 2]
    [] type = "lsr" -> [x |-> s.x \div 2, c |-> s.x % 2 = 1]
    [] type = "asr" -> [x |-> (Signed(s.x) \div 2) % M, c |-> s.x % 2 = 1]
    [] type = "ror" -> [x |-> s.x \div 2 + (M \div 2) * (s.x % 2), c |-> s.x % 2 = 1]
ShiftTimes(type, x, n, c) == FoldLeft(LAMBDA s, k : ShiftOnce(type, s), [x |-> x, c |-> c], [k \in 1..n |-> k])
Operand2(i, m) ==
  IF i.k = "dataImm" THEN LET x == ShiftTimes("ror", i.imm8, 2 * i.rot, m.f.c)
                          IN  IF i.rot = 0 THEN [x |-> i.imm8, c |-> m.f.c] ELSE x
  ELSE CASE i.byReg -> ShiftTimes(i.type, m.r[i.rm], m.r[i.rs] % 256, m.f.c)
         [] ~i.byReg /\ (i.amount > 0 \/ i.type = "lsl") ->
              ShiftTimes(i.type, m.r[i.rm], i.amount, m.f.c)
         [] ~i.byReg /\ i.amount = 0 /\ i.type \in {"lsr", "asr"} ->
              ShiftTimes(i.type, m.r[i.rm], Width, m.f.c)
         [] ~i.byReg /\ i.amount = 0 /\ i.type = "ror" ->
              [x |-> m.r[i.rm] \div 2 + (IF m.f.c THEN M \div 2 ELSE 0), c |-> m.r[i.rm] % 2 = 1]

(* The flags of a data operation say which integer the wrapped result       *)
(* stands for, unsigned by C and signed by V; the second operand is the     *)
(* register shifted one bit at a time; long products keep every bit.        *)
ArmExact ==
  outcome.unit = "arm" =>
    LET i == call.i
        m == call.m
        x == outcome.arm.r[3]
        f == outcome.arm.f
        Exact(unsigned, signed, sub) ==
          LET y == unsigned % M
          IN  /\ i.op \in {"cmp", "cmn"} \/ x = y
              /\ f.c = (IF sub THEN unsigned >= 0 ELSE unsigned >= M)
              /\ f.v = (Signed(y) # signed)
              /\ f.n = (y >= M \div 2) /\ f.z = (y = 0)
        Sub(a, b, borrow) == Exact(a - b - borrow, Signed(a) - Signed(b) - borrow, TRUE)
        Add(a, b, carry) == Exact(a + b + carry, Signed(a) + Signed(b) + carry, FALSE)
        DataExact ==
          LET a == m.r[i.rn]
              b == Operand2(i, m)
              carry == OneIf(m.f.c)
          IN  CASE i.op \in {"sub", "cmp"} -> Sub(a, b.x, 0)
                [] i.op = "rsb" -> Sub(b.x, a, 0)
                [] i.op = "sbc" -> Sub(a, b.x, 1 - carry)
                [] i.op = "rsc" -> Sub(b.x, a, 1 - carry)
                [] i.op \in {"add", "cmn"} -> Add(a, b.x, 0)
                [] i.op = "adc" -> Add(a, b.x, carry)
                [] i.op = "mov" -> x = b.x /\ f = [n |-> Msb(x), z |-> x = 0, c |-> b.c, v |-> m.f.v]
                [] OTHER -> f.c = b.c /\ f.v = m.f.v
        LongExact ==
          LET a == IF i.signed THEN Signed(m.r[0]) ELSE m.r[0]
              b == IF i.signed THEN Signed(m.r[1]) ELSE m.r[1]
              old == IF i.acc THEN M * m.r[4] + m.r[3] ELSE 0
          IN  M * outcome.arm.r[4] + x = (a * b + old) % (M * M)
    IN  CASE i.k \in {"dataReg", "dataImm"} -> DataExact
          [] i.k = "mul" -> x = (m.r[0] * m.r[1] + (IF i.acc THEN m.r[4] ELSE 0)) % M
          [] i.k = "mulLong" -> LongExact

(***************************************************************************)
(* Subroutines of the GBA: called, their registers saved, overwritten and  *)
(* restored, and returned from, in both states.                            *)
(***************************************************************************)
ThumbFrame(list) ==
  LET overwrite == [n \in 1..8 |-> [k |-> "imm8", op |-> "mov", rd |-> n - 1, imm |-> 200 + n]]
  IN  << [k |-> "blhi", off |-> 0], [k |-> "bllo", off |-> 50],
         [k |-> "push", list |-> list, extra |-> TRUE] >>
      \o overwrite \o << [k |-> "pop", list |-> list, extra |-> TRUE] >>
ArmFrame(list, up, pre) ==
  LET overwrite == [n \in 1..8 |-> DataImm("mov", FALSE, n - 1, 0, 200 + n, 0)]
  IN  << Always([k |-> "b", link |-> TRUE, off |-> 50]),
         Block(FALSE, 13, list \union {14}, up, pre) >>
      \o overwrite \o << Block(TRUE, 13, list \union {15}, ~up, ~pre) >>
Execute(m, program, thumb) ==
  FoldLeft(LAMBDA s, i : IF thumb THEN Thumb!ThumbStep(i, s) ELSE Arm!ArmStep(i, s), m, program)
RunFrame ==
  /\ call.unit = "frame" /\ outcome = Pending
  /\ outcome' = [unit |-> "frame",
                 end  |-> Execute(call.m,
                                  IF call.m.t THEN ThumbFrame(call.list)
                                  ELSE ArmFrame(call.list, call.up, call.pre), call.m.t)]
  /\ UNCHANGED call

(* A subroutine that saves registers and LR and restores them into          *)
(* registers and PC returns to its caller, in the caller's state, with      *)
(* those registers and the stack pointer as they were.                      *)
GbaFramesBalance ==
  outcome.unit = "frame" =>
    LET end == outcome.end
        back == call.m.r[15] + 4
    IN  /\ \A n \in call.list \union (8..12) \union {13} : end.r[n] = call.m.r[n]
        /\ end.r[15] = back /\ end.t = call.m.t

(***************************************************************************)
(* The GB CPU: programs are bytes at 256, the stack is below 0 or below    *)
(* 57344, where a push may wrap.                                           *)
(***************************************************************************)
GbMachine(a, b, f, sp, program) ==
  [r  |-> [i \in (0..7) \ {6} |-> CASE i = 7 -> a [] i = 0 -> b [] i = 4 -> 200 [] OTHER -> 16 * i + 9],
   f  |-> f, sp |-> sp, pc |-> 256, fault |-> FALSE,
   mem |-> [j \in 256 .. 255 + Len(program) |-> program[j - 255]]]
RECURSIVE RunTo(_, _)
RunTo(m, end) == IF m.pc = end \/ m.fault THEN m ELSE RunTo(Gb!StepCpu(m), end)
GbFlags == [z : {FALSE}, n : BOOLEAN, h : {FALSE}, c : BOOLEAN]

(* ADD, ADC, SUB, SBC, CP, INC, DEC and ADD HL on register B and on HL.     *)
GbArithmetic == {\h80, \h88, \h90, \h98, \hB8, \h3C, \h3D, \h09, \hF8, \hE8}
RunGbArithmetic ==
  /\ call.unit = "gbOp" /\ outcome = Pending
  /\ outcome' = [unit |-> "gbOp", m |-> Gb!StepCpu(GbMachine(call.a, call.b, call.f, call.sp, <<call.op, call.b>>))]
  /\ UNCHANGED call

(* Addition or subtraction of two decimal numbers, then DAA.                *)
Bcd(n) == 16 * (n \div 10) + (n % 10)
OfBcd(x) == 10 * (x \div 16) + (x % 16)
RunGbDecimal ==
  /\ call.unit = "gbDecimal" /\ outcome = Pending
  /\ outcome' = [unit |-> "gbDecimal",
                 m |-> RunTo(GbMachine(Bcd(call.a), Bcd(call.b), call.f, 57344,
                                       <<IF call.sub THEN \h98 ELSE \h88, \h27>>), 258)]
  /\ UNCHANGED call

(* C and H say how often 256 and 16 were lost by the sum or the difference  *)
(* that A (or HL, SP) holds.                                                *)
GbAluExact ==
  outcome.unit = "gbOp" =>
    LET m == outcome.m
        carry == OneIf(call.f.c /\ call.op \in {\h88, \h98})
        a == call.a
        b == IF call.op \in {\h3C, \h3D} THEN 1 ELSE call.b
        x == IF call.op = \hB8 THEN (a - b) % 256 ELSE m.r[7]
        hl == 256 * 200 + 89
        bc == 256 * b + 25
        e == IF b >= 128 THEN b - 256 ELSE b
        keepsC == call.op \in {\h3C, \h3D}
    IN  CASE call.op \in {\h80, \h88, \h3C} ->
               /\ x + (IF keepsC THEN 256 * OneIf(a = 255) ELSE 256 * OneIf(m.f.c)) = a + b + carry
               /\ (x % 16) + 16 * OneIf(m.f.h) = (a % 16) + (b % 16) + carry
               /\ (keepsC => m.f.c = call.f.c) /\ m.f.z = (x = 0) /\ ~m.f.n
          [] call.op \in {\h90, \h98, \hB8, \h3D} ->
               /\ x - (IF keepsC THEN 256 * OneIf(a = 0) ELSE 256 * OneIf(m.f.c)) = a - b - carry
               /\ (x % 16) - 16 * OneIf(m.f.h) = (a % 16) - (b % 16) - carry
               /\ (keepsC => m.f.c = call.f.c) /\ m.f.z = (x = 0) /\ m.f.n
               /\ (call.op = \hB8 => m.r[7] = a)
          [] call.op = \h09 ->
               LET y == 256 * m.r[4] + m.r[5]
               IN  /\ y + 65536 * OneIf(m.f.c) = hl + bc
                   /\ (y % 4096) + 4096 * OneIf(m.f.h) = (hl % 4096) + (bc % 4096)
                   /\ m.f.z = call.f.z
          [] call.op \in {\hF8, \hE8} ->
               LET y == IF call.op = \hE8 THEN m.sp ELSE 256 * m.r[4] + m.r[5]
               IN  /\ y = (call.sp + e) % 65536
                   /\ (y % 256) + 256 * OneIf(m.f.c) = (call.sp % 256) + b
                   /\ (y % 16) + 16 * OneIf(m.f.h) = (call.sp % 16) + (b % 16)
                   /\ ~m.f.z /\ ~m.f.n

(* DAA turns the binary sum or difference of two decimal numbers into the   *)
(* decimal one with its carry, except that a sum from 250 to 255 that needs *)
(* the low digit fixed comes out 160 short: fixing it wraps A before the    *)
(* high digit is looked at.                                                 *)
DecimalExact ==
  outcome.unit = "gbDecimal" =>
    LET m == outcome.m
        carry == OneIf(call.f.c)
        sum == Bcd(call.a) + Bcd(call.b) + carry
        wraps == ~call.sub /\ sum \in 250..255
        x == OfBcd(m.r[7])
    IN  IF call.sub THEN x - 100 * OneIf(m.f.c) = call.a - call.b - carry
        ELSE x + 100 * OneIf(m.f.c) + (IF wraps THEN 160 ELSE 0) = call.a + call.b + carry

(* CALL (or RST), four PUSHes, registers overwritten, four POPs, RET.       *)
GbFrame(order) ==
  LET pushes == [k \in 1..4 |-> \hC5 + 16 * order[k]]
      pops == [k \in 1..4 |-> \hC1 + 16 * order[5 - k]]
      routine == pushes \o <<\h3E, 1, \hAF, \h06, 2, \h0E, 3, \h11, 4, 5, \h21, 6, 7>> \o pops \o <<\hC9>>
  IN  <<\hCD, \h20, 1>> \o [k \in 1..29 |-> 0] \o routine
RunGbFrame ==
  /\ call.unit = "gbFrame" /\ outcome = Pending
  /\ LET program == GbFrame(call.order)
         m == GbMachine(call.a, 7, call.f, call.sp, program)
         back == IF call.rst THEN 257 ELSE 259
         placed == IF ~call.rst THEN m
                   ELSE [m EXCEPT !.mem = (256 :> \hF7) @@ [j \in 48..69 |-> program[j - 15]] @@ @]
     IN  outcome' = [unit |-> "gbFrame", m |-> RunTo(placed, back), start |-> placed, back |-> back]
  /\ UNCHANGED call

(* A called routine that pushes all pairs and pops them in reverse returns  *)
(* behind its call with every register, the flags and SP unchanged, also    *)
(* when the stack wraps below address 0.                                    *)
GbFramesBalance ==
  outcome.unit = "gbFrame" =>
    LET m == outcome.m
        start == outcome.start
    IN  m.r = start.r /\ m.f = start.f /\ m.sp = start.sp /\ m.pc = outcome.back /\ ~m.fault

(***************************************************************************)
(* What is executed.                                                       *)
(***************************************************************************)
Calls ==
  \/ /\ call \in [unit : {"thumb"}, i : ThumbInstructions,
                  m : {GbaMachine(a, b, f, TRUE) : a, b \in {0, 1, 300, M - 1}, f \in SomeFlags}]
     /\ call.i.k # "bcond"
  \/ call \in [unit : {"thumb"}, i : {i \in ThumbInstructions : i.k = "bcond"},
               m : {GbaMachine(0, 1, f, TRUE) : f \in FlagStates}]
  \/ call \in [unit : {"arm"}, i : ArmInstructions,
               m : {GbaMachine(a, b, f, FALSE) : a, b \in Samples, f \in SomeFlags}]
  \/ call \in [unit : {"frame"}, list : Lists, up : BOOLEAN, pre : BOOLEAN,
               m : {GbaMachine(5, 6, f, t) : f \in SomeFlags, t \in BOOLEAN}]
  \/ call \in [unit : {"gbOp"}, op : GbArithmetic, a : Bytes, b : Bytes, f : GbFlags, sp : {8, 57344, 65535}]
  \/ call \in [unit : {"gbDecimal"}, sub : BOOLEAN, a : Decimals, b : Decimals, f : GbFlags]
  \/ call \in [unit : {"gbFrame"}, rst : BOOLEAN, a : Bytes, f : GbFlags, sp : {5, 57344},
               order : {<<0, 1, 2, 3>>, <<3, 1, 0, 2>>}]
InsInit == Calls /\ outcome = Pending
InsNext == RunThumb \/ RunArm \/ RunFrame \/ RunGbArithmetic \/ RunGbDecimal \/ RunGbFrame

(* Every instruction computes what its definition in the integers says: the *)
(* four parts above, over all the operands of the bench.                    *)
InstructionsExact == ThumbIsArm /\ ArmExact /\ GbAluExact /\ DecimalExact
(* Calls and returns leave the registers they save, the stack pointer and   *)
(* the caller's state as they were, on both CPUs.                           *)
FramesBalance == GbaFramesBalance /\ GbFramesBalance
=============================================================================

------------------------------ MODULE GbaBios -------------------------------
(***************************************************************************)
(* The BIOS calls that the GBA core answers itself (core/gba_core.cpp):    *)
(* division, square root, block copies and the LZ77 and run-length         *)
(* decompressors, over a small memory.  The trigonometric calls and the    *)
(* affine matrices, which are floating point, are left out; Halt and       *)
(* IntrWait are in GbaInterrupts.                                          *)
(***************************************************************************)
EXTENDS Integers, Sequences

CONSTANTS WordBits,  \* bits of a register, even
          Operands,  \* operands of division and square root
          Top,       \* the memory is 0..Top
          Blocks,    \* CpuSet: [src, dst, count, fill, word]
          MaxOutput, \* kSwiDecompMaxOutput
          Streams    \* decompressions: [lz, bytes, tokens, size, dst, vram, real]

VARIABLES swi,    \* the call, and its arguments
          answer  \* what the core makes of it, or Unanswered

biosVars == <<swi, answer>>
Power[n \in 0..WordBits] == IF n = 0 THEN 1 ELSE 2 * Power[n - 1]
Smallest == -Power[WordBits - 1]
Modular(x) == x % Power[WordBits]
Magnitude(x) == IF x < 0 THEN -x ELSE x
Lesser(x, y) == IF x =< y THEN x ELSE y

(***************************************************************************)
(* What a stream is, apart from its decoders.  A token stands for n bytes: *)
(* "plain" for those it holds, "run" for one of them n times, "back" for   *)
(* those from distance before on.  Sums holds the first k of numbers added *)
(* up.                                                                     *)
(***************************************************************************)
Byte == 0..255
Token == [kind : {"plain", "run", "back"}, n : Nat \ {0}, distance : Nat, bytes : Seq(Byte)]
Stream == [lz : BOOLEAN, bytes : Seq(Byte), tokens : Seq(Token), size : Nat,
           dst : Nat, vram : BOOLEAN, real : BOOLEAN]

Sums(numbers) ==
  LET sum[k \in 0..Len(numbers)] == IF k = 0 THEN 0 ELSE sum[k - 1] + numbers[k]
  IN  sum
\* the bytes that the first k tokens stand for
Told(s) == Sums([k \in 1..Len(s.tokens) |-> s.tokens[k].n])
\* and those of the stream that they take, with the flags before every eight
BytesOf(s, k) ==
  LET t == s.tokens[k]
  IN  IF s.lz THEN (IF k % 8 = 1 THEN 1 ELSE 0) + (IF t.kind = "back" THEN 2 ELSE 1)
      ELSE IF t.kind = "run" THEN 2 ELSE t.n + 1
Took(s) == Sums([k \in 1..Len(s.tokens) |-> BytesOf(s, k)])

Flag(flags, k) == (flags \div (2 ^ (7 - ((k - 1) % 8)))) % 2 = 1
\* the two bytes of a reference to n bytes
Reference(n, distance, b, c) ==
  /\ n \in 3..18 /\ distance \in 1..4096
  /\ b = 16 * (n - 3) + ((distance - 1) \div 256) /\ c = (distance - 1) % 256
\* a token of either kind of stream, written at place at
LzHolds(s, t, at, coded) ==
  /\ t.kind = (IF coded THEN "back" ELSE "plain")
  /\ t.kind = "plain" => t.bytes = <<s.bytes[at]>>
  /\ t.kind = "back" => Reference(t.n, t.distance, s.bytes[at], s.bytes[at + 1])
RlHolds(s, t, at) ==
  /\ t.kind # "back"
  /\ t.kind = "run" => /\ t.n \in 3..130 /\ s.bytes[at] = 125 + t.n
                       /\ \A i \in 1..t.n : t.bytes[i] = s.bytes[at + 1]
  /\ t.kind = "plain" => /\ t.n \in 1..128 /\ s.bytes[at] = t.n - 1
                         /\ \A i \in 1..t.n : t.bytes[i] = s.bytes[at + i]
\* token k is written where those before it end
Holds(s, k) ==
  LET t == s.tokens[k]
      at == Took(s)[k - 1] + (IF s.lz /\ k % 8 = 1 THEN 2 ELSE 1)
      flags == s.bytes[Took(s)[8 * ((k - 1) \div 8)] + 1]
  IN  /\ t.kind # "back" => Len(t.bytes) = t.n
      /\ IF s.lz THEN LzHolds(s, t, at, Flag(flags, k)) ELSE RlHolds(s, t, at)

ASSUME BiosAssumption ==
  /\ WordBits \in Nat /\ WordBits >= 2 /\ WordBits % 2 = 0
  /\ \A x \in Operands : x \in Int /\ Smallest =< x /\ x < -Smallest
  /\ Top \in Nat /\ MaxOutput \in Nat
  /\ \A b \in Blocks : /\ b.src \in Nat /\ b.dst \in Nat /\ b.count \in Nat
                       /\ b.fill \in BOOLEAN /\ b.word \in BOOLEAN
                       /\ b.src + 4 * b.count + 3 =< Top
  /\ Streams \subseteq Stream
  /\ \A s \in Streams : /\ s.size =< Told(s)[Len(s.tokens)]
                        /\ \A k \in 1..Len(s.tokens) : Holds(s, k)

(***************************************************************************)
(* isqrt32: a turn per bit.  Those above the value, which the code skips,  *)
(* would leave value and root, 0, as they are.                             *)
(***************************************************************************)
RootStep(d, bit) ==
  IF d.value >= d.root + bit THEN [value |-> d.value - (d.root + bit), root |-> (d.root \div 2) + bit]
  ELSE [value |-> d.value, root |-> d.root \div 2]
Isqrt(n) ==
  LET turns == WordBits \div 2
      after[k \in 0..turns] == IF k = 0 THEN [value |-> n, root |-> 0]
                               ELSE RootStep(after[k - 1], Power[WordBits - 2 * k])
  IN  after[turns].root

(* gba_signed_div: C++ rounds towards zero                                  *)
SignedDiv_Floor(num, den) ==
  LET q == IF den < 0 THEN -(num \div (-den)) ELSE num \div den
  IN  [q |-> q, r |-> num - q * den, abs |-> Magnitude(q)]
SignedDiv(num, den) ==
  LET q == (IF (num < 0) = (den < 0) THEN 1 ELSE -1) * (Magnitude(num) \div Magnitude(den))
  IN  IF num = Smallest /\ den = -1 THEN [q |-> Smallest, r |-> 0, abs |-> -Smallest]
      ELSE [q |-> q, r |-> num - q * den, abs |-> Magnitude(q)]

(* normalize_swi_immediate                                                  *)
SwiNumber(thumb, imm) ==
  IF thumb THEN imm % 256
  ELSE IF imm % 65536 = 0 /\ (imm \div 65536) % 256 # 0 THEN (imm \div 65536) % 256 ELSE imm

(***************************************************************************)
(* CpuSet and CpuFastSet: units of a halfword or word in order; the fast   *)
(* one moves whole blocks of eight words and drops the rest.               *)
(***************************************************************************)
Units(b, fast) ==
  LET unit == IF b.word \/ fast THEN 4 ELSE 2
  IN  [unit |-> unit, from |-> unit * (b.src \div unit), to |-> unit * (b.dst \div unit),
       count |-> IF fast THEN 8 * (b.count \div 8) ELSE b.count]
MoveUnit(m, c, u, fill, k) == \* c is the memory after k units, m before them all
  LET put == u.to + u.unit * k
      take == u.from + (IF fill THEN 0 ELSE u.unit * k)
  IN  [x \in DOMAIN c |-> IF x \in put..(put + u.unit - 1) THEN (IF fill THEN m ELSE c)[take + x - put] ELSE c[x]]
CpuSet(m, b, fast) ==
  LET u == Units(b, fast)
      after[k \in 0..u.count] == IF k = 0 THEN m ELSE MoveUnit(m, after[k - 1], u, b.fill, k - 1)
  IN  after[u.count]

(***************************************************************************)
(* decode_lz77, decode_rl: a turn for each token, until out has the size   *)
(* the header declares.  at is in_pos, ok is lost at a reference to before *)
(* the start.                                                              *)
(***************************************************************************)
Repeated(out, distance, n) ==
  LET longer[i \in 0..n] ==
        IF i = 0 THEN out ELSE Append(longer[i - 1], longer[i - 1][Len(out) + i - distance])
  IN  longer[n]
LzTurn(s, size, d, k) ==
  LET at == IF k % 8 = 1 THEN d.at + 1 ELSE d.at
      flags == IF k % 8 = 1 THEN s[d.at] ELSE d.flags
      distance == 256 * (s[at] % 16) + s[at + 1] + 1
  IN  IF ~d.ok \/ Len(d.out) = size THEN d
      ELSE IF ~Flag(flags, k)
      THEN [at |-> at + 1, flags |-> flags, out |-> Append(d.out, s[at]), ok |-> TRUE]
      ELSE IF distance > Len(d.out) THEN [at |-> at, flags |-> flags, out |-> d.out, ok |-> FALSE]
      ELSE [at |-> at + 2, flags |-> flags, ok |-> TRUE,
            out |-> Repeated(d.out, distance, Lesser((s[at] \div 16) + 3, size - Len(d.out)))]
RlTurn(s, size, d) ==
  LET tag == s[d.at]
      n == Lesser((tag % 128) + (IF tag >= 128 THEN 3 ELSE 1), size - Len(d.out))
  IN  IF Len(d.out) = size THEN d
      ELSE [at |-> d.at + (IF tag >= 128 THEN 2 ELSE n + 1), flags |-> 0, ok |-> TRUE,
            out |-> d.out \o [i \in 1..n |-> s[d.at + (IF tag >= 128 THEN 1 ELSE i)]]]
Start == [at |-> 1, flags |-> 0, out |-> <<>>, ok |-> TRUE]
Decoded(lz, s, size) ==
  LET after[k \in 0..size] ==
        IF k = 0 THEN Start
        ELSE IF lz THEN LzTurn(s, size, after[k - 1], k) ELSE RlTurn(s, size, after[k - 1])
  IN  after[size]

(* write_swi_output: by halfwords into VRAM                                 *)
WriteOutput(m, dst, out, vram) ==
  LET to == IF vram THEN 2 * (dst \div 2) ELSE dst
      even == IF vram /\ Len(out) % 2 = 1 THEN Append(out, 0) ELSE out
  IN  [b \in DOMAIN m |-> IF b \in to..(to + Len(even) - 1) THEN even[b - to + 1] ELSE m[b]]

Unanswered == [call |-> "none"]
Before == [b \in 0..Top |-> (7 * b + 1) % 256]
BiosInit ==
  /\ answer = Unanswered
  /\ \/ swi \in [call : {"div"}, num : Operands, den : Operands]
     \/ swi \in [call : {"sqrt"}, n : {x \in Operands : x >= 0}]
     \/ swi \in [call : {"copy"}, fast : BOOLEAN, b : Blocks]
     \/ swi \in [call : {"unpack"}, s : Streams]

(* handle_swi_hle: not handled is left to the BIOS itself                   *)
Divide ==
  /\ swi.call = "div"
  /\ answer' = [call |-> "div", handled |-> swi.den # 0,
                r |-> IF swi.den = 0 THEN [q |-> 0, r |-> 0, abs |-> 0] ELSE SignedDiv(swi.num, swi.den)]
SquareRoot == swi.call = "sqrt" /\ answer' = [call |-> "sqrt", r0 |-> Isqrt(swi.n)]
Copy == swi.call = "copy" /\ answer' = [call |-> "copy", m |-> CpuSet(Before, swi.b, swi.fast)]
Refused(s) == s.size = 0 \/ s.size > MaxOutput \/ ~Decoded(s.lz, s.bytes, s.size).ok
Unpack ==
  LET s == swi.s
  IN  /\ swi.call = "unpack"
      /\ answer' = IF Refused(s) THEN [call |-> "unpack", handled |-> ~s.real, m |-> Before]
                   ELSE [call |-> "unpack", handled |-> TRUE,
                         m |-> WriteOutput(Before, s.dst, Decoded(s.lz, s.bytes, s.size).out, s.vram)]
BiosNext == answer = Unanswered /\ UNCHANGED swi /\ (Divide \/ SquareRoot \/ Copy \/ Unpack)
BiosSpec == BiosInit /\ [][BiosNext]_biosVars

(***************************************************************************)
(* What the calls promise.                                                 *)
(***************************************************************************)
(* A division gives the quotient rounded towards zero with its remainder,   *)
(* and one by zero is left to the BIOS.                                     *)
DivisionExact ==
  answer.call = "div" =>
    /\ answer.handled <=> swi.den # 0
    /\ answer.handled =>
         /\ Modular(answer.r.q * swi.den + answer.r.r) = Modular(swi.num)
         /\ Magnitude(answer.r.r) < Magnitude(swi.den)
         /\ answer.r.r # 0 => (answer.r.r < 0 <=> swi.num < 0)
         /\ answer.r.abs = Magnitude(answer.r.q)
(* A root is the greatest whose square fits.                                *)
RootExact ==
  answer.call = "sqrt" =>
    answer.r0 * answer.r0 =< swi.n /\ (answer.r0 + 1) * (answer.r0 + 1) > swi.n
(* A copy puts the block, or its first unit everywhere, at the aligned      *)
(* destination and changes no other byte, where source and destination are  *)
(* apart.                                                                   *)
CopyExact ==
  answer.call = "copy" =>
    LET b == swi.b
        unit == IF swi.fast \/ b.word THEN 4 ELSE 2
        from == b.src - (b.src % unit)
        to == b.dst - (b.dst % unit)
        bytes == unit * (IF swi.fast THEN b.count - (b.count % 8) ELSE b.count)
        apart == b.fill \/ from >= to \/ from + bytes =< to
    IN  \A x \in 0..Top :
          IF x \notin to..(to + bytes - 1) THEN answer.m[x] = Before[x]
          ELSE apart => answer.m[x] = Before[from + (IF b.fill THEN (x - to) % unit ELSE x - to)]
(* A decompression gives the text of its tokens, as much of it as the       *)
(* header says, and one byte more at the most in VRAM; a stream that        *)
(* declares too much or too little, or refers to before its start, changes  *)
(* nothing.                                                                 *)
Sound(s) ==
  /\ s.size \in 1..MaxOutput
  /\ \A k \in 1..Len(s.tokens) :
       s.tokens[k].kind = "back" /\ Told(s)[k - 1] < s.size => s.tokens[k].distance =< Told(s)[k - 1]
UnpackExact ==
  answer.call = "unpack" =>
    LET s == swi.s
        to == IF s.vram THEN s.dst - (s.dst % 2) ELSE s.dst
        end == to + s.size
    IN  /\ answer.handled <=> Sound(s) \/ ~s.real
        /\ ~Sound(s) => answer.m = Before
        /\ Sound(s) =>
             /\ \A k \in 1..Len(s.tokens) : \A i \in 1..s.tokens[k].n :
                  LET t == s.tokens[k]
                      x == to + Told(s)[k - 1] + i - 1
                  IN  x < end /\ x =< Top =>
                        answer.m[x] = IF t.kind = "back" THEN answer.m[x - t.distance] ELSE t.bytes[i]
             /\ \A x \in 0..Top :
                  x < to \/ x > end \/ (x = end /\ ~(s.vram /\ s.size % 2 = 1)) => answer.m[x] = Before[x]

(* Both ways to encode a call in ARM and the one in THUMB name the same.    *)
NumberExact(n) == SwiNumber(FALSE, n) = n /\ SwiNumber(FALSE, n * 65536) = n /\ SwiNumber(TRUE, 57088 + n) = n

(* Every answer is exact, and every encoding of a call names it.            *)
BiosExact ==
  /\ DivisionExact /\ RootExact /\ CopyExact /\ UnpackExact
  /\ \A n \in {2, 5, 11, 25} : NumberExact(n)
=============================================================================

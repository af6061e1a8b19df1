-------------------------------- MODULE GbLcd --------------------------------
(***************************************************************************)
(* Timing of the Game Boy LCD: lines, modes, LY/LYC, the VBlank and STAT   *)
(* interrupts and the HBlank DMA they pace.  Ppu::step (src/core/ppu.cpp)  *)
(* keeps the time; the CPU reaches STAT, LY and LYC through Mmu::write_u8  *)
(* (src/core/mmu.cpp), which has a coincidence check of its own.           *)
(*                                                                         *)
(* Time is counted in any unit: the code's lines have 456 dots, of which   *)
(* 80 are mode 2 and 172 mode 3, and there are 144 visible lines of 154.   *)
(* A step is a call of Ppu::step after an instruction, or a write of that  *)
(* instruction, which comes first: one byte, or a word of two adjacent     *)
(* registers.                                                              *)
(***************************************************************************)
EXTENDS Integers

CONSTANTS
    Dots,           \* dots of a line (456)
    OamEnd,         \* first dot of mode 3 (80)
    TransferEnd,    \* first dot of mode 0 on a visible line (252)
    Visible,        \* visible lines (144)
    Lines,          \* all lines (154)
    Steps,          \* cycles Ppu::step may be called with (4..24)
    Lycs,           \* values written to LYC
    MaxBlocks       \* longest HBlank DMA (128 blocks)

(* No instruction outlasts a mode.                                         *)
ASSUME TimingAssumption ==
    /\ {Dots, OamEnd, TransferEnd, Visible, Lines, MaxBlocks} \subseteq Nat
    /\ 0 < OamEnd /\ OamEnd < TransferEnd /\ TransferEnd < Dots
    /\ 0 < Visible /\ Visible < Lines
    /\ Steps \subseteq Nat
    /\ \A n \in Steps : /\ 0 < n /\ n < OamEnd
                        /\ n < TransferEnd - OamEnd
                        /\ n < Dots - TransferEnd
ASSUME LycAssumption == Lycs \subseteq Nat

VARIABLES
    lcdOn,      \* LCDC bit 7
    dot,        \* dot_counter_
    line,       \* line_
    mode,       \* mode_, and bits 0-1 of STAT
    ly,         \* the LY register, as the CPU reads it
    lyc,        \* the LYC register
    enables,    \* interrupt sources enabled in STAT bits 3-6
    coincident, \* STAT bit 2
    statLine,   \* stat_irq_line_
    vblankIrq,  \* bit 0 of the interrupt flags
    statIrq,    \* bit 1 of the interrupt flags
    hdma,       \* hdma_length_ while hdma_active_, otherwise 0
    wrote,      \* registers (0xFF00 + n) the current instruction has written
    hooks,      \* history: calls of on_hblank on this line
    vblanks     \* history: VBlank requests since line 0

regs == <<lcdOn, ly, lyc, enables>>
time == <<dot, line, mode>>
hist == <<hooks, vblanks>>
vars == <<regs, time, coincident, statLine, vblankIrq, statIrq, hdma, wrote, hist>>

-----------------------------------------------------------------------------
ModeAt(l, d) == CASE l >= Visible -> 1
                  [] l < Visible /\ d < OamEnd -> 2
                  [] l < Visible /\ OamEnd <= d /\ d < TransferEnd -> 3
                  [] OTHER -> 0

(* The combined STAT source line.                                          *)
Level(m, match) ==
    \/ m = 0 /\ "hblank" \in enables
    \/ m = 1 /\ "vblank" \in enables
    \/ m = 2 /\ "oam" \in enables
    \/ match /\ "lyc" \in enables

Init ==
    /\ lcdOn = FALSE /\ dot = 0 /\ line = 0 /\ mode = 0
    /\ ly = 0 /\ lyc = 0 /\ enables = {}
    /\ coincident = FALSE /\ statLine = FALSE
    /\ vblankIrq = FALSE /\ statIrq = FALSE
    /\ hdma = 0 /\ wrote = {} /\ hooks = 0 /\ vblanks = 0

(* Ppu::step with the LCD off holds everything at the start of line 0.     *)
StepOff ==
    /\ ~lcdOn
    /\ dot' = 0 /\ line' = 0 /\ mode' = 0 /\ ly' = 0
    /\ coincident' = FALSE /\ statLine' = FALSE
    /\ wrote' = {} /\ hooks' = 0 /\ vblanks' = 0
    /\ UNCHANGED <<lcdOn, lyc, enables, vblankIrq, statIrq, hdma>>

NextLine_NoWrap == line + 1
NextLine_VisibleOnly == IF line + 1 = Visible THEN 0 ELSE line + 1
NextLine == IF line + 1 = Lines THEN 0 ELSE line + 1

(* HBlank begins: on_hblank moves one block.                               *)
EntersHblank_Level(m) == m = 0
EntersHblank(m) == m # mode /\ m = 0
HdmaAfter_AllBlocks(hblank) == IF hblank THEN 0 ELSE hdma
HdmaAfter(hblank) == IF hblank /\ hdma > 0 THEN hdma - 1 ELSE hdma

RequestsVblank_Level(wraps, l) == l = Visible
RequestsVblank(wraps, l) == wraps /\ l = Visible

StepOn(n) ==
    /\ lcdOn
    /\ wrote' = {}
    /\ LET wraps == dot + n >= Dots
           l == IF wraps THEN NextLine ELSE line
           d == IF wraps THEN dot + n - Dots ELSE dot + n
           m == ModeAt(l, d)
           level == Level(m, l = lyc)
           vblank == RequestsVblank(wraps, l)
       IN  /\ line' = l /\ dot' = d /\ mode' = m /\ ly' = l
           /\ vblankIrq' = (vblankIrq \/ vblank)
           /\ hdma' = HdmaAfter(EntersHblank(m))
           /\ coincident' = (l = lyc)
           /\ statIrq' = (statIrq \/ (level /\ ~statLine))
           /\ statLine' = level
           /\ hooks' = (IF wraps THEN 0 ELSE hooks)
                       + (IF EntersHblank(m) THEN 1 ELSE 0)
           /\ vblanks' = (IF wraps /\ l = 0 THEN 0 ELSE vblanks)
                         + (IF vblank THEN 1 ELSE 0)
    /\ UNCHANGED <<lcdOn, lyc, enables>>

-----------------------------------------------------------------------------
(* Writes of the CPU.                                                      *)
Writes(reg) ==
    /\ wrote = {} \/ wrote \in {{reg - 1}, {reg + 1}}
    /\ wrote' = wrote \cup {reg}

WriteLcdc(on) ==
    /\ Writes(64)
    /\ lcdOn' = on
    /\ UNCHANGED <<time, ly, lyc, enables, coincident, statLine, vblankIrq,
                   statIrq, hdma, hist>>

WriteStat(S) ==
    /\ Writes(65)
    /\ enables' = S
    /\ UNCHANGED <<lcdOn, ly, lyc, time, coincident, statLine, vblankIrq,
                   statIrq, hdma, hist>>

(* Writes to LY and LYC compare at once, and request STAT on a new match.  *)
Compare(match) ==
    /\ coincident' = match
    /\ statIrq' = (statIrq \/ (match /\ ~coincident /\ "lyc" \in enables))
    /\ UNCHANGED <<lcdOn, enables, time, statLine, vblankIrq, hdma, hist>>

WriteLy == Writes(68) /\ ly' = 0 /\ lyc' = lyc /\ Compare(lyc = 0)
WriteLyc(v) == Writes(69) /\ lyc' = v /\ ly' = ly /\ Compare(ly = v)

(* A write to HDMA5 starts an HBlank transfer of k blocks; k = 0 stands    *)
(* for the writes that leave none active: a cancelled transfer, or one the *)
(* write itself completes.                                                 *)
WriteHdma(k) ==
    /\ Writes(85)
    /\ hdma' = k
    /\ UNCHANGED <<regs, time, coincident, statLine, vblankIrq, statIrq, hist>>

(* The CPU dispatches an interrupt or clears its flag.                     *)
Acknowledge ==
    /\ Writes(15)
    /\ vblankIrq \/ statIrq
    /\ \/ vblankIrq' = FALSE /\ statIrq' = statIrq
       \/ statIrq' = FALSE /\ vblankIrq' = vblankIrq
    /\ UNCHANGED <<regs, time, coincident, statLine, hdma, hist>>

Sources == {"hblank", "vblank", "oam", "lyc"}

Step == StepOff \/ \E n \in Steps : StepOn(n)
Next ==
    \/ Step
    \/ \E on \in BOOLEAN : WriteLcdc(on)
    \/ \E S \in SUBSET Sources : WriteStat(S)
    \/ WriteLy
    \/ \E v \in Lycs : WriteLyc(v)
    \/ \E k \in 0..MaxBlocks : WriteHdma(k)
    \/ Acknowledge

(* step_frame calls Ppu::step after every instruction.                     *)
Spec == Init /\ [][Next]_vars /\ WF_vars(Step)

-----------------------------------------------------------------------------
TypeOK ==
    /\ lcdOn \in BOOLEAN
    /\ dot \in 0..(Dots - 1) /\ line \in 0..(Lines - 1) /\ mode \in 0..3
    /\ ly \in 0..(Lines - 1) /\ lyc \in Lycs \cup {0}
    /\ enables \in SUBSET Sources
    /\ coincident \in BOOLEAN /\ statLine \in BOOLEAN
    /\ vblankIrq \in BOOLEAN /\ statIrq \in BOOLEAN
    /\ hdma \in 0..MaxBlocks
    /\ wrote \in SUBSET {15, 64, 65, 68, 69, 85}
    /\ hooks \in Nat /\ vblanks \in Nat

(* No mode is ever skipped: a line goes through 2, 3, 0, and VBlank comes  *)
(* after a mode 0 and before a mode 2.  Only LCDC may cut this short.      *)
ModeOrder ==
    [][ mode' # mode /\ lcdOn =>
          <<mode, mode'>> \in {<<2, 3>>, <<3, 0>>, <<0, 2>>, <<0, 1>>, <<1, 2>>}
      ]_vars

(* The HBlank hook runs once on every visible line that gets to its mode 0 *)
(* and on no other, however instructions straddle the boundaries.          *)
HblankOncePerLine ==
    hooks = IF line < Visible /\ dot >= TransferEnd THEN 1 ELSE 0

(* VBlank is requested exactly once per frame, on entering line Visible.   *)
VblankOncePerFrame == vblanks = IF line >= Visible THEN 1 ELSE 0

(* An HBlank transfer moves at most one block per line and none in VBlank: *)
(* what it loses other than by a write, it loses as mode 3 turns to 0.     *)
HdmaPaced ==
    [][ hdma' < hdma /\ <<dot, line>>' # <<dot, line>> =>
          hdma' = hdma - 1 /\ mode = 3 /\ mode' = 0 /\ hooks = 0 ]_vars

(* While the LCD stays on, VBlank comes again and again.                   *)
VblankRecurs == (<>[]lcdOn) => []<>(mode = 1)

(* STAT is edge-triggered from the combined source line: no request while  *)
(* that line has been high since the last step (ppu.cpp, Ppu::step).       *)
StatBlocking == [][~statIrq /\ statIrq' => ~statLine]_vars
=============================================================================

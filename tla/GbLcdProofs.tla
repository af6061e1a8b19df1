----------------------------- MODULE GbLcdProofs -----------------------------
(***************************************************************************)
(* Proofs about GbLcd for every division of the frame into lines and of    *)
(* the line into modes in which no instruction outlasts a mode.            *)
(***************************************************************************)
EXTENDS GbLcd, TLAPS

(* mode_ agrees with the position, but for the start of line 0 after the   *)
(* LCD was off, where the code has mode 0 and not 2.                       *)
ModeAgrees == mode = ModeAt(line, dot) \/ (mode = 0 /\ line = 0 /\ dot = 0)

IInv == TypeOK /\ ModeAgrees /\ HblankOncePerLine /\ VblankOncePerFrame

LEMMA Timing ==
    /\ Dots \in Nat /\ OamEnd \in Nat /\ TransferEnd \in Nat
    /\ Visible \in Nat /\ Lines \in Nat /\ MaxBlocks \in Nat
    /\ 0 < OamEnd /\ OamEnd < TransferEnd /\ TransferEnd < Dots
    /\ 0 < Visible /\ Visible < Lines
BY TimingAssumption

LEMMA StepsFit ==
    \A n \in Steps : /\ n \in Nat /\ 0 < n /\ n < OamEnd
                     /\ n < TransferEnd - OamEnd /\ n < Dots - TransferEnd
BY TimingAssumption

(* The position after n more dots, and the mode there: at most one         *)
(* boundary, of modes or of lines, lies between.                           *)
LineAfter(n) == IF dot + n >= Dots THEN NextLine ELSE line
DotAfter(n) == IF dot + n >= Dots THEN dot + n - Dots ELSE dot + n

LEMMA Position ==
    ASSUME TypeOK, NEW n \in Steps
    PROVE  /\ LineAfter(n) \in 0..(Lines - 1)
           /\ DotAfter(n) \in 0..(Dots - 1)
           /\ ModeAt(LineAfter(n), DotAfter(n)) \in 0..3
<1>1. n \in Nat /\ n < Dots
  BY StepsFit, Timing
<1>2. dot \in 0..(Dots - 1) /\ line \in 0..(Lines - 1)
  BY DEF TypeOK
<1>3. LineAfter(n) \in 0..(Lines - 1)
  BY <1>1, <1>2, Timing DEF LineAfter, NextLine
<1>4. DotAfter(n) \in 0..(Dots - 1)
  BY <1>1, <1>2, Timing DEF DotAfter
<1>5. ModeAt(LineAfter(n), DotAfter(n)) \in 0..3
  BY <1>3, <1>4, Timing DEF ModeAt
<1> QED  BY <1>3, <1>4, <1>5

(* Entering mode 0 is entering the last part of a visible line.            *)
LEMMA HblankEntry ==
    ASSUME IInv, NEW n \in Steps
    PROVE  EntersHblank(ModeAt(LineAfter(n), DotAfter(n))) <=>
             /\ line < Visible /\ dot < TransferEnd
             /\ LineAfter(n) = line /\ DotAfter(n) = dot + n
             /\ dot + n >= TransferEnd
<1>1. dot \in 0..(Dots - 1) /\ line \in 0..(Lines - 1)
  BY DEF IInv, TypeOK
<1>2. n \in Nat /\ 0 < n /\ n < OamEnd
      /\ n < TransferEnd - OamEnd /\ n < Dots - TransferEnd
  BY StepsFit
<1>3. CASE dot + n >= Dots
  <2>1. LineAfter(n) = NextLine /\ DotAfter(n) = dot + n - Dots
    BY <1>3 DEF LineAfter, DotAfter
  <2>2. DotAfter(n) \in Nat /\ DotAfter(n) < OamEnd
    BY <2>1, <1>1, <1>2, <1>3, Timing
  <2>3. NextLine \in 0..(Lines - 1) /\ NextLine # line
    BY <1>1, Timing DEF NextLine
  <2>4. ModeAt(LineAfter(n), DotAfter(n)) # 0
    BY <2>1, <2>2, <2>3, Timing DEF ModeAt
  <2> QED  BY <2>1, <2>3, <2>4 DEF EntersHblank
<1>4. CASE dot + n < Dots
  <2>1. LineAfter(n) = line /\ DotAfter(n) = dot + n
    BY <1>1, <1>2, <1>4, Timing DEF LineAfter, DotAfter
  <2>2. ModeAt(line, dot + n) = 0 <=> line < Visible /\ dot + n >= TransferEnd
    BY <1>1, <1>2, <1>4, Timing DEF ModeAt
  <2>3. CASE mode = 0 /\ line = 0 /\ dot = 0
    BY <2>1, <2>2, <2>3, <1>1, <1>2, Timing DEF EntersHblank
  <2>4. CASE mode = ModeAt(line, dot)
    <3>1. mode = 0 <=> line < Visible /\ dot >= TransferEnd
      BY <2>4, <1>1, Timing DEF ModeAt
    <3> QED  BY <2>1, <2>2, <3>1, <1>1, <1>2, Timing DEF EntersHblank
  <2> QED  BY <2>3, <2>4 DEF IInv, ModeAgrees
<1> QED  BY <1>1, <1>2, <1>3, <1>4, Timing
-----------------------------------------------------------------------------
LEMMA Initially == Init => IInv
<1> SUFFICES ASSUME Init PROVE IInv
  OBVIOUS
<1>1. dot = 0 /\ line = 0 /\ mode = 0 /\ hooks = 0 /\ vblanks = 0
      /\ ly = 0 /\ hdma = 0
  BY DEF Init
<1>2. HblankOncePerLine /\ VblankOncePerFrame /\ ModeAgrees
  BY <1>1, Timing DEF HblankOncePerLine, VblankOncePerFrame, ModeAgrees
<1>3. 0 \in 0..(Dots - 1) /\ 0 \in 0..(Lines - 1) /\ 0 \in 0..MaxBlocks
      /\ 0 \in 0..3 /\ 0 \in Nat
  BY Timing
<1>4. TypeOK
  BY <1>1, <1>3 DEF Init, TypeOK
<1> QED  BY <1>2, <1>4 DEF IInv

(* A write moves neither the position nor the mode, nor the counts.        *)
Still == UNCHANGED <<time, hist>>

LEMMA StillKeeps ==
    ASSUME IInv, Still, TypeOK'
    PROVE  IInv'
BY DEF IInv, Still, time, hist, ModeAgrees, ModeAt, HblankOncePerLine,
       VblankOncePerFrame

LEMMA StepOnKeeps ==
    ASSUME IInv, NEW n \in Steps, StepOn(n)
    PROVE  IInv'
<1> DEFINE l == LineAfter(n)
           d == DotAfter(n)
           m == ModeAt(l, d)
           wraps == dot + n >= Dots
           enters == EntersHblank(m)
<1>1. /\ line' = l /\ dot' = d /\ mode' = m /\ ly' = l
      /\ hdma' = HdmaAfter(enters)
      /\ lcdOn' = lcdOn /\ lyc' = lyc /\ enables' = enables
      /\ wrote' = {}
  BY DEF StepOn, LineAfter, DotAfter
<1>2. /\ hooks' = (IF wraps THEN 0 ELSE hooks) + (IF enters THEN 1 ELSE 0)
      /\ vblanks' = (IF wraps /\ l = 0 THEN 0 ELSE vblanks)
                    + (IF wraps /\ l = Visible THEN 1 ELSE 0)
  BY DEF StepOn, LineAfter, DotAfter, RequestsVblank
<1>3. coincident' \in BOOLEAN /\ statLine' \in BOOLEAN
      /\ vblankIrq' \in BOOLEAN /\ statIrq' \in BOOLEAN
  BY Zenon DEF StepOn, IInv, TypeOK, Level
<1>4. l \in 0..(Lines - 1) /\ d \in 0..(Dots - 1) /\ m \in 0..3
  BY Position DEF IInv
<1>5. dot \in 0..(Dots - 1) /\ line \in 0..(Lines - 1) /\ hooks \in Nat
      /\ vblanks \in Nat /\ hdma \in 0..MaxBlocks
  BY DEF IInv, TypeOK
<1>6. enters <=> /\ line < Visible /\ dot < TransferEnd
                 /\ l = line /\ d = dot + n /\ dot + n >= TransferEnd
  BY HblankEntry
<1>7. n \in Nat /\ 0 < n /\ n < OamEnd
      /\ n < TransferEnd - OamEnd /\ n < Dots - TransferEnd
  BY StepsFit
<1>8. hdma' \in 0..MaxBlocks
  BY <1>1, <1>5, Timing DEF HdmaAfter
<1>9. TypeOK'
  <2>1. hooks' \in Nat /\ vblanks' \in Nat
    BY <1>2, <1>5
  <2> HIDE DEF l, d, m, wraps, enters
  <2>2. line' \in 0..(Lines - 1) /\ dot' \in 0..(Dots - 1) /\ mode' \in 0..3
        /\ ly' \in 0..(Lines - 1)
    BY <1>1, <1>4
  <2>3. lcdOn' \in BOOLEAN /\ lyc' \in Lycs \cup {0}
        /\ enables' \in SUBSET Sources
        /\ wrote' \in SUBSET {15, 64, 65, 68, 69, 85}
    BY <1>1 DEF IInv, TypeOK
  <2> QED  BY <2>1, <2>2, <2>3, <1>3, <1>8 DEF TypeOK
<1>10. ModeAgrees'
  BY <1>1 DEF ModeAgrees, ModeAt
<1>11. HblankOncePerLine'
  <2>1. hooks = IF line < Visible /\ dot >= TransferEnd THEN 1 ELSE 0
    BY DEF IInv, HblankOncePerLine
  <2>2. CASE wraps
    <3>1. ~enters /\ d < TransferEnd
      BY <1>5, <1>6, <1>7, <2>2, Timing DEF DotAfter
    <3> HIDE DEF l, d, m, enters
    <3> QED  BY <1>1, <1>2, <1>4, <2>2, <3>1, Timing DEF HblankOncePerLine
  <2>3. CASE ~wraps
    <3>1. l = line /\ d = dot + n
      BY <1>5, <1>7, <2>3, Timing DEF LineAfter, DotAfter
    <3> HIDE DEF l, d, m, enters
    <3> QED  BY <1>1, <1>2, <1>5, <1>6, <1>7, <2>1, <2>3, <3>1, Timing
             DEF HblankOncePerLine
  <2> QED  BY <2>2, <2>3
<1>12. VblankOncePerFrame'
  <2>1. vblanks = IF line >= Visible THEN 1 ELSE 0
    BY DEF IInv, VblankOncePerFrame
  <2>2. CASE wraps
    <3>1. l = IF line + 1 = Lines THEN 0 ELSE line + 1
      BY <2>2 DEF LineAfter, NextLine
    <3> HIDE DEF l, d, m, enters
    <3> QED  BY <1>1, <1>2, <1>5, <2>1, <2>2, <3>1, Timing
             DEF VblankOncePerFrame
  <2>3. CASE ~wraps
    <3>1. l = line
      BY <1>5, <1>7, <2>3, Timing DEF LineAfter
    <3> HIDE DEF l, d, m, enters
    <3> QED  BY <1>1, <1>2, <1>5, <2>1, <2>3, <3>1, Timing
             DEF VblankOncePerFrame
  <2> QED  BY <2>2, <2>3
<1> QED  BY <1>9, <1>10, <1>11, <1>12 DEF IInv

LEMMA StepKeeps == IInv /\ [Next]_vars => IInv'
<1> SUFFICES ASSUME IInv, [Next]_vars PROVE IInv'
  OBVIOUS
<1>1. CASE StepOff
  <2>1. dot' = 0 /\ line' = 0 /\ mode' = 0 /\ hooks' = 0 /\ vblanks' = 0
        /\ ly' = 0
    BY <1>1 DEF StepOff
  <2>2. HblankOncePerLine' /\ VblankOncePerFrame' /\ ModeAgrees'
    BY <2>1, Timing DEF HblankOncePerLine, VblankOncePerFrame, ModeAgrees
  <2>3. 0 \in 0..(Dots - 1) /\ 0 \in 0..(Lines - 1) /\ 0 \in 0..3 /\ 0 \in Nat
    BY Timing
  <2>4. TypeOK'
    BY <1>1, <2>1, <2>3 DEF StepOff, IInv, TypeOK
  <2> QED  BY <2>2, <2>4 DEF IInv
<1>2. ASSUME NEW n \in Steps, StepOn(n) PROVE IInv'
  BY <1>2, StepOnKeeps
<1>3. ASSUME NEW on \in BOOLEAN, WriteLcdc(on) PROVE IInv'
  <2>1. TypeOK' /\ Still
    BY <1>3 DEF WriteLcdc, Writes, Still, IInv, TypeOK, time, hist
  <2> QED  BY <2>1, StillKeeps
<1>4. ASSUME NEW S \in SUBSET Sources, WriteStat(S) PROVE IInv'
  <2>1. TypeOK' /\ Still
    BY <1>4 DEF WriteStat, Writes, Still, IInv, TypeOK, time, hist
  <2> QED  BY <2>1, StillKeeps
<1>5. CASE WriteLy
  <2>1. TypeOK' /\ Still
    <3>1. statIrq' \in BOOLEAN /\ coincident' \in BOOLEAN
      BY <1>5, Zenon DEF WriteLy, Compare, IInv, TypeOK
    <3>2. ly' = 0 /\ ly' \in 0..(Lines - 1)
      BY <1>5, Timing DEF WriteLy
    <3> QED  BY <1>5, <3>1, <3>2 DEF WriteLy, Compare, Writes, Still, IInv,
                                    TypeOK, time, hist
  <2> QED  BY <2>1, StillKeeps
<1>6. ASSUME NEW v \in Lycs, WriteLyc(v) PROVE IInv'
  <2>1. TypeOK' /\ Still
    <3>1. statIrq' \in BOOLEAN /\ coincident' \in BOOLEAN
      BY <1>6, Zenon DEF WriteLyc, Compare, IInv, TypeOK
    <3> QED  BY <1>6, <3>1 DEF WriteLyc, Compare, Writes, Still, IInv,
                              TypeOK, time, hist
  <2> QED  BY <2>1, StillKeeps
<1>7. ASSUME NEW k \in 0..MaxBlocks, WriteHdma(k) PROVE IInv'
  <2>1. TypeOK' /\ Still
    BY <1>7 DEF WriteHdma, Writes, Still, IInv, TypeOK, regs, time, hist
  <2> QED  BY <2>1, StillKeeps
<1>8. CASE Acknowledge
  <2>1. TypeOK' /\ Still
    BY <1>8 DEF Acknowledge, Writes, Still, IInv, TypeOK, regs, time, hist
  <2> QED  BY <2>1, StillKeeps
<1>9. CASE UNCHANGED vars
  <2>1. TypeOK' /\ Still
    BY <1>9 DEF vars, Still, IInv, TypeOK, regs, time, hist
  <2> QED  BY <2>1, StillKeeps
<1> QED  BY <1>1, <1>2, <1>3, <1>4, <1>5, <1>6, <1>7, <1>8, <1>9
         DEF Next, Step

THEOREM Invariance == Spec => []IInv
BY Initially, StepKeeps, PTL DEF Spec

(* Type correctness of the whole LCD state.                                *)
THEOREM TypeCorrect == Spec => []TypeOK
BY Invariance, PTL DEF IInv

(* on_hblank runs once on each visible line that reaches its mode 0.       *)
THEOREM HblankHookOnce == Spec => []HblankOncePerLine
BY Invariance, PTL DEF IInv

(* VBlank is requested exactly once per frame.                             *)
THEOREM VblankOnce == Spec => []VblankOncePerFrame
BY Invariance, PTL DEF IInv
-----------------------------------------------------------------------------
(* Only StepOn changes the mode while the LCD is on, and only the steps    *)
(* of Ppu::step move the position.                                         *)
LEMMA OnlyStepMoves ==
    ASSUME [Next]_vars, mode' # mode \/ <<dot, line>>' # <<dot, line>>
    PROVE  StepOff \/ \E n \in Steps : StepOn(n)
BY DEF Next, Step, WriteLcdc, WriteStat, WriteLy, WriteLyc, Compare,
       WriteHdma, Acknowledge, time, vars

LEMMA ModeMoves ==
    ASSUME IInv, NEW n \in Steps, StepOn(n), mode' # mode
    PROVE  <<mode, mode'>> \in {<<2, 3>>, <<3, 0>>, <<0, 2>>, <<0, 1>>, <<1, 2>>}
<1> DEFINE l == LineAfter(n)
           d == DotAfter(n)
<1>1. mode' = ModeAt(l, d)
  BY DEF StepOn, LineAfter, DotAfter
<1>2. dot \in 0..(Dots - 1) /\ line \in 0..(Lines - 1)
  BY DEF IInv, TypeOK
<1>3. n \in Nat /\ 0 < n /\ n < OamEnd
      /\ n < TransferEnd - OamEnd /\ n < Dots - TransferEnd
  BY StepsFit
<1>4. CASE mode = 0 /\ line = 0 /\ dot = 0
  <2>1. l = 0 /\ d = n
    BY <1>3, <1>4, Timing DEF LineAfter, DotAfter
  <2>2. ModeAt(l, d) = 2
    BY <2>1, <1>3, Timing DEF ModeAt
  <2> QED  BY <1>1, <1>4, <2>2
<1>5. CASE mode = ModeAt(line, dot)
  <2>1. CASE dot + n >= Dots
    <3>1. l = NextLine /\ d \in Nat /\ d < OamEnd
      BY <1>2, <1>3, <2>1, Timing DEF LineAfter, DotAfter
    <3>2. mode = IF line < Visible THEN 0 ELSE 1
      BY <1>2, <1>3, <1>5, <2>1, Timing DEF ModeAt
    <3>3. ModeAt(l, d) = IF NextLine < Visible THEN 2 ELSE 1
      BY <1>2, <3>1, Timing DEF ModeAt, NextLine
    <3> HIDE DEF l, d
    <3> QED  BY <1>1, <1>2, <3>2, <3>3
  <2>2. CASE dot + n < Dots
    <3>1. l = line /\ d = dot + n
      BY <1>2, <1>3, <2>2, Timing DEF LineAfter, DotAfter
    <3>2. CASE line >= Visible
      BY <1>1, <1>5, <3>1, <3>2 DEF ModeAt
    <3>3. CASE line < Visible
      <4>1. mode = IF dot < OamEnd THEN 2 ELSE IF dot < TransferEnd THEN 3 ELSE 0
        BY <1>2, <1>5, <3>3, Timing DEF ModeAt
      <4>2. mode' = IF dot + n < OamEnd THEN 2
                    ELSE IF dot + n < TransferEnd THEN 3 ELSE 0
        BY <1>1, <1>2, <1>3, <3>1, <3>3, Timing DEF ModeAt
      <4> HIDE DEF l, d
      <4> QED  BY <1>2, <1>3, <4>1, <4>2, Timing
    <3> QED  BY <1>2, <3>2, <3>3, Timing
  <2> QED  BY <1>2, <1>3, <2>1, <2>2, Timing
<1> QED  BY <1>4, <1>5 DEF IInv, ModeAgrees

(* No mode is skipped while the LCD is on.                                 *)
THEOREM ModesInOrder == Spec => ModeOrder
<1> DEFINE A == mode' # mode /\ lcdOn =>
      <<mode, mode'>> \in {<<2, 3>>, <<3, 0>>, <<0, 2>>, <<0, 1>>, <<1, 2>>}
<1>1. ASSUME IInv, [Next]_vars PROVE A
  <2>1. ASSUME mode' # mode, lcdOn
        PROVE  \E n \in Steps : StepOn(n)
    <3>1. StepOff \/ \E n \in Steps : StepOn(n)
      BY <1>1, <2>1, OnlyStepMoves
    <3> QED  BY <2>1, <3>1 DEF StepOff
  <2> QED  BY <1>1, <2>1, ModeMoves
<1>2. IInv /\ [Next]_vars => [A]_vars
  BY <1>1
<1> QED  BY <1>2, Invariance, PTL DEF Spec, ModeOrder

(* HBlank DMA moves at most one block per line, as mode 3 turns to 0.      *)
THEOREM HdmaOnePerLine == Spec => HdmaPaced
<1> DEFINE A == hdma' < hdma /\ <<dot, line>>' # <<dot, line>> =>
                  hdma' = hdma - 1 /\ mode = 3 /\ mode' = 0 /\ hooks = 0
<1>1. ASSUME IInv, [Next]_vars, hdma' < hdma, <<dot, line>>' # <<dot, line>>
      PROVE  hdma' = hdma - 1 /\ mode = 3 /\ mode' = 0 /\ hooks = 0
  <2>1. hdma \in Nat /\ dot \in 0..(Dots - 1) /\ line \in 0..(Lines - 1)
    BY <1>1, Timing DEF IInv, TypeOK
  <2>2. PICK n \in Steps : StepOn(n)
    <3>1. StepOff \/ \E n \in Steps : StepOn(n)
      BY <1>1, OnlyStepMoves
    <3>2. StepOff => hdma' = hdma
      BY DEF StepOff
    <3> QED  BY <1>1, <2>1, <3>1, <3>2
  <2> DEFINE m == ModeAt(LineAfter(n), DotAfter(n))
  <2>3. mode' = m /\ hdma' = HdmaAfter(EntersHblank(m))
    BY <2>2 DEF StepOn, LineAfter, DotAfter
  <2>4. EntersHblank(m) /\ hdma' = hdma - 1
    BY <1>1, <2>1, <2>3 DEF HdmaAfter
  <2>5. line < Visible /\ dot < TransferEnd /\ dot + n >= TransferEnd
    BY <1>1, <2>4, HblankEntry
  <2>6. hooks = 0
    BY <1>1, <2>1, <2>5, Timing DEF IInv, HblankOncePerLine
  <2>7. n \in Nat /\ n < TransferEnd - OamEnd
    BY StepsFit
  <2>8. mode' = 0 /\ mode # 0
    BY <2>3, <2>4 DEF EntersHblank
  <2>9. mode = 3
    <3>1. ModeAt(line, dot) = 3
      BY <2>1, <2>5, <2>7, Timing DEF ModeAt
    <3> QED  BY <1>1, <2>8, <3>1 DEF IInv, ModeAgrees
  <2> QED  BY <2>4, <2>6, <2>8, <2>9
<1>2. IInv /\ [Next]_vars => [A]_vars
  BY <1>1
<1> QED  BY <1>2, Invariance, PTL DEF Spec, HdmaPaced
=============================================================================

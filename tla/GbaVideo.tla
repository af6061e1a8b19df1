------------------------------ MODULE GbaVideo ------------------------------
(***************************************************************************)
(* The video timing of the GBA core and the DMA channels it paces          *)
(* (core/gba_core.cpp): step_ppu over any number of cycles, DISPSTAT with  *)
(* its interrupts, and run_dma.  Pixels and the data moved are left out: a *)
(* channel is its registers and what it has done.                          *)
(***************************************************************************)
EXTENDS Integers

CONSTANTS Line, Drawn,        \* cycles of a line, and of its visible part
          Lines, VblankStart, \* lines of a frame, and its first line in VBlank
          DmaChannels,        \* the channels the program uses, of 0..3
          Setups,             \* what it stores into their registers
          RoundCycles,        \* cycles of a round
          Retargets,          \* VCOUNT targets
          MaxRounds

DmaRegisters == [on : BOOLEAN, timing : 0..3, repeat : BOOLEAN, src : Int, dst : Int, units : Nat,
                 srcStep : Int, dstStep : Int, reload : BOOLEAN]
ASSUME VideoAssumption ==
  /\ Line \in Nat /\ Drawn \in Nat /\ 0 < Drawn /\ Drawn < Line
  /\ Lines \in Nat /\ VblankStart \in Nat /\ 0 < VblankStart /\ VblankStart < Lines
  /\ RoundCycles \subseteq Nat /\ Retargets \subseteq Nat /\ Setups \subseteq DmaRegisters

VARIABLES video, \* [cycles, vcount, hblank, flags, irqs, target, raised]: the line and DISPSTAT
          dma,   \* channel to its registers
          time, since, \* cycles since reset; the time of the last store to DISPSTAT
          armed, \* channel to its registers when they were stored, and the transfers since
          kept,  \* the flags as that store left them
          rounds

videoVars == <<video, dma, time, since, armed, kept, rounds>>

Events == {"vblank", "hblank", "match"}
Off == [on |-> FALSE, timing |-> 0, repeat |-> FALSE, src |-> 0, dst |-> 0, units |-> 0,
        srcStep |-> 0, dstStep |-> 0, reload |-> FALSE]

(***************************************************************************)
(* run_dma: every enabled channel with this start timing, lowest first.    *)
(* The addresses it has reached are stored back into the registers.        *)
(***************************************************************************)
Starts(c, d, timing) == d.on /\ timing = (IF c = 0 /\ d.timing = 3 THEN 0 ELSE d.timing)
Transferred(d, timing) ==
  [d EXCEPT !.src = @ + d.units * d.srcStep,
            !.dst = IF d.reload /\ d.repeat /\ timing # 0 THEN @ ELSE @ + d.units * d.dstStep,
            !.on = d.repeat /\ timing # 0]
RunDma(m, timing) ==
  LET Go(c) == Starts(c, m.dma[c], timing)
  IN  [m EXCEPT !.dma = [c \in DmaChannels |-> IF Go(c) THEN Transferred(@[c], timing) ELSE @[c]],
                !.runs = [c \in DmaChannels |-> IF Go(c) THEN @[c] + 1 ELSE @[c]]]

(* update_dispstat: an event is a flag that rises                           *)
UpdateDispstat_Level(m) ==
  LET v == m.video
      now == {e \in Events : \/ e = "vblank" /\ v.vcount >= VblankStart
                             \/ e = "hblank" /\ v.hblank
                             \/ e = "match" /\ v.vcount = v.target}
  IN  [m EXCEPT !.video = [v EXCEPT !.flags = now,
         !.raised = [e \in Events |-> IF e \in now \intersect v.irqs THEN @[e] + 1 ELSE @[e]]]]
UpdateDispstat(m) ==
  LET v == m.video
      now == {e \in Events : \/ e = "vblank" /\ v.vcount >= VblankStart
                             \/ e = "hblank" /\ v.hblank
                             \/ e = "match" /\ v.vcount = v.target}
      rising == now \ v.flags
      paced == IF "vblank" \in rising THEN RunDma(m, 1) ELSE m
  IN  [paced EXCEPT !.video = [v EXCEPT !.flags = now,
         !.raised = [e \in Events |-> IF e \in rising \intersect v.irqs THEN @[e] + 1 ELSE @[e]]]]

(* One turn of the loop of step_ppu: to the next boundary                   *)
EnterHblank(m) ==
  LET h == [m EXCEPT !.video.hblank = TRUE]
  IN  UpdateDispstat(IF h.video.vcount < VblankStart THEN RunDma(h, 2) ELSE h)
NextLine(m) ==
  UpdateDispstat([m EXCEPT !.video.cycles = @ - Line, !.video.vcount = (@ + 1) % Lines,
                           !.video.hblank = FALSE])
Advance(m) ==
  LET boundary == (IF m.video.hblank THEN Line ELSE Drawn) - m.video.cycles
      step == IF m.left < boundary THEN m.left ELSE IF boundary > 0 THEN boundary ELSE 1
      ran == [m EXCEPT !.video.cycles = @ + step, !.left = @ - step]
      drawn == IF ~ran.video.hblank /\ ran.video.cycles >= Drawn THEN EnterHblank(ran) ELSE ran
  IN  IF drawn.video.cycles >= Line THEN NextLine(drawn) ELSE drawn
StepPpu(m) ==
  LET run[k \in 0..m.left] ==
        IF k = 0 THEN m ELSE LET before == run[k - 1]
                             IN  IF before.left = 0 THEN before ELSE Advance(before)
  IN  run[m.left]

VideoInit ==
  /\ video = [cycles |-> 0, vcount |-> 0, hblank |-> FALSE, flags |-> {}, irqs |-> {}, target |-> 0,
              raised |-> [e \in Events |-> 0]]
  /\ dma = [c \in DmaChannels |-> Off]
  /\ armed = [c \in DmaChannels |-> [as |-> Off, runs |-> 0]]
  /\ time = 0 /\ since = 0 /\ kept = {} /\ rounds = 0
VideoStep == rounds < MaxRounds /\ rounds' = rounds + 1

(* A round: the immediate channels, then the time the CPU used.             *)
Round(n) ==
  LET m == StepPpu(RunDma([video |-> video, dma |-> dma, left |-> n,
                           runs |-> [c \in DmaChannels |-> armed[c].runs]], 0))
  IN  /\ VideoStep
      /\ video' = m.video /\ dma' = m.dma /\ time' = time + n
      /\ armed' = [c \in DmaChannels |-> [armed[c] EXCEPT !.runs = m.runs[c]]]
      /\ UNCHANGED <<since, kept>>

(* Stores of the program: the registers of a channel, and DISPSTAT, the     *)
(* whole of it: its flags are stored over like the rest.                    *)
StoreDma(c, d) ==
  /\ VideoStep
  /\ dma' = [dma EXCEPT ![c] = d] /\ armed' = [armed EXCEPT ![c] = [as |-> d, runs |-> 0]]
  /\ UNCHANGED <<video, time, since, kept>>
StoreDispstat(irqs, target, flags) ==
  /\ VideoStep
  /\ video' = [video EXCEPT !.irqs = irqs, !.target = target, !.flags = flags,
                            !.raised = [e \in Events |-> 0]]
  /\ since' = time /\ kept' = flags
  /\ UNCHANGED <<dma, time, armed>>

VideoNext ==
  \/ \E n \in RoundCycles : Round(n)
  \/ \E c \in DmaChannels, d \in Setups : StoreDma(c, d)
  \/ \E t \in Retargets, irqs \in {{}, Events} :
       \E flags \in {video.flags, {}, Events} : StoreDispstat(irqs, t, flags)
VideoSpec == VideoInit /\ [][VideoNext]_videoVars

(* However the rounds cut the time, the beam is where the cycles since      *)
(* reset put it, and the program has had one interrupt for every VBlank,    *)
(* HBlank and line of its target since it asked for them, none lost and     *)
(* none twice, but for what a store of DISPSTAT does to the flags: nothing  *)
(* until the next boundary, where an event that holds is an interrupt       *)
(* unless its flag was stored set.  A target equal to the current line so   *)
(* matches at its HBlank, a flag stored clear repeats an event that goes    *)
(* on, and one stored set, or left set by the last target, loses one.       *)
Starting(line, lines) == (lines + Lines - line) \div Lines \* of the first lines + 1 lines
Reached(t) ==
  LET lines == t \div Line
  IN  [vblank |-> Starting(VblankStart, lines),
       hblank |-> (t + Line - Drawn) \div Line,
       match |-> IF video.target < Lines THEN Starting(video.target, lines) ELSE 0]
NextBoundary(t) == Line * (t \div Line) + (IF t % Line < Drawn THEN Drawn ELSE Line)
Holding(t) == {e \in Events : \/ e = "vblank" /\ (t \div Line) % Lines >= VblankStart
                              \/ e = "hblank" /\ t % Line >= Drawn
                              \/ e = "match" /\ (t \div Line) % Lines = video.target}
BeamExact ==
  LET first == NextBoundary(since)
  IN  /\ video.vcount = (time \div Line) % Lines /\ video.cycles = time % Line
      /\ video.hblank <=> time % Line >= Drawn
      /\ \A e \in video.irqs :
           video.raised[e] = IF time < first THEN 0
                             ELSE Reached(time)[e] - Reached(first)[e]
                                  + (IF e \in Holding(first) \ kept THEN 1 ELSE 0)

(* A channel's registers follow from those stored and the transfers made    *)
(* since, whatever started them: a single transfer ends the channel, a      *)
(* repeated one goes on from where the source is, into the same destination *)
(* again when it is reloaded.                                               *)
DmaFollows ==
  \A c \in DmaChannels :
    LET a == armed[c].as
        n == armed[c].runs
        immediate == a.timing = 0 \/ (c = 0 /\ a.timing = 3)
    IN  /\ ~a.on \/ (a.timing = 3 /\ c # 0) => n = 0
        /\ ~a.repeat \/ immediate => n =< 1
        /\ dma[c].on <=> a.on /\ (n = 0 \/ (a.repeat /\ ~immediate))
        /\ dma[c].src = a.src + n * a.units * a.srcStep
        /\ dma[c].dst = a.dst + (IF a.reload /\ a.repeat /\ ~immediate THEN 0 ELSE n * a.units * a.dstStep)

(* The beam and the channels it paces, however the rounds cut the time.     *)
VideoExact == rounds > 0 => BeamExact /\ DmaFollows
=============================================================================

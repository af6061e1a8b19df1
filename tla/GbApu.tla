------------------------------- MODULE GbApu --------------------------------
(***************************************************************************)
(* The sound channels (core/apu.cpp): triggers, the frame sequencer with   *)
(* its length, sweep and envelope clocks, NR52, and the noise generator.   *)
(* Channels 1, 2 and 4 have an envelope, 1 a sweep; 3 has neither.  The    *)
(* samples are left out but for the noise register they advance.           *)
(***************************************************************************)
EXTENDS Integers

CONSTANTS Channels,  \* the channels the program uses, of 1..4
          Notes,     \* what it writes to NRx1-NRx4 before a trigger, and NR10
          Spans,     \* cycles of a step
          NoiseRegisters, \* noise registers that the long mode passes through (all but 0)
          MaxBeats   \* steps and triggers

(* A note is the bits of its registers.                                     *)
LastLength == 255
LastFrequency == 2047
LastNoise == 32767
NoteSet == [length : 0..LastLength, limited : BOOLEAN, volume : 0..15, period : 0..7, up : BOOLEAN,
            sweepPeriod : 0..7, sweepShift : 0..7, falling : BOOLEAN, freq : 0..LastFrequency]

(* A step of at most eight frames meets each of the sequencer's once.       *)
Period == 8192
ASSUME SoundAssumption ==
  /\ Channels \subseteq 1..4 /\ Notes \subseteq NoteSet
  /\ \A t \in Spans : t \in Nat /\ t =< 8 * Period
  /\ NoiseRegisters \subseteq 1..LastNoise

VARIABLES reg,   \* the registers: notes, trigger; NR52: power, status (shown: as the last
                 \* powered step left it)
          ch,    \* channel to its state
          sequencer, \* [step, counter]: frame_step_, frame_counter_
          lfsr, narrowed, \* lfsr_; the short mode has met it at 128
          played, \* channel to its last trigger: note, the clocks since, and the
                  \* frequency they bring it to
          beats

apuVars == <<reg, ch, sequencer, lfsr, narrowed, played, beats>>

Pow(n) == <<1, 2, 4, 8, 16, 32, 64, 128>>[n + 1]

(* length_from_nrx: 64 or 256 less the register                             *)
LengthOf(c, n) == IF c = 3 THEN 256 - n.length ELSE 64 - (n.length % 64)

(* trigger_ch1 .. trigger_ch4                                               *)
Triggered(c, n) ==
  [enabled |-> TRUE, length |-> LengthOf(c, n), limited |-> n.limited,
   volume |-> n.volume, period |-> n.period, up |-> n.up,
   timer |-> IF n.period = 0 THEN 8 ELSE n.period,
   sweepPeriod |-> n.sweepPeriod, sweepShift |-> n.sweepShift, falling |-> n.falling,
   sweepTimer |-> IF n.sweepPeriod = 0 THEN 8 ELSE n.sweepPeriod, shadow |-> n.freq]

NoNote == [length |-> 0, limited |-> FALSE, volume |-> 0, period |-> 0, up |-> FALSE,
           sweepPeriod |-> 0, sweepShift |-> 0, falling |-> FALSE, freq |-> 0]
Silent == [Triggered(1, NoNote) EXCEPT !.enabled = FALSE, !.length = 0, !.timer = 0,
                                       !.sweepTimer = 0, !.up = TRUE]

ClockLength_OneLate(s) ==
  IF ~s.limited THEN s
  ELSE [s EXCEPT !.length = IF @ > 0 THEN @ - 1 ELSE 0, !.enabled = @ /\ s.length > 0]
ClockLength(s) ==
  IF ~s.limited \/ s.length =< 0 THEN s
  ELSE [s EXCEPT !.length = @ - 1, !.enabled = @ /\ s.length # 1]
ClockEnvelope(c, s) ==
  LET next == IF s.up THEN s.volume + 1 ELSE s.volume - 1
  IN  IF c = 3 \/ s.period = 0 THEN s
      ELSE IF s.timer > 1 THEN [s EXCEPT !.timer = @ - 1]
      ELSE [s EXCEPT !.timer = s.period, !.volume = IF next \in 0..15 THEN next ELSE @]
ClockSweep(c, s) ==
  LET delta == s.shadow \div Pow(s.sweepShift)
      next == IF s.falling THEN s.shadow - delta ELSE s.shadow + delta
  IN  IF c # 1 \/ ~s.enabled \/ s.sweepPeriod = 0 THEN s
      ELSE IF s.sweepTimer > 1 THEN [s EXCEPT !.sweepTimer = @ - 1]
      ELSE IF next > LastFrequency THEN [s EXCEPT !.sweepTimer = s.sweepPeriod, !.enabled = FALSE]
      ELSE [s EXCEPT !.sweepTimer = s.sweepPeriod,
                     !.shadow = IF s.sweepShift > 0 THEN next ELSE @]

(* One frame of the sequencer                                               *)
ClockFrame(step, c, s) ==
  CASE step \in {0, 4} -> ClockLength(s)
    [] step \in {2, 6} -> ClockSweep(c, ClockLength(s))
    [] step = 7        -> ClockEnvelope(c, s)
    [] OTHER           -> s
Frames(first, n, c, s) ==
  LET run[k \in 0..n] == IF k = 0 THEN s ELSE ClockFrame((first + k - 1) % 8, c, run[k - 1])
  IN  run[n]

ApuInit ==
  /\ reg = [power |-> FALSE, status |-> {}, shown |-> TRUE,
            notes |-> [c \in Channels |-> NoNote], trigger |-> {}]
  /\ ch = [c \in Channels |-> Silent]
  /\ sequencer = [step |-> 0, counter |-> 0] /\ lfsr \in NoiseRegisters /\ narrowed = FALSE /\ beats = 0
  /\ played = [c \in Channels |-> [note |-> NoNote, heard |-> FALSE, lengths |-> 0, envelopes |-> 0,
                                  sweeps |-> 0, freq |-> 0]]
Beat == beats < MaxBeats /\ beats' = beats + 1

(* The program plays a note: NRx1 to NRx3, and NRx4 with bit 7.             *)
Play(c, n) ==
  /\ Beat
  /\ reg' = [reg EXCEPT !.notes[c] = n, !.trigger = @ \union {c}]
  /\ UNCHANGED <<ch, sequencer, lfsr, narrowed, played>>

(* A store to NR52 overwrites the status bits too, until the next powered   *)
(* step; the channels are left alone.                                       *)
SetPower(on, bits) ==
  /\ Beat /\ reg' = [reg EXCEPT !.power = on, !.status = bits, !.shown = FALSE]
  /\ UNCHANGED <<ch, sequencer, lfsr, narrowed, played>>

(* The frames that a step of n brings, and the clocks among them.           *)
Steps(first, n) == {(first + k) % 8 : k \in 0..(n - 1)} \* n =< 8
LengthCount(S) == (IF 0 \in S THEN 1 ELSE 0) + (IF 2 \in S THEN 1 ELSE 0)
                    + (IF 4 \in S THEN 1 ELSE 0) + (IF 6 \in S THEN 1 ELSE 0)
EnvelopeCount(S) == IF 7 \in S THEN 1 ELSE 0
SweepCount(S) == (IF 2 \in S THEN 1 ELSE 0) + (IF 6 \in S THEN 1 ELSE 0)

(* The frequency that the m sweep clocks after the first w bring the note   *)
(* to: every sweepPeriod-th bends it, and over LastFrequency it is mute.    *)
Bent(n, f) ==
  LET delta == f \div Pow(n.sweepShift)
      next == IF n.falling THEN f - delta ELSE f + delta
  IN  IF f > LastFrequency \/ (n.sweepShift = 0 /\ next =< LastFrequency) THEN f ELSE next
Swept(c, n, w, f) ==
  IF c = 1 /\ n.sweepPeriod # 0 /\ (w + 1) % n.sweepPeriod = 0 THEN Bent(n, f) ELSE f
Glide(c, n, w, f, m) ==
  CASE m = 0 -> f [] m = 1 -> Swept(c, n, w, f) [] OTHER -> Swept(c, n, w + 1, Swept(c, n, w, f))

(***************************************************************************)
(* Apu::step: nothing while the sound is off; else the frames that the     *)
(* cycles complete, then the triggers (sync_from_registers), and NR52.     *)
(***************************************************************************)
StepApu(cycles) ==
  LET n == (sequencer.counter + cycles) \div Period
      steps == Steps(sequencer.step, n)
      clocked == [c \in Channels |-> Frames(sequencer.step, n, c, ch[c])]
      Counted(c) ==
        [played[c] EXCEPT !.lengths = @ + LengthCount(steps),
                          !.envelopes = @ + EnvelopeCount(steps),
                          !.sweeps = @ + SweepCount(steps),
                          !.freq = Glide(c, played[c].note, played[c].sweeps, @, SweepCount(steps))]
  IN  /\ Beat /\ reg.power
      /\ sequencer' = [step |-> (sequencer.step + n) % 8,
                       counter |-> (sequencer.counter + cycles) % Period]
      /\ ch' = [c \in Channels |-> IF c \in reg.trigger THEN Triggered(c, reg.notes[c]) ELSE clocked[c]]
      /\ reg' = [reg EXCEPT !.trigger = {}, !.shown = TRUE,
                             !.status = {c \in Channels : ch'[c].enabled}]
      /\ played' = [c \in Channels |->
           IF c \in reg.trigger
           THEN [note |-> reg.notes[c], heard |-> TRUE, lengths |-> 0, envelopes |-> 0,
                 sweeps |-> 0, freq |-> reg.notes[c].freq]
           ELSE Counted(c)]
      /\ UNCHANGED <<lfsr, narrowed>>

(* generate_samples, channel 4: the shift register moves on, in the short   *)
(* mode through bit 6 too.                                                  *)
Shifted(x, short) ==
  LET bit == (x + (x \div 2)) % 2
      long == x \div 2 + bit * 16384
  IN  IF short THEN long - ((long \div 64) % 2) * 64 + bit * 64 ELSE long
Noise(short) ==
  /\ Beat /\ 4 \in Channels /\ reg.power /\ ch[4].enabled /\ ch[4].volume > 0
  /\ lfsr' = Shifted(lfsr, short) /\ narrowed' = (narrowed \/ (short /\ lfsr = 128))
  /\ UNCHANGED <<reg, ch, sequencer, played>>

ApuNext ==
  \/ \E c \in Channels, n \in Notes : Play(c, n)
  \/ \E on \in BOOLEAN, bits \in SUBSET Channels : SetPower(on, bits)
  \/ \E t \in Spans : StepApu(t)
  \/ \E short \in BOOLEAN : Noise(short)
ApuSpec == ApuInit /\ [][ApuNext]_apuVars

(* A note sounds exactly as long, as loud and as high as its registers said *)
(* when it was triggered: with a limit of n it ends at the n-th length clock *)
(* after the trigger, whatever the steps that carried the clocks; the        *)
(* envelope has moved the volume by one for every period of its clocks,      *)
(* within 0 and 15; every sweepPeriod-th sweep clock has bent the frequency  *)
(* once, and only the one that takes it over the last frequency ends the     *)
(* note sooner.  NR52 shows which channels sound, except between a store to  *)
(* it and the next powered step, when it shows the bits stored; the store    *)
(* starts and ends no note.  The noise goes dead only when a program changes *)
(* to the short mode at 128, as a trigger does not restart the register.     *)
SoundExact ==
  beats > 0 =>
  /\ lfsr = 0 <=> narrowed
  /\ reg.shown => reg.status = {c \in Channels : ch[c].enabled}
  /\ \A c \in Channels :
      LET p == played[c]
          turns == IF p.note.period = 0 THEN 0 ELSE p.envelopes \div p.note.period
          louder == IF p.note.up THEN p.note.volume + turns ELSE p.note.volume - turns
      IN  IF p.heard
          THEN /\ ch[c].enabled <=>
                     /\ p.freq =< LastFrequency
                     /\ p.note.limited =>
                          p.lengths < (IF c = 3 THEN 256 - p.note.length ELSE 64 - (p.note.length % 64))
               /\ ch[c].enabled => ch[c].shadow = p.freq
               /\ c # 3 => ch[c].volume = (IF louder > 15 THEN 15 ELSE IF louder < 0 THEN 0 ELSE louder)
          ELSE ~ch[c].enabled
=============================================================================

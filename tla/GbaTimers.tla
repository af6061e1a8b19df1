------------------------------ MODULE GbaTimers ------------------------------
(***************************************************************************)
(* The four timers of the Game Boy Advance (src/core/gba_core.cpp).        *)
(*                                                                         *)
(* TMxCNT_L is two registers at one address: a write sets the reload, a    *)
(* read gives the counter.  The bus has one cell for both, so GbaCore      *)
(* mirrors each counter into the cell and, on every round of step_frame,   *)
(* compares the cell with the value it last put there to find out what the *)
(* program has written.  A round is Sync (sync_timers_from_io), then one   *)
(* instruction, then StepTimers (step_timers) with its cycles; DMA may     *)
(* write between StepTimers and the next Sync.  A frame ends after its last *)
(* StepTimers, and only there may a save state be made and loaded.         *)
(***************************************************************************)
EXTENDS Integers

CONSTANTS
    N,              \* number of timers (4)
    Modulus,        \* the counter overflows at this value (65536)
    Prescale,       \* cycles per tick, by prescaler selection
    Controls,       \* values the program writes to TMxCNT_H
    Data,           \* values the program writes to TMxCNT_L
    Cycles,         \* cycles of one round
    MaxWrites,      \* bound: register writes in each half of a round
    MaxLoads        \* bound: loads that lose the sight of a write

ASSUME ShapeAssumption ==
    /\ N \in Nat \ {0} /\ Modulus \in Nat \ {0, 1}
    /\ Cycles \subseteq Nat \ {0} /\ MaxWrites \in Nat /\ MaxLoads \in Nat
    /\ Data \subseteq 0..(Modulus - 1)
    /\ Controls \subseteq [enable : BOOLEAN, up : BOOLEAN, irq : BOOLEAN,
                           scale : DOMAIN Prescale]
    /\ DOMAIN Prescale # {}
    /\ \A s \in DOMAIN Prescale : Prescale[s] \in Nat \ {0}

Timers == 0..(N - 1)
Values == 0..(Modulus - 1)

VARIABLES
    ioData,     \* the bus cell of TMxCNT_L
    ioControl,  \* the bus cell of TMxCNT_H
    control,    \* timer.control
    controlShadow,  \* timer.io_control_shadow
    counter,    \* timer.counter
    reload,     \* timer.reload
    accum,      \* timer.accum: cycles counted towards the next tick
    shadow,     \* timer.io_data_shadow
    next,       \* the half of the round that comes next: "sync" or "step"
    raised,     \* timers whose interrupt the last step_timers requested
    writes,     \* register writes since the last half ended
    loads,      \* loads that have lost the sight of a write
    cycles,     \* history: cycles of the step_timers just made
    written     \* history: the last value written to each TMxCNT_L

vars == <<ioData, ioControl, control, controlShadow, counter, reload, accum,
          shadow, next, raised, writes, loads, cycles, written>>

Stopped == [enable |-> FALSE, up |-> FALSE, irq |-> FALSE,
            scale |-> CHOOSE s \in DOMAIN Prescale : TRUE]

Init ==
    /\ ioData = [i \in Timers |-> 0] /\ ioControl = [i \in Timers |-> Stopped]
    /\ control = [i \in Timers |-> Stopped]
    /\ controlShadow = [i \in Timers |-> Stopped]
    /\ counter = [i \in Timers |-> 0] /\ reload = [i \in Timers |-> 0]
    /\ accum = [i \in Timers |-> 0] /\ shadow = [i \in Timers |-> 0]
    /\ next = "sync" /\ raised = {} /\ writes = 0 /\ loads = 0
    /\ cycles = 0 /\ written = [i \in Timers |-> 0]

-----------------------------------------------------------------------------
(* The program, or a DMA channel, writes a register.                       *)
Writes ==
    /\ writes < MaxWrites /\ writes' = writes + 1
    /\ raised' = {} /\ cycles' = 0

WriteData(i, v) ==
    /\ Writes
    /\ ioData' = [ioData EXCEPT ![i] = v]
    /\ written' = [written EXCEPT ![i] = v]
    /\ UNCHANGED <<ioControl, control, controlShadow, counter, reload, accum,
                   shadow, next, loads>>

WriteControl(i, c) ==
    /\ Writes
    /\ ioControl' = [ioControl EXCEPT ![i] = c]
    /\ UNCHANGED <<ioData, control, controlShadow, counter, reload, accum,
                   shadow, next, loads, written>>

-----------------------------------------------------------------------------
(* sync_timers_from_io.  A cell that differs from its shadow was written.  *)
Written(i) == ioData[i] # shadow[i]
Switched(i) == ioControl[i] # controlShadow[i]
Starts(i) == Switched(i) /\ ~control[i].enable /\ ioControl[i].enable
Stops(i) == Switched(i) /\ control[i].enable /\ ~ioControl[i].enable

ReloadSynced(i) == IF Written(i) THEN ioData[i] ELSE reload[i]
CounterSynced(i) ==
    IF Starts(i) THEN ReloadSynced(i)
    ELSE IF Written(i) /\ ~control[i].enable THEN ioData[i]
    ELSE counter[i]

Sync ==
    /\ next = "sync" /\ next' = "step"
    /\ control' = [i \in Timers |->
                     IF Switched(i) THEN ioControl[i] ELSE control[i]]
    /\ controlShadow' = ioControl
    /\ reload' = [i \in Timers |-> ReloadSynced(i)]
    /\ counter' = [i \in Timers |-> CounterSynced(i)]
    /\ accum' = [i \in Timers |->
                   IF Starts(i) \/ Stops(i) THEN 0 ELSE accum[i]]
    /\ ioData' = [i \in Timers |->
                    IF Starts(i) THEN CounterSynced(i) ELSE ioData[i]]
    /\ shadow' = ioData'
    /\ raised' = {} /\ writes' = 0 /\ cycles' = 0
    /\ UNCHANGED <<ioControl, loads, written>>

-----------------------------------------------------------------------------
(* step_counter: the overflows of ticks ticks, and the counter after them. *)
Span(i) == Modulus - reload[i]
Excess(i, ticks) == ticks - (Modulus - counter[i])
OverflowsIn_OneAtMost(i, ticks) == IF Excess(i, ticks) < 0 THEN 0 ELSE 1
OverflowsIn(i, ticks) ==
    IF Excess(i, ticks) < 0 THEN 0 ELSE 1 + (Excess(i, ticks) \div Span(i))
CounterAfter_NoReload(i, ticks) == counter[i] + ticks
CounterAfter(i, ticks) ==
    IF Excess(i, ticks) < 0 THEN counter[i] + ticks
    ELSE reload[i] + (Excess(i, ticks) % Span(i))

Scale(i) == Prescale[control[i].scale]
Runs(i) == control[i].enable /\ (control[i].up => i > 0)

(* Ticks of every timer in n cycles: its own clock's, or the overflows of  *)
(* the timer below when it counts up.                                      *)
Ticks(n) ==
    LET t[i \in Timers] ==
          IF ~Runs(i) THEN 0
          ELSE IF control[i].up THEN OverflowsIn(i - 1, t[i - 1])
          ELSE (accum[i] + n) \div Scale(i)
    IN  t

(* A running timer's counter goes to its cell and to the shadow of that.   *)
CellAfter(i, n) == IF Runs(i) THEN CounterAfter(i, Ticks(n)[i]) ELSE ioData[i]
ShadowAfter(i, n) == IF Runs(i) THEN CounterAfter(i, Ticks(n)[i]) ELSE shadow[i]

StepTimers(n) ==
    /\ next = "step" /\ next' = "sync"
    /\ counter' = [i \in Timers |-> CounterAfter(i, Ticks(n)[i])]
    /\ accum' = [i \in Timers |->
                   IF Runs(i) /\ ~control[i].up THEN (accum[i] + n) % Scale(i)
                   ELSE accum[i]]
    /\ ioData' = [i \in Timers |-> CellAfter(i, n)]
    /\ shadow' = [i \in Timers |-> ShadowAfter(i, n)]
    /\ raised' = {i \in Timers : control[i].irq /\ OverflowsIn(i, Ticks(n)[i]) > 0}
    /\ writes' = 0 /\ cycles' = n
    /\ UNCHANGED <<ioControl, control, controlShadow, reload, loads, written>>

-----------------------------------------------------------------------------
(* serialize and deserialize.  A state holds timers and cells but not the  *)
(* shadows, which are read from the cells it restores.  What was played    *)
(* after the save is undone, so that only the shadows tell a loaded machine *)
(* from the saved one: a write that came after the last Sync is not seen   *)
(* any more, and a timer it was to start does not.                         *)
Unseen == shadow # ioData \/ controlShadow # ioControl

LoadedShadow_NotRestored == [i \in Timers |-> 0]
LoadedShadow == ioData

LoadState ==
    /\ next = "sync"
    /\ loads' = IF Unseen THEN loads + 1 ELSE loads
    /\ loads' <= MaxLoads
    /\ shadow' = LoadedShadow /\ controlShadow' = ioControl
    /\ UNCHANGED <<ioData, ioControl, control, counter, reload, accum, next,
                   raised, writes, cycles, written>>

Next ==
    \/ LoadState
    \/ \E i \in Timers, v \in Data : WriteData(i, v)
    \/ \E i \in Timers, c \in Controls : WriteControl(i, c)
    \/ Sync
    \/ \E n \in Cycles : StepTimers(n)

Spec == Init /\ [][Next]_vars

-----------------------------------------------------------------------------
TypeOK ==
    /\ ioData \in [Timers -> Values] /\ shadow \in [Timers -> Values]
    /\ counter \in [Timers -> Values] /\ reload \in [Timers -> Values]
    /\ ioControl \in [Timers -> Controls \cup {Stopped}]
    /\ control \in [Timers -> Controls \cup {Stopped}]
    /\ controlShadow \in [Timers -> Controls \cup {Stopped}]
    /\ accum \in [Timers -> Nat]
    /\ next \in {"sync", "step"}
    /\ raised \in SUBSET Timers
    /\ writes \in 0..MaxWrites /\ loads \in 0..MaxLoads
    /\ cycles \in Cycles \cup {0}
    /\ written \in [Timers -> Values]

(* The hardware counts cycle by cycle: in one cycle a timer may tick, on   *)
(* its clock or on the overflow of the timer below in that same cycle.     *)
Tick(s) ==
    LET tick[i \in Timers] ==
          /\ Runs(i)
          /\ IF control[i].up THEN tick[i - 1] /\ s.counter[i - 1] = Modulus - 1
             ELSE s.accum[i] + 1 >= Scale(i)
    IN  tick

Over(s, i) == Tick(s)[i] /\ s.counter[i] = Modulus - 1

Beat(s) ==
    [counter |-> [i \in Timers |->
                    IF Over(s, i) THEN reload[i]
                    ELSE IF Tick(s)[i] THEN s.counter[i] + 1 ELSE s.counter[i]],
     accum |-> [i \in Timers |->
                  IF ~Runs(i) \/ control[i].up THEN s.accum[i]
                  ELSE IF Tick(s)[i] THEN 0 ELSE s.accum[i] + 1],
     raised |-> s.raised \cup {i \in Timers : Over(s, i) /\ control[i].irq}]

CycleByCycle(n) ==
    LET after[k \in 0..n] ==
          IF k = 0 THEN [counter |-> counter, accum |-> accum, raised |-> {}]
          ELSE Beat(after[k - 1])
    IN  after[n]

(* step_timers advances whole instructions at a time, yet counters, phases *)
(* and interrupts come out as if every cycle had been counted, through     *)
(* several overflows in one batch and through cascades.  The exception is  *)
(* a prescaler made shorter under a running timer: accum is not reduced    *)
(* then, and the first batch turns the excess into a burst of ticks.       *)
Prescaled == \A i \in Timers : accum[i] < Scale(i)

BatchExact ==
    [][ next = "step" /\ next' = "sync" /\ Prescaled =>
          LET ref == CycleByCycle(cycles')
          IN  counter' = ref.counter /\ accum' = ref.accum
              /\ raised' = ref.raised ]_vars

(* The counter mirrored into TMxCNT_L is never mistaken for a reload, not  *)
(* even after a save state is loaded: the reload only changes to the value *)
(* last written to the register.                                           *)
MirrorNotReload ==
    [][ \A i \in Timers : reload'[i] # reload[i] => reload'[i] = written[i] ]_vars

(* A timer that starts does so from its reload with a fresh prescaler, and *)
(* shows that value at once.                                               *)
StartsFresh ==
    [][ \A i \in Timers : ~control[i].enable /\ control'[i].enable =>
          /\ counter'[i] = reload'[i] /\ ioData'[i] = reload'[i]
          /\ accum'[i] = 0 ]_vars

(* The core tracks the mirror "so external writes can be treated as reload *)
(* updates" (sync_timers_from_io): after a Sync every reload is the value  *)
(* last written.                                                           *)
WritesBecomeReloads ==
    [][ next = "sync" /\ next' = "step" => reload' = written ]_vars
=============================================================================

----------------------------- MODULE GbInterrupts -----------------------------
(***************************************************************************)
(* Interrupt dispatch, EI's delay, HALT, the HALT bug and STOP of the Game *)
(* Boy CPU (Cpu::step and Cpu::service_interrupts, src/core/cpu.cpp), with *)
(* the IE and IF registers of Mmu.                                         *)
(*                                                                         *)
(* A step is one call of Cpu::step, or a device raising an interrupt in    *)
(* the part of EmulatorCore::step_frame that follows it.  The program is   *)
(* any sequence of instructions: those that touch the interrupt state are  *)
(* told apart, every other one is "other".                                 *)
(***************************************************************************)
EXTENDS Naturals

CONSTANT Sources        \* interrupt bits, 0..4 in the code; lowest goes first
ASSUME SourcesAssumption == Sources \subseteq Nat

VARIABLES
    ime,        \* ime_
    imePending, \* ime_pending_
    halted,     \* halted_
    stopped,    \* stopped_
    haltBug,    \* halt_bug_
    ie,         \* enabled sources (0xFFFF)
    iflags,     \* requested sources (0xFF0F)
    last,       \* last_opcode_: the last instruction executed
    eiMasked,   \* history: last is an EI that found ime_ clear
    entered     \* history: the last step entered a handler

vars == <<ime, imePending, halted, stopped, haltBug, ie, iflags, last,
          eiMasked, entered>>

Ops == {"ei", "di", "halt", "stop", "reti", "setIE", "setIF", "other"}

Pending == ie \cap iflags
Lowest(S) == CHOOSE s \in S : \A t \in S : s <= t
-----------------------------------------------------------------------------
(* Cpu::reset; the boot ROM starts with everything masked.                 *)
Init ==
    /\ ime = FALSE /\ imePending = FALSE
    /\ halted = FALSE /\ stopped = FALSE /\ haltBug = FALSE
    /\ ie = {} /\ iflags = {}
    /\ last = "other" /\ eiMasked = FALSE /\ entered = FALSE

(* A halted CPU wakes on an enabled request; with IME off it also wakes on *)
(* a request that is not enabled.                                          *)
Wakes_OnlyUnmasked == ime /\ Pending # {}
Wakes == Pending # {} \/ (~ime /\ iflags # {})

(* service_interrupts with IME on: it wakes, masks and jumps.  A pending   *)
(* EI and a pending HALT bug survive it.                                   *)
Dispatch ==
    /\ ~stopped /\ ime /\ Pending # {}
    /\ ime' = FALSE /\ halted' = FALSE
    /\ iflags' = iflags \ {Lowest(Pending)}
    /\ entered' = TRUE
    /\ UNCHANGED <<imePending, stopped, haltBug, ie, last, eiMasked>>

(* A halted step that nothing wakes takes four cycles.                     *)
Idle ==
    /\ halted /\ ~Wakes
    /\ entered' = FALSE
    /\ UNCHANGED <<ime, imePending, halted, stopped, haltBug, ie, iflags,
                   last, eiMasked>>

(* What op leaves in ime_ and ime_pending_, with the EI delay of Cpu::step *)
(* that follows every instruction but EI.                                  *)
ImeAfter_EiAtOnce(op) ==
    CASE op \in {"ei", "reti"} -> TRUE
      [] op = "di" -> FALSE
      [] OTHER -> ime
ImeAfter(op) ==
    CASE op = "reti" -> TRUE
      [] op = "di" -> FALSE
      [] op = "ei" -> ime
      [] OTHER -> ime \/ imePending
ImePendingAfter_UntilDi(op) == op = "ei" \/ (imePending /\ op # "di")
ImePendingAfter(op) == op = "ei"

(* HALT with IME off and a request already pending does not halt: the next *)
(* fetch repeats a byte instead.                                           *)
HaltBugs_Never(op) == FALSE
HaltBugs(op) == op = "halt" /\ ~ime /\ Pending # {}

Execute(op) ==
    /\ ~stopped
    /\ halted => Wakes
    /\ ~(ime /\ Pending # {})
    /\ last' = op
    /\ ime' = ImeAfter(op)
    /\ imePending' = ImePendingAfter(op)
    /\ halted' = (op = "halt" /\ ~HaltBugs(op))
    /\ haltBug' = HaltBugs(op)
    /\ stopped' = (op = "stop")
    /\ IF op = "setIE" THEN ie' \in SUBSET Sources ELSE ie' = ie
    /\ IF op = "setIF" THEN iflags' \in SUBSET Sources ELSE iflags' = iflags
    /\ eiMasked' = (op = "ei" /\ ~ime)
    /\ entered' = FALSE

(* Mmu::request_interrupt, from the timer, the PPU or the serial port;     *)
(* step_frame no longer runs them once STOP makes Cpu::step return 0.      *)
Request(s) ==
    /\ ~stopped /\ s \notin iflags
    /\ iflags' = iflags \cup {s}
    /\ entered' = FALSE
    /\ UNCHANGED <<ime, imePending, halted, stopped, haltBug, ie, last,
                   eiMasked>>

CpuStep == Dispatch \/ Idle \/ \E op \in Ops : Execute(op)
Next == CpuStep \/ \E s \in Sources : Request(s)

(* step_frame calls Cpu::step again and again.                             *)
Fairness == WF_vars(CpuStep)
Spec == Init /\ [][Next]_vars /\ Fairness

-----------------------------------------------------------------------------
TypeOK ==
    /\ ime \in BOOLEAN /\ imePending \in BOOLEAN
    /\ halted \in BOOLEAN /\ stopped \in BOOLEAN /\ haltBug \in BOOLEAN
    /\ ie \in SUBSET Sources /\ iflags \in SUBSET Sources
    /\ last \in Ops /\ eiMasked \in BOOLEAN
    /\ entered \in BOOLEAN
    /\ imePending => last = "ei"
    /\ ~(halted /\ (stopped \/ haltBug))

(* EI becomes active after the next instruction: no handler is entered     *)
(* between an EI that found IME off and the instruction that follows it.   *)
EiDelay == [][eiMasked => ~entered']_vars

(* IME comes on in RETI, or in the instruction executed after an EI, which *)
(* may be neither a second EI nor the DI that withdraws the first.         *)
ImeRises ==
    [][ ~ime /\ ime' =>
          \/ last' = "reti"
          \/ last = "ei" /\ last' \notin {"ei", "di"} ]_vars

(* HALT never goes to sleep on a request it should have noticed: between   *)
(* its check of IE and IF and halted_ there is no window.                  *)
NoLostWakeup == [][~halted /\ halted' => Pending' = {}]_vars

(* The HALT bug is armed with interrupts masked; they are only on when its *)
(* byte is repeated if HALT stood in the shadow of an EI.                  *)
HaltBugMasked == [][~haltBug /\ haltBug' => ~ime /\ (ime' => last = "ei")]_vars

(* A halted CPU with an enabled request wakes, whatever IME says.          *)
WakesUp == (halted /\ Pending # {}) ~> ~halted
=============================================================================

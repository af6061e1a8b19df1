----------------------------- MODULE GbaInterrupts -----------------------------
(***************************************************************************)
(* Interrupts, HALT and the HLE waits of the Game Boy Advance, as the loop *)
(* of GbaCore::step_frame runs them (src/core/gba_core.cpp), over the IE,  *)
(* IF, IME and HALTCNT registers of GbaBus (src/core/gba_bus.cpp).         *)
(*                                                                         *)
(* A step is one round of that loop: an instruction (or, halted, an idle   *)
(* slice), then step_timers, step_dma and step_ppu, which request a set of *)
(* interrupts, then service_interrupts, then what the round does about     *)
(* HALT.  Nothing interleaves with a round: its order is what matters.     *)
(***************************************************************************)
EXTENDS Naturals, FiniteSets

CONSTANT Sources        \* interrupt bits, 0..13 in the code; lowest goes first
ASSUME SourcesAssumption == Sources \subseteq Nat

VARIABLES
    ime,        \* IME bit 0
    masked,     \* CPSR bit 7
    ie,         \* enabled sources
    iflags,     \* requested sources
    halted,     \* halted_
    waiting,    \* swi_wait_active_
    mask,       \* swi_wait_mask_
    entered,    \* history: sources whose handler this round entered
    raised      \* history: sources requested in this round

vars == <<ime, masked, ie, iflags, halted, waiting, mask, entered, raised>>

Lowest(S) == CHOOSE s \in S : \A t \in S : s <= t

(* GbaCore::reset; GbaCpu::reset leaves CPSR 0xD3.                         *)
Init ==
    /\ ime = FALSE /\ masked = TRUE
    /\ ie = {} /\ iflags = {}
    /\ halted = FALSE /\ waiting = FALSE /\ mask = {}
    /\ entered = {} /\ raised = {}

-----------------------------------------------------------------------------
(* service_interrupts, once the instruction has left flags in IF and m in  *)
(* CPSR bit 7: it acknowledges the source itself, and an interrupt ends    *)
(* any halt or wait the instruction left.                                  *)
Serves(flags, m) == ime' /\ ~m /\ ie' \cap flags # {}

Acknowledge(flags, m) ==
    LET taken == IF Serves(flags, m) THEN {Lowest(ie' \cap flags)} ELSE {}
    IN  /\ iflags' = flags \ taken
        /\ entered' = taken
        /\ masked' = (m \/ taken # {})

Sleep(h, w, W) == halted' = h /\ waiting' = w /\ mask' = W
Awake == Sleep(FALSE, FALSE, {})
AwakeIfServed_KeepsWait(h, w, W) ==
    IF entered' # {} THEN Sleep(FALSE, w, W) ELSE Sleep(h, w, W)
AwakeIfServed(h, w, W) == IF entered' # {} THEN Awake ELSE Sleep(h, w, W)

(* What ends the sleep of a halted core that took no interrupt: a source   *)
(* of the mask when it waits in IntrWait, else any enabled one.            *)
Wakes_OnlyUnmasked(flags) ==
    /\ ime /\ ~masked
    /\ ie \cap flags \cap (IF waiting THEN mask ELSE Sources) # {}
Wakes_MaskAlways(flags) == ie \cap flags \cap mask # {}
Wakes(flags) == ie \cap flags \cap (IF waiting THEN mask ELSE Sources) # {}

(* IF is a register that clears the bits written as 1; the requests of the *)
(* round come after the instruction's write.                               *)
FlagsAfter(C, R) == (iflags \ C) \cup R

-----------------------------------------------------------------------------
(* An instruction that halts nothing: it may write IE (to S), IME (to b),  *)
(* CPSR bit 7 (to m) and IF (clearing C); a block store may write several. *)
Execute(S, b, m, C, R) ==
    /\ ~halted
    /\ ie' = S /\ ime' = b /\ raised' = R
    /\ Acknowledge(FlagsAfter(C, R), m)
    /\ Awake

(* A store to HALTCNT: the request is taken after service_interrupts, so   *)
(* it halts the core whether or not an interrupt was just entered.         *)
StoreHaltcnt(R) ==
    /\ ~halted
    /\ UNCHANGED <<ie, ime>> /\ raised' = R
    /\ Acknowledge(FlagsAfter({}, R), masked)
    /\ Sleep(ie \cap iflags' = {}, FALSE, {})

(* HLE Halt and Stop: halted before the round's requests and service.      *)
SwiHalt(R) ==
    /\ ~halted
    /\ UNCHANGED <<ie, ime>> /\ raised' = R
    /\ Acknowledge(FlagsAfter({}, R), masked)
    /\ AwakeIfServed(TRUE, FALSE, {})

(* HLE IntrWait and VBlankIntrWait: with clear, forget the earlier         *)
(* requests of the mask; sleep unless one that is enabled is there.        *)
IntrWait(W, clear, R) ==
    LET C == IF clear THEN W ELSE {}
        missing == ie \cap (iflags \ C) \cap W = {}
    IN  /\ ~halted /\ W # {}
        /\ UNCHANGED <<ie, ime>> /\ raised' = R
        /\ Acknowledge(FlagsAfter(C, R), masked)
        /\ AwakeIfServed(missing, missing, IF missing THEN W ELSE {})

(* A round of a halted core: no instruction, up to 1024 idle cycles.       *)
Idle(R) ==
    /\ halted
    /\ UNCHANGED <<ie, ime>> /\ raised' = R
    /\ Acknowledge(FlagsAfter({}, R), masked)
    /\ IF Wakes(iflags') THEN Awake ELSE AwakeIfServed(halted, waiting, mask)

Instruction(R) ==
    \/ \E S, C \in SUBSET Sources, b, m \in BOOLEAN : Execute(S, b, m, C, R)
    \/ StoreHaltcnt(R)
    \/ SwiHalt(R)
    \/ \E W \in SUBSET Sources, clear \in BOOLEAN : IntrWait(W, clear, R)

Next == \E R \in SUBSET Sources : Instruction(R) \/ Idle(R)

(* step_frame runs its loop for as long as the frontend asks for frames.   *)
Spec == Init /\ [][Next]_vars
FairSpec == Spec /\ WF_vars(Next)

-----------------------------------------------------------------------------
(* The types, and the shape of a wait: a core in IntrWait is halted and    *)
(* has a mask, any other has none.                                         *)
TypeOK ==
    /\ ime \in BOOLEAN /\ masked \in BOOLEAN
    /\ ie \subseteq Sources /\ iflags \subseteq Sources
    /\ halted \in BOOLEAN /\ waiting \in BOOLEAN
    /\ mask \subseteq Sources /\ entered \subseteq Sources
    /\ raised \subseteq Sources
    /\ waiting => halted
    /\ waiting <=> mask # {}

(* A request made in the very round in which the handler acknowledges IF   *)
(* is not lost: it is still requested after the round or was entered.      *)
RaisedKept == [][raised' \subseteq iflags' \cup entered']_vars

(* A halted round that leaves a source it sleeps for both enabled and      *)
(* requested does not leave the core asleep.                               *)
NeverSleepsThrough ==
    [][halted /\ halted' =>
         ie' \cap iflags' \cap (IF waiting THEN mask ELSE Sources) = {}]_vars

(* A sleeping core wakes up, whatever IME and CPSR bit 7 say, provided it  *)
(* sleeps for an enabled source and every source keeps being requested.    *)
WakeUp ==
    (\A s \in Sources : []<>(s \in raised)) =>
        [](halted /\ ie \cap (IF waiting THEN mask ELSE Sources) # {}
             => <>~halted)

(* What the comment in handle_swi_hle says of VBlankIntrWait, and IntrWait *)
(* promises: the wait ends because a source of its mask was requested.     *)
WaitsForItsMask ==
    [][waiting /\ ~waiting' => mask \cap (iflags \cup raised') # {}]_vars
=============================================================================

-------------------------- MODULE GbInterruptsProofs --------------------------
(***************************************************************************)
(* Proofs about GbInterrupts for every set of interrupt sources.           *)
(***************************************************************************)
EXTENDS GbInterrupts, TLAPS

(* An EI that found IME off leaves it off, so nothing is dispatched before *)
(* the next instruction.                                                   *)
MaskedInShadow == eiMasked => ~ime

IInv == TypeOK /\ MaskedInShadow

-----------------------------------------------------------------------------
LEMMA Initially == Init => IInv
BY DEF Init, IInv, TypeOK, MaskedInShadow, Ops

LEMMA StepKeeps == IInv /\ [Next]_vars => IInv'
<1> SUFFICES ASSUME IInv, [Next]_vars PROVE IInv'
  OBVIOUS
<1> USE DEF IInv, TypeOK, MaskedInShadow
<1>1. CASE Dispatch
  <2>1. iflags' \in SUBSET Sources
    BY <1>1 DEF Dispatch
  <2> QED  BY <1>1, <2>1 DEF Dispatch
<1>2. CASE Idle
  BY <1>2 DEF Idle
<1>3. ASSUME NEW op \in Ops, Execute(op) PROVE IInv'
  <2>1. ie' \in SUBSET Sources /\ iflags' \in SUBSET Sources
    BY <1>3 DEF Execute
  <2>2. ime' \in BOOLEAN /\ imePending' = (op = "ei") /\ last' = op
    BY <1>3 DEF Execute, ImeAfter, ImePendingAfter
  <2>3. /\ halted' = (op = "halt" /\ ~HaltBugs(op))
        /\ haltBug' = HaltBugs(op)
        /\ stopped' = (op = "stop")
        /\ HaltBugs(op) \in BOOLEAN
    BY <1>3 DEF Execute, HaltBugs
  <2>4. /\ eiMasked' = (op = "ei" /\ ~ime)
        /\ op = "ei" => ime' = ime
    BY <1>3 DEF Execute, ImeAfter
  <2>5. entered' \in BOOLEAN
    BY <1>3 DEF Execute
  <2> QED  BY <2>1, <2>2, <2>3, <2>4, <2>5
<1>4. ASSUME NEW s \in Sources, Request(s) PROVE IInv'
  BY <1>4 DEF Request
<1>5. CASE UNCHANGED vars
  BY <1>5 DEF vars
<1> QED  BY <1>1, <1>2, <1>3, <1>4, <1>5 DEF Next, CpuStep

THEOREM Invariance == Spec => []IInv
BY Initially, StepKeeps, PTL DEF Spec

(* Type correctness, with the states the flags can never be in together.   *)
THEOREM TypeCorrect == Spec => []TypeOK
BY Invariance, PTL DEF IInv

(* No handler is entered between an EI and the instruction after it.       *)
THEOREM EiIsDelayed == Spec => EiDelay
<1>1. IInv /\ [Next]_vars => [eiMasked => ~entered']_vars
  BY DEF IInv, MaskedInShadow, Next, CpuStep, Dispatch, Idle, Execute,
         Request, vars
<1> QED  BY <1>1, Invariance, PTL DEF Spec, EiDelay

(* HALT never sleeps on an enabled request.                                *)
THEOREM HaltSeesRequests == Spec => NoLostWakeup
<1>1. ASSUME [Next]_vars, ~halted, halted' PROVE Pending' = {}
  <2>1. PICK op \in Ops : Execute(op)
    BY <1>1 DEF Next, CpuStep, Dispatch, Idle, Request, vars
  <2>2. op = "halt" /\ ~(~ime /\ Pending # {}) /\ ~(ime /\ Pending # {})
    BY <1>1, <2>1 DEF Execute, HaltBugs
  <2>3. ie' = ie /\ iflags' = iflags
    BY <2>1, <2>2 DEF Execute
  <2>4. Pending = {}
    BY <2>2, <1>1 DEF Pending
  <2> QED  BY <2>3, <2>4 DEF Pending
<1>2. [Next]_vars => [~halted /\ halted' => Pending' = {}]_vars
  BY <1>1
<1> QED  BY <1>2, PTL DEF Spec, NoLostWakeup

(* IME only comes on in RETI or one instruction after an EI.               *)
THEOREM ImeDiscipline == Spec => ImeRises
<1> DEFINE A == ~ime /\ ime' => \/ last' = "reti"
                                \/ last = "ei" /\ last' \notin {"ei", "di"}
<1>1. ASSUME IInv, [Next]_vars PROVE A
  <2>1. ASSUME NEW op \in Ops, Execute(op) PROVE A
    BY <1>1, <2>1 DEF Execute, ImeAfter, IInv, TypeOK
  <2>2. CASE Dispatch \/ Idle \/ UNCHANGED vars
    BY <2>2 DEF Dispatch, Idle, vars
  <2>3. CASE \E s \in Sources : Request(s)
    BY <2>3 DEF Request
  <2> QED  BY <1>1, <2>1, <2>2, <2>3 DEF Next, CpuStep
<1>2. IInv /\ [Next]_vars => [A]_vars
  BY <1>1
<1> QED  BY <1>2, Invariance, PTL DEF Spec, ImeRises

(* The HALT bug is armed with IME off, and meets IME on only behind an EI. *)
THEOREM HaltBugIsMasked == Spec => HaltBugMasked
<1> DEFINE A == ~haltBug /\ haltBug' => ~ime /\ (ime' => last = "ei")
<1>1. ASSUME IInv, [Next]_vars PROVE A
  <2>1. ASSUME NEW op \in Ops, Execute(op), haltBug'
        PROVE  ~ime /\ (ime' => last = "ei")
    <3>1. op = "halt" /\ ~ime
      BY <2>1 DEF Execute, HaltBugs
    <3>2. ime' = (ime \/ imePending)
      BY <2>1, <3>1 DEF Execute, ImeAfter
    <3> QED  BY <1>1, <3>1, <3>2 DEF IInv, TypeOK
  <2>2. CASE Dispatch \/ Idle \/ UNCHANGED vars
    BY <2>2 DEF Dispatch, Idle, vars
  <2>3. CASE \E s \in Sources : Request(s)
    BY <2>3 DEF Request
  <2> QED  BY <1>1, <2>1, <2>2, <2>3 DEF Next, CpuStep
<1>2. IInv /\ [Next]_vars => [A]_vars
  BY <1>1
<1> QED  BY <1>2, Invariance, PTL DEF Spec, HaltBugMasked
=============================================================================

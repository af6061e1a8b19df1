------------------------------- MODULE GbaCpu -------------------------------
(***************************************************************************)
(* Modes, banked registers and exceptions of the GBA's CPU                 *)
(* (core/gba_cpu.cpp, and the interrupt entry and boot of gba_core.cpp).   *)
(*                                                                         *)
(* The code keeps the registers of the current mode in regs_ and spsr_ and *)
(* copies them to and from the fields of a mode when the mode changes: the *)
(* record cpu is that state.  r[8] stands for r8 to r12.  A status is a    *)
(* record: mode, i (interrupts off), t (THUMB) and f (one condition flag). *)
(* "none" is a mode number without a mode, what SPSR holds at reset.       *)
(***************************************************************************)
EXTENDS Integers

CONSTANTS Modes,     \* modes programs use, with usr, sys, svc and irq
          Statuses,  \* statuses programs write with MSR
          Values,    \* values programs load into registers and PC
          StackOf,   \* bank to its stack pointer at boot
          MaxSteps   \* bound on the steps of a behaviour

VARIABLES cpu,    \* the fields of GbaCpu
          stored, \* the last value a user-bank store wrote
          booted, \* bios_handoff_done_
          steps

cpuVars == <<cpu, stored, booted, steps>>

UserModes == {"usr", "sys"}
NoPsr == [mode |-> "none", i |-> FALSE, t |-> FALSE, f |-> FALSE]
BankOf(m) == IF m = "sys" THEN "usr" ELSE m
Banks == {BankOf(m) : m \in Modes}
ASSUME ModeAssumption ==
  /\ {"usr", "sys", "svc", "irq"} \subseteq Modes /\ "none" \notin Modes
  /\ Statuses \subseteq [mode : Modes, i : BOOLEAN, t : BOOLEAN, f : BOOLEAN]
  /\ Values \subseteq Int /\ \A b \in Banks : StackOf[b] \in Int

CpuInit ==
  /\ cpu = [r |-> [n \in {8, 13, 14} |-> 0], pc |-> 0, spsr |-> NoPsr, shared |-> 0, fiq |-> 0,
            cpsr |-> [mode |-> "svc", i |-> TRUE, t |-> FALSE, f |-> FALSE],
            bank |-> [b \in Banks |-> [r13 |-> 0, r14 |-> 0, spsr |-> NoPsr]]]
  /\ stored = 0 /\ booted = FALSE /\ steps = 0

(***************************************************************************)
(* Changing mode.                                                          *)
(***************************************************************************)
SaveBanked(c, m) ==
  [c EXCEPT !.bank[BankOf(m)] = [r13 |-> c.r[13], r14 |-> c.r[14],
                                 spsr |-> IF m \in UserModes THEN @.spsr ELSE c.spsr]]
LoadBanked(c, m) ==
  LET b == c.bank[BankOf(m)]
  IN  [c EXCEPT !.r[13] = b.r13, !.r[14] = b.r14,
                !.spsr = IF m \in UserModes THEN NoPsr ELSE b.spsr]
SwitchMode_FiqNotKept(c, m) ==
  LET old == c.cpsr.mode
      moved == LoadBanked(SaveBanked(c, old), m)
  IN  IF m = old THEN c ELSE IF m = "fiq" THEN [moved EXCEPT !.r[8] = moved.fiq] ELSE moved
SwitchMode(c, m) ==
  LET old == c.cpsr.mode
      kept == CASE old = "fiq" -> [c EXCEPT !.fiq = c.r[8]]
                [] old # "fiq" /\ m = "fiq" -> [c EXCEPT !.shared = c.r[8]]
                [] OTHER -> c
      moved == LoadBanked(SaveBanked(kept, old), m)
  IN  CASE m = old -> c
        [] m # old /\ old = "fiq" -> [moved EXCEPT !.r[8] = moved.shared]
        [] m # old /\ m = "fiq" -> [moved EXCEPT !.r[8] = moved.fiq]
        [] OTHER -> moved
SetCpsr(c, p) == [SwitchMode(c, p.mode) EXCEPT !.cpsr = p]
SetMode(c, m) == SetCpsr(c, [c.cpsr EXCEPT !.mode = m])
SetSpsrForMode(c, m, p) ==
  IF m \in UserModes THEN c
  ELSE [c EXCEPT !.bank[m].spsr = p, !.spsr = IF c.cpsr.mode = m THEN p ELSE @]
SetBankedSp(c, m, x) ==
  [c EXCEPT !.bank[BankOf(m)].r13 = x,
            !.r[13] = IF BankOf(c.cpsr.mode) = BankOf(m) THEN x ELSE @]
AlignPc(x, t) == IF t THEN x - (x % 2) ELSE x - (x % 4)

(***************************************************************************)
(* Boot, instructions and interrupts.                                      *)
(***************************************************************************)
Tick == steps < MaxSteps /\ steps' = steps + 1

(* fast_boot_to_rom, from wherever the boot program has got to.             *)
FastBoot ==
  LET stacks == [cpu EXCEPT !.bank = [b \in Banks |-> [@[b] EXCEPT !.r13 = StackOf[b]]],
                            !.r[13] = StackOf[BankOf(cpu.cpsr.mode)]]
      arm == SetMode([stacks EXCEPT !.cpsr.t = FALSE], "sys")
  IN  /\ ~booted /\ Tick
      /\ cpu' = [arm EXCEPT !.cpsr.i = FALSE, !.r = [n \in {8, 13, 14} |-> IF n = 13 THEN StackOf["usr"] ELSE 0],
                            !.pc = 64]
      /\ booted' = TRUE
      /\ UNCHANGED stored

(* An instruction that writes a register, or PC.                            *)
WriteReg(n, x) == Tick /\ cpu' = [cpu EXCEPT !.r[n] = x] /\ UNCHANGED <<stored, booted>>
JumpTo(x) == Tick /\ cpu' = [cpu EXCEPT !.pc = x] /\ UNCHANGED <<stored, booted>>

(* LDM and STM with the user bank, from a mode that has a bank.             *)
ReadUserReg(c, n) ==
  CASE n = 13 -> c.bank["usr"].r13
    [] n = 14 -> c.bank["usr"].r14
    [] n = 8 -> IF c.cpsr.mode = "fiq" THEN c.shared ELSE c.r[8]
WriteUserReg(c, n, x) ==
  CASE n = 13 -> [c EXCEPT !.bank["usr"].r13 = x]
    [] n = 14 -> [c EXCEPT !.bank["usr"].r14 = x]
    [] n = 8 -> IF c.cpsr.mode = "fiq" THEN [c EXCEPT !.shared = x] ELSE [c EXCEPT !.r[8] = x]
LoadUser(n, x) ==
  /\ cpu.cpsr.mode \notin UserModes /\ Tick
  /\ cpu' = WriteUserReg(cpu, n, x)
  /\ UNCHANGED <<stored, booted>>
StoreUser(n) ==
  /\ cpu.cpsr.mode \notin UserModes /\ Tick
  /\ stored' = ReadUserReg(cpu, n)
  /\ UNCHANGED <<cpu, booted>>

(* MSR: User mode reaches the flags only; in the other modes a program may  *)
(* write the control byte, the flags or both.                               *)
Masked(old, new, control, flags) ==
  [(IF control THEN new ELSE old) EXCEPT !.f = IF flags THEN new.f ELSE old.f]
MsrCpsr(p, control, flags) ==
  /\ Tick
  /\ cpu' = SetCpsr(cpu, Masked(cpu.cpsr, p, control /\ cpu.cpsr.mode # "usr", flags))
  /\ UNCHANGED <<stored, booted>>
MsrSpsr(p) ==
  /\ cpu.cpsr.mode \notin UserModes /\ Tick
  /\ cpu' = [cpu EXCEPT !.bank[cpu.cpsr.mode].spsr = p, !.spsr = p]
  /\ UNCHANGED <<stored, booted>>

(* SWI writes the field of Supervisor mode; spsr_ follows only if the mode  *)
(* changes.                                                                 *)
Swi ==
  LET saved == [cpu EXCEPT !.bank["svc"].spsr = cpu.cpsr]
      in == SetMode(saved, "svc")
      link == cpu.pc + (IF cpu.cpsr.t THEN 2 ELSE 4)
  IN  /\ Tick
      /\ cpu' = [in EXCEPT !.r[14] = link, !.cpsr.t = FALSE, !.cpsr.i = TRUE, !.pc = 8]
      /\ UNCHANGED <<stored, booted>>

(* service_interrupts, once a request gets through its masks (GbaInterrupts). *)
Irq ==
  LET in == SetMode(SetSpsrForMode(cpu, "irq", cpu.cpsr), "irq")
  IN  /\ ~cpu.cpsr.i /\ Tick
      /\ cpu' = [in EXCEPT !.r[14] = cpu.pc + 4, !.cpsr.t = FALSE, !.cpsr.i = TRUE, !.pc = 24]
      /\ UNCHANGED <<stored, booted>>

(* MOVS PC, LR and SUBS PC, LR, #4; programs return once SPSR holds a status. *)
Return(offset) ==
  LET out == SetCpsr(cpu, cpu.spsr)
      target == cpu.r[14] - offset
  IN  /\ cpu.cpsr.mode \notin UserModes /\ cpu.spsr # NoPsr /\ Tick
      /\ cpu' = [out EXCEPT !.pc = AlignPc(target, out.cpsr.t)]
      /\ UNCHANGED <<stored, booted>>

(* LDMFD SP!, {PC}^: the base is written back after the mode has changed.   *)
LoadReturn(x) ==
  LET out == SetCpsr(cpu, cpu.spsr)
  IN  /\ cpu.cpsr.mode \notin UserModes /\ cpu.spsr # NoPsr /\ Tick
      /\ cpu' = [out EXCEPT !.pc = AlignPc(x, out.cpsr.t), !.r[13] = @ + 4]
      /\ UNCHANGED <<stored, booted>>

CpuNext ==
  \/ FastBoot
  \/ \E n \in {8, 13, 14}, x \in Values : WriteReg(n, x) \/ LoadUser(n, x)
  \/ \E n \in {8, 13, 14} : StoreUser(n)
  \/ \E p \in Statuses, control, flags \in BOOLEAN : MsrCpsr(p, control, flags)
  \/ \E p \in Statuses : MsrSpsr(p)
  \/ Swi
  \/ Irq
  \/ \E offset \in {0, 4} : Return(offset)
  \/ \E x \in Values : LoadReturn(x) \/ JumpTo(x)

CpuSpec == CpuInit /\ [][CpuNext]_cpuVars

(***************************************************************************)
(* The register file the fields stand for.                                 *)
(***************************************************************************)
Field(bank, n) ==
  LET mode == cpu.cpsr.mode
      live == bank = (IF n = 8 THEN IF mode = "fiq" THEN "fiq" ELSE "usr" ELSE BankOf(mode))
  IN  CASE live -> cpu.r[n]
        [] ~live /\ n = 8 -> IF bank = "fiq" THEN cpu.fiq ELSE cpu.shared
        [] ~live /\ n = 13 -> cpu.bank[bank].r13
        [] ~live /\ n = 14 -> cpu.bank[bank].r14
Physical == (Banks \X {13, 14}) \union ((Banks \intersect {"usr", "fiq"}) \X {8})
File == [p \in Physical |-> Field(p[1], p[2])]
Saved == [m \in Modes \ UserModes |-> IF m = cpu.cpsr.mode THEN cpu.spsr ELSE cpu.bank[m].spsr]
RegisterFile ==
  INSTANCE RegisterFile WITH file <- File, psr <- cpu.cpsr, saved <- Saved, pc <- cpu.pc

(* Whatever modes a program moves between, each bank keeps what was written *)
(* in its modes, and an exception saves and restores the interrupted status:*)
(* the copying of registers between regs_ and the fields is invisible.      *)
ImplementsRegisterFile == RegisterFile!FilSpec
=============================================================================

---------------------------- MODULE RegisterFile ----------------------------
(***************************************************************************)
(* What a program sees of the ARM register banks: one file of physical     *)
(* registers, of which the mode selects sixteen, and one saved status per  *)
(* exception mode.  Register 8 stands for r8 to r12, which only FIQ banks. *)
(***************************************************************************)
EXTENDS Integers

CONSTANTS Values, Modes, StackOf

VARIABLES file,    \* <<bank, register>> to its value
          psr,     \* the current status
          saved,   \* exception mode to its saved status
          pc, stored

filVars == <<file, psr, saved, pc, stored>>

NoPsr == [mode |-> "none", i |-> FALSE, t |-> FALSE, f |-> FALSE]
Psrs == [mode : Modes, i : BOOLEAN, t : BOOLEAN, f : BOOLEAN]
UserModes == {"usr", "sys"}
ExceptionModes == Modes \ UserModes
Bank(m, n) ==
  CASE m = "fiq" -> "fiq"
    [] m \in UserModes \/ (n = 8 /\ m # "fiq") -> "usr"
    [] OTHER -> m
Physical(m, n) == <<Bank(m, n), n>>
PhysicalRegisters == {Physical(v[1], v[2]) : v \in Modes \X {8, 13, 14}}
AlignedPc(x, t) == IF t THEN x - (x % 2) ELSE x - (x % 4)

FilInit ==
  /\ file = [p \in PhysicalRegisters |-> 0]
  /\ psr = [mode |-> "svc", i |-> TRUE, t |-> FALSE, f |-> FALSE]
  /\ saved = [m \in ExceptionModes |-> NoPsr]
  /\ pc = 0 /\ stored = 0

(* The boot program is skipped: fresh stacks, System mode, the cartridge.   *)
Boot ==
  /\ file' = [p \in PhysicalRegisters |->
                CASE p[2] = 13 -> StackOf[p[1]]
                  [] p \in {Physical("sys", 8), Physical("sys", 14)} -> 0
                  [] OTHER -> file[p]]
  /\ psr' = [psr EXCEPT !.mode = "sys", !.i = FALSE, !.t = FALSE]
  /\ pc' = 64
  /\ UNCHANGED <<saved, stored>>

Assign(n, x) ==
  /\ file' = [file EXCEPT ![Physical(psr.mode, n)] = x]
  /\ UNCHANGED <<psr, saved, pc, stored>>

(* A block transfer of the user bank from another mode.                     *)
AssignUser(n, x) ==
  /\ psr.mode \notin UserModes
  /\ file' = [file EXCEPT ![Physical("usr", n)] = x]
  /\ UNCHANGED <<psr, saved, pc, stored>>
StoreUser(n) ==
  /\ psr.mode \notin UserModes
  /\ stored' = file[Physical("usr", n)]
  /\ UNCHANGED <<file, psr, saved, pc>>

ChangePsr ==
  /\ psr' \in Psrs
  /\ psr.mode = "usr" => psr' = [psr EXCEPT !.f = psr'.f]
  /\ UNCHANGED <<file, saved, pc, stored>>
ChangeSaved ==
  /\ psr.mode \in ExceptionModes
  /\ \E p \in Psrs : saved' = [saved EXCEPT ![psr.mode] = p]
  /\ UNCHANGED <<file, psr, pc, stored>>

(* An exception saves the status it interrupts, except that a software      *)
(* interrupt from Supervisor mode itself keeps the older one.               *)
Enter(m, link, vector) ==
  /\ file' = [file EXCEPT ![Physical(m, 14)] = link]
  /\ saved' = IF m = "svc" /\ psr.mode = "svc" THEN saved ELSE [saved EXCEPT ![m] = psr]
  /\ psr' = [psr EXCEPT !.mode = m, !.i = TRUE, !.t = FALSE]
  /\ pc' = vector
  /\ UNCHANGED stored

(* Back to the status the mode saved.                                       *)
Leave(offset) ==
  /\ psr.mode \in ExceptionModes
  /\ psr' = saved[psr.mode]
  /\ pc' = AlignedPc(file[Physical(psr.mode, 14)] - offset, psr'.t)
  /\ UNCHANGED <<file, saved, stored>>

(* The same by a block load that pops PC; its base is written back in the   *)
(* bank of the mode that is returned to.                                    *)
LeaveByLoad(x) ==
  /\ psr.mode \in ExceptionModes
  /\ psr' = saved[psr.mode]
  /\ pc' = AlignedPc(x, psr'.t)
  /\ LET base == Physical(psr'.mode, 13)
     IN  file' = [file EXCEPT ![base] = @ + 4]
  /\ UNCHANGED <<saved, stored>>

Go(x) == pc' = x /\ UNCHANGED <<file, psr, saved, stored>>

FilNext ==
  \/ Boot
  \/ \E n \in {8, 13, 14}, x \in Values : Assign(n, x) \/ AssignUser(n, x)
  \/ \E n \in {8, 13, 14} : StoreUser(n)
  \/ ChangePsr
  \/ ChangeSaved
  \/ \E size \in {2, 4} : Enter("svc", pc + size, 8)
  \/ Enter("irq", pc + 4, 24)
  \/ \E offset \in {0, 4} : Leave(offset)
  \/ \E x \in Values : LeaveByLoad(x) \/ Go(x)

FilSpec == FilInit /\ [][FilNext]_filVars
=============================================================================

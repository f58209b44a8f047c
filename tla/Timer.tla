-------------------------------- MODULE Timer --------------------------------
(***************************************************************************)
(* timer_sleep of src/src/riscv/timer.c on rv32.  The hart can only read   *)
(* and write half of the 64-bit mtime and mtimecmp registers of the CLINT  *)
(* at a time, and mtime goes on counting between any two of these accesses.*)
(***************************************************************************)
EXTENDS Integers

CONSTANTS
  LO_RANGE,        \* values of a 32-bit half of a register (2^32)
  HI_RANGE,        \* values of the upper half (2^32)
  MAX_START,       \* bound: latest mtime at which timer_sleep is called
  MAX_CALL_TIME,   \* bound: latest mtime at which a call is still under way
  MAX_TIME         \* bound: mtime stops here

ASSUME LoAssumption == LO_RANGE \in Nat \ {0}
ASSUME HiAssumption == HI_RANGE \in Nat \ {0}
ASSUME TimesAssumption ==
  /\ MAX_START \in Nat /\ MAX_CALL_TIME \in Nat /\ MAX_TIME \in Nat
  /\ MAX_START <= MAX_CALL_TIME /\ MAX_CALL_TIME <= MAX_TIME
\* The 64-bit clock is not about to run out.
ASSUME ClockAssumption == (MAX_CALL_TIME \div LO_RANGE) + 1 < HI_RANGE

VARIABLES
  mtime,             \* the 64-bit counter
  mtimecmp_lo,       \* mtimecmp[0]
  mtimecmp_hi,       \* mtimecmp[1]
  pc,                \* the next access of timer_sleep, "idle" outside of it
  cycles,            \* its argument
  lower_mtime,       \* its locals
  higher_mtime,
  called_at          \* history: mtime when timer_sleep was entered, -1 if it never was

locals == <<cycles, lower_mtime, higher_mtime, called_at>>
vars == <<mtime, mtimecmp_lo, mtimecmp_hi, pc, locals>>

Lo == 0 .. LO_RANGE - 1
Hi == 0 .. HI_RANGE - 1

(* mtimecmp is not reset to any particular value. *)
Init ==
  /\ mtime = 0
  /\ mtimecmp_lo \in Lo /\ mtimecmp_hi \in Hi
  /\ pc = "idle"
  /\ cycles = 0 /\ lower_mtime = 0 /\ higher_mtime = 0
  /\ called_at = -1

Tick ==
  /\ mtime < IF pc = "idle" THEN MAX_TIME ELSE MAX_CALL_TIME
  /\ mtime' = mtime + 1
  /\ UNCHANGED <<mtimecmp_lo, mtimecmp_hi, pc, locals>>

timer_sleep(n) ==
  /\ pc = "idle" /\ mtime <= MAX_START
  /\ pc' = "read_lo"
  /\ cycles' = n
  /\ called_at' = mtime
  /\ UNCHANGED <<mtime, mtimecmp_lo, mtimecmp_hi, lower_mtime, higher_mtime>>

ReadLo ==
  /\ pc = "read_lo"
  /\ lower_mtime' = mtime % LO_RANGE
  /\ pc' = "read_hi"
  /\ UNCHANGED <<mtime, mtimecmp_lo, mtimecmp_hi, cycles, higher_mtime, called_at>>

(* Mutant of new_mtimecmp_lo: a sum wider than the register. *)
WideSum == lower_mtime + cycles

new_mtimecmp_lo == (lower_mtime + cycles) % LO_RANGE

(* Mutant of Carry: the overflow is not noticed. *)
NoCarry == 0

(* The carry out of the low half; it is added to the local right after the  *)
(* read of the high half.                                                  *)
Carry == IF new_mtimecmp_lo < lower_mtime THEN 1 ELSE 0

ReadHi ==
  /\ pc = "read_hi"
  /\ higher_mtime' = ((mtime \div LO_RANGE) + Carry) % HI_RANGE
  /\ pc' = "write_lo"
  /\ UNCHANGED <<mtime, mtimecmp_lo, mtimecmp_hi, cycles, lower_mtime, called_at>>

WriteLo ==
  /\ pc = "write_lo"
  /\ mtimecmp_lo' = new_mtimecmp_lo
  /\ pc' = "write_hi"
  /\ UNCHANGED <<mtime, mtimecmp_hi, locals>>

(* Mutant of WriteHi: the high half is never written. *)
ReturnEarly ==
  /\ pc = "write_hi"
  /\ pc' = "idle"
  /\ UNCHANGED <<mtime, mtimecmp_lo, mtimecmp_hi, locals>>

WriteHi ==
  /\ pc = "write_hi"
  /\ mtimecmp_hi' = higher_mtime
  /\ pc' = "idle"
  /\ UNCHANGED <<mtime, mtimecmp_lo, locals>>

Next ==
  \/ Tick
  \/ \E n \in Lo : timer_sleep(n)
  \/ ReadLo
  \/ ReadHi
  \/ WriteLo
  \/ WriteHi

Spec == Init /\ [][Next]_vars

(* The clock never stops and the hart goes on executing timer_sleep. *)
Fairness == WF_vars(Tick) /\ WF_vars(ReadLo) /\ WF_vars(ReadHi) /\ WF_vars(WriteLo) /\ WF_vars(WriteHi)

LiveSpec == Spec /\ Fairness

-----------------------------------------------------------------------------
(* What the comparator is set to, and the CLINT's timer interrupt line. *)
Deadline == LO_RANGE * mtimecmp_hi + mtimecmp_lo
Pending == mtime >= Deadline

TypeOK ==
  /\ mtime \in 0 .. MAX_TIME
  /\ mtimecmp_lo \in Lo /\ mtimecmp_hi \in Hi
  /\ pc \in {"idle", "read_lo", "read_hi", "write_lo", "write_hi"}
  /\ cycles \in Lo /\ lower_mtime \in Lo /\ higher_mtime \in Hi
  /\ called_at \in -1 .. MAX_START

(* Once timer_sleep has returned, the timer interrupt does not become       *)
(* pending before the requested number of cycles has passed since the call, *)
(* wherever mtime rolls over between the four register accesses.           *)
NeverEarly == pc = "idle" /\ called_at # -1 /\ Pending => mtime >= called_at + cycles

(* A sleep ends: after a call of timer_sleep the interrupt becomes pending. *)
SleepEnds == pc = "read_lo" ~> (pc = "idle" /\ Pending)

(* timer.h: timer_sleep sets the comparator "to current time and adds" its  *)
(* argument; the deadline is at most that far ahead when it returns.       *)
DeadlineFromNow == pc = "idle" /\ called_at # -1 => Deadline <= mtime + cycles
=============================================================================

----------------------------- MODULE TimerProofs -----------------------------
(***************************************************************************)
(* timer_sleep never sets a deadline that is too early, for registers and  *)
(* clocks of any size.                                                     *)
(***************************************************************************)
EXTENDS Timer, TLAPS

(* A time splits into the two halves of the register. *)
LEMMA Halves ==
  ASSUME NEW t \in Nat
  PROVE  /\ t \div LO_RANGE \in Nat
         /\ t % LO_RANGE \in Lo
         /\ t = LO_RANGE * (t \div LO_RANGE) + (t % LO_RANGE)
BY LoAssumption DEF Lo

(* The high half never goes back. *)
LEMMA HighHalfMonotone ==
  ASSUME NEW t \in Nat, NEW u \in Nat, t <= u
  PROVE  t \div LO_RANGE <= u \div LO_RANGE
<1> DEFINE x == t \div LO_RANGE
           y == u \div LO_RANGE
<1>1. x \in Nat /\ y \in Nat
  BY Halves
<1>2. LO_RANGE * x <= t /\ u < LO_RANGE * (y + 1)
  BY Halves, LoAssumption DEF Lo
<1> HIDE DEF x, y
<1>3. ASSUME y + 1 <= x PROVE LO_RANGE * (y + 1) <= LO_RANGE * x
  BY <1>1, <1>3, LoAssumption
<1>4. LO_RANGE * x \in Nat /\ LO_RANGE * (y + 1) \in Nat
  BY <1>1, LoAssumption
<1>5. ~ (y + 1 <= x)
  BY <1>2, <1>3, <1>4
<1> QED BY <1>1, <1>5 DEF x, y

(* Addition with a carry out of the low half. *)
LEMMA LowHalfSum ==
  ASSUME NEW l \in Lo, NEW c \in Lo
  PROVE  LET n == (l + c) % LO_RANGE
         IN  n \in Lo /\ l + c = n + LO_RANGE * (IF n < l THEN 1 ELSE 0)
<1> DEFINE n == (l + c) % LO_RANGE
<1>1. l \in Nat /\ c \in Nat /\ l < LO_RANGE /\ c < LO_RANGE
  BY LoAssumption DEF Lo
<1>2. CASE l + c < LO_RANGE
  <2>1. n = l + c
    BY <1>1, <1>2, LoAssumption
  <2> QED BY <1>1, <1>2, <2>1, LoAssumption DEF Lo
<1>3. CASE LO_RANGE <= l + c
  <2>1. n = l + c - LO_RANGE
    BY <1>1, <1>3, LoAssumption
  <2> QED BY <1>1, <1>3, <2>1, LoAssumption DEF Lo
<1> QED BY <1>1, <1>2, <1>3, LoAssumption

(* The halves may be read at different times t <= u: what they are combined *)
(* into is not before t + c.                                               *)
LEMMA TornReadIsLate ==
  ASSUME NEW t \in Nat, NEW u \in Nat, t <= u, NEW c \in Lo
  PROVE  LET l == t % LO_RANGE
             n == (l + c) % LO_RANGE
         IN  t + c <= LO_RANGE * ((u \div LO_RANGE) + (IF n < l THEN 1 ELSE 0)) + n
<1> DEFINE l == t % LO_RANGE
           n == (l + c) % LO_RANGE
           k == IF n < l THEN 1 ELSE 0
           x == t \div LO_RANGE
           y == u \div LO_RANGE
<1>1. x \in Nat /\ y \in Nat /\ l \in Lo /\ t = LO_RANGE * x + l
  BY Halves
<1>2. x <= y
  BY HighHalfMonotone
<1>3. n \in Lo /\ l + c = n + LO_RANGE * k
  BY <1>1, LowHalfSum
<1>4. k \in Nat
  OBVIOUS
<1> HIDE DEF l, n, k, x, y
<1>5. LO_RANGE * (x + k) <= LO_RANGE * (y + k)
  BY <1>1, <1>2, <1>4, LoAssumption
<1>6. LO_RANGE * (x + k) = LO_RANGE * x + LO_RANGE * k
  BY <1>1, <1>4, LoAssumption
<1>7. t + c <= LO_RANGE * (y + k) + n
  <2>1. LO_RANGE * x \in Nat /\ LO_RANGE * k \in Nat /\ LO_RANGE * (y + k) \in Nat
    BY <1>1, <1>4, LoAssumption
  <2> QED BY <1>1, <1>3, <1>5, <1>6, <2>1, LoAssumption DEF Lo
<1> QED BY <1>7 DEF l, n, k, x, y

-----------------------------------------------------------------------------
(* The sum timer_sleep is about to store, once both halves are read. *)
Target == LO_RANGE * higher_mtime + new_mtimecmp_lo

(* What a call under way has established at each of its accesses. *)
CallProgress ==
  /\ pc # "idle" => called_at \in 0 .. mtime /\ mtime <= MAX_CALL_TIME
  /\ pc = "read_hi" => \E t \in called_at .. mtime : lower_mtime = t % LO_RANGE
  /\ pc \in {"write_lo", "write_hi"} => called_at + cycles <= Target
  /\ pc = "write_hi" => mtimecmp_lo = new_mtimecmp_lo
  /\ pc = "idle" /\ called_at # -1 => called_at + cycles <= Deadline

IInv == TypeOK /\ CallProgress

LEMMA InitEstablishes == Init => IInv
BY LoAssumption, HiAssumption, TimesAssumption DEF Init, IInv, TypeOK, CallProgress, Lo, Hi

LEMMA SumInLo == TypeOK => new_mtimecmp_lo \in Lo
BY LoAssumption DEF TypeOK, new_mtimecmp_lo, Lo

LEMMA StepPreserves == IInv /\ [Next]_vars => IInv'
<1> SUFFICES ASSUME IInv, [Next]_vars PROVE IInv'
  OBVIOUS
<1> USE DEF IInv
<1>0. mtime \in Nat /\ LO_RANGE \in Nat
  BY LoAssumption, TimesAssumption DEF TypeOK
<1>1. CASE Tick
  <2>1. TypeOK'
    BY <1>1, TimesAssumption DEF Tick, TypeOK, locals, Lo, Hi
  <2>2. mtime' = mtime + 1 /\ (pc # "idle" => mtime' <= MAX_CALL_TIME)
    BY <1>0, <1>1, TimesAssumption DEF Tick
  <2>3. UNCHANGED <<pc, called_at, cycles, lower_mtime, higher_mtime, mtimecmp_lo, mtimecmp_hi>>
    BY <1>1 DEF Tick, locals
  <2>4. called_at \in Int
    BY TimesAssumption DEF TypeOK
  <2>5. called_at .. mtime \subseteq called_at .. mtime'
    BY <1>0, <2>2, <2>4
  <2>6. Target' = Target /\ Deadline' = Deadline /\ new_mtimecmp_lo' = new_mtimecmp_lo
    BY <2>3 DEF Target, Deadline, new_mtimecmp_lo
  <2>7. CallProgress'
    BY <1>0, <2>2, <2>3, <2>4, <2>5, <2>6 DEF CallProgress
  <2> QED BY <2>1, <2>7
<1>2. ASSUME NEW n \in Lo, timer_sleep(n) PROVE IInv'
  <2>1. TypeOK'
    BY <1>0, <1>2, TimesAssumption DEF timer_sleep, TypeOK
  <2> QED BY <1>0, <1>2, <2>1, TimesAssumption DEF timer_sleep, CallProgress
<1>3. CASE ReadLo
  <2>1. TypeOK'
    BY <1>0, <1>3, Halves DEF ReadLo, TypeOK
  <2>2. mtime \in called_at .. mtime
    BY <1>0, <1>3, TimesAssumption DEF ReadLo, CallProgress, TypeOK
  <2> QED BY <1>3, <2>1, <2>2 DEF ReadLo, CallProgress
<1>4. CASE ReadHi
  <2>1. PICK t \in called_at .. mtime : lower_mtime = t % LO_RANGE
    BY <1>4 DEF ReadHi, CallProgress
  <2>2. t \in Nat /\ t <= mtime /\ called_at <= t /\ called_at \in Nat /\ cycles \in Lo
        /\ mtime <= MAX_CALL_TIME
    BY <1>0, <1>4, <2>1 DEF ReadHi, CallProgress, TypeOK
  <2>3. t + cycles <= LO_RANGE * ((mtime \div LO_RANGE) + Carry) + new_mtimecmp_lo
    BY <1>0, <2>1, <2>2, TornReadIsLate DEF Carry, new_mtimecmp_lo
  <2>4. Carry \in 0 .. 1
    BY DEF Carry
  <2>5. (mtime \div LO_RANGE) + Carry \in Hi
    <3>1. mtime \div LO_RANGE \in Nat /\ MAX_CALL_TIME \div LO_RANGE \in Nat
          /\ mtime \div LO_RANGE <= MAX_CALL_TIME \div LO_RANGE
      BY <1>0, <2>2, Halves, HighHalfMonotone, TimesAssumption
    <3> QED BY <2>4, <3>1, ClockAssumption, HiAssumption DEF Hi
  <2>6. higher_mtime' = (mtime \div LO_RANGE) + Carry
    <3> DEFINE h == (mtime \div LO_RANGE) + Carry
    <3>1. higher_mtime' = h % HI_RANGE
      BY <1>4 DEF ReadHi
    <3> HIDE DEF h
    <3>2. h \in Hi
      BY <2>5 DEF h
    <3>3. h % HI_RANGE = h
      BY <3>2, HiAssumption DEF Hi
    <3> QED BY <3>1, <3>3 DEF h
  <2>7. /\ pc' = "write_lo"
        /\ UNCHANGED <<mtime, mtimecmp_lo, mtimecmp_hi, cycles, lower_mtime, called_at>>
        /\ new_mtimecmp_lo' = new_mtimecmp_lo
    BY <1>4 DEF ReadHi, new_mtimecmp_lo
  <2>8. TypeOK'
    BY <2>5, <2>6, <2>7 DEF TypeOK
  <2>9. called_at + cycles <= t + cycles
    BY <2>2, LoAssumption DEF Lo
  <2>10. called_at' + cycles' <= Target'
    <3>1. Target' = LO_RANGE * ((mtime \div LO_RANGE) + Carry) + new_mtimecmp_lo
      BY <2>6, <2>7 DEF Target
    <3>2. Target' \in Int
      BY <1>0, <2>5, <3>1, SumInLo, HiAssumption, LoAssumption DEF Lo, Hi
    <3> QED BY <2>2, <2>3, <2>7, <2>9, <3>1, <3>2, LoAssumption DEF Lo
  <2> QED BY <2>2, <2>7, <2>8, <2>10, <1>0 DEF CallProgress
<1>5. CASE WriteLo
  <2>1. new_mtimecmp_lo' = new_mtimecmp_lo /\ Target' = Target
    BY <1>5 DEF WriteLo, locals, new_mtimecmp_lo, Target
  <2>2. TypeOK'
    BY <1>5, SumInLo DEF WriteLo, TypeOK, locals
  <2> QED BY <1>5, <2>1, <2>2 DEF WriteLo, CallProgress, locals
<1>6. CASE WriteHi
  <2>1. Deadline' = Target
    BY <1>6 DEF WriteHi, CallProgress, Deadline, Target, locals
  <2>2. TypeOK'
    BY <1>6 DEF WriteHi, TypeOK, locals
  <2> QED BY <1>6, <2>1, <2>2 DEF WriteHi, CallProgress, locals
<1>7. CASE UNCHANGED vars
  BY <1>7 DEF vars, locals, TypeOK, CallProgress, Target, Deadline, new_mtimecmp_lo
<1> QED BY <1>1, <1>2, <1>3, <1>4, <1>5, <1>6, <1>7 DEF Next

LEMMA Invariance == Spec => []IInv
BY InitEstablishes, StepPreserves, PTL DEF Spec

(* Registers and locals of timer_sleep keep their widths. *)
THEOREM TimerTypes == Spec => []TypeOK
<1>1. IInv => TypeOK
  BY DEF IInv
<1> QED BY <1>1, Invariance, PTL

(* After timer_sleep has returned, a pending timer interrupt means that the *)
(* requested cycles have passed, however mtime moved between the accesses. *)
THEOREM SleepNeverEarly == Spec => []NeverEarly
<1>1. IInv => NeverEarly
  <2> SUFFICES ASSUME IInv, pc = "idle", called_at # -1, Pending
               PROVE  mtime >= called_at + cycles
    BY DEF NeverEarly
  <2>1. called_at + cycles <= Deadline /\ Deadline <= mtime
    BY LoAssumption, HiAssumption, TimesAssumption
       DEF IInv, CallProgress, Pending, TypeOK, Deadline, Lo, Hi
  <2>2. Deadline \in Int /\ mtime \in Int /\ called_at + cycles \in Int
    BY LoAssumption, HiAssumption, TimesAssumption DEF IInv, TypeOK, Deadline, Lo, Hi
  <2> QED BY <2>1, <2>2
<1> QED BY <1>1, Invariance, PTL
=============================================================================

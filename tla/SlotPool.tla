------------------------------ MODULE SlotPool -------------------------------
(***************************************************************************)
(* What klibc/bitmap.h promises its clients, without words, bits or        *)
(* counters: a set of numbered slots, some of them used.                   *)
(***************************************************************************)
EXTENDS Integers

CONSTANT MAX_SLOTS   \* the largest pool that may be opened

VARIABLES
  pool,   \* the slots that exist; empty until the pool is opened
  used,   \* the slots that may not be handed out
  ret     \* what the last allocation returned, -1 for "no free slot"

poolVars == <<pool, used, ret>>

PoolInit == pool = {} /\ used = {} /\ ret = -1

Open(n) ==
  /\ pool = {}
  /\ pool' = 0 .. n - 1
  /\ used' = {}
  /\ UNCHANGED ret

Take(s) ==
  /\ s \in pool \ used
  /\ used' = used \cup {s}
  /\ ret' = s
  /\ UNCHANGED pool

(* Allocation may fail only when nothing is left. *)
TakeNothing ==
  /\ used = pool
  /\ ret' = -1
  /\ UNCHANGED <<pool, used>>

Release(s) ==
  /\ s \in pool
  /\ used' = used \ {s}
  /\ UNCHANGED <<pool, ret>>

Reserve(S) ==
  /\ used' = used \cup S
  /\ UNCHANGED <<pool, ret>>

PoolNext ==
  \/ \E n \in 0 .. MAX_SLOTS : Open(n)
  \/ \E s \in pool : Take(s) \/ Release(s)
  \/ TakeNothing
  \/ \E S \in SUBSET pool : Reserve(S)

PoolSpec == PoolInit /\ [][PoolNext]_poolVars
=============================================================================

------------------------------- MODULE Bitmap --------------------------------
(***************************************************************************)
(* src/src/klibc/bitmap.c as a state machine: one bitmap and the clients   *)
(* that call it.  A client frees only slots that bitmap_allocate_slot gave *)
(* it, or frees such a slot a second time before anyone else got it;       *)
(* bitmap_mark_as_used reserves for good (kernel image, the bitmap's own   *)
(* pages).                                                                 *)
(***************************************************************************)
EXTENDS BitmapOps

CONSTANTS
  BUF_WORDS,    \* bound: words in the largest buffer a client passes to bitmap_init
  MAX_MARK      \* bound: largest slots_to_mark a client passes

ASSUME BufWordsAssumption == BUF_WORDS \in Nat
ASSUME MaxMarkAssumption == MAX_MARK \in Nat
\* free_slots_count can count every slot of the largest buffer.
ASSUME CapacityAssumption == BUF_WORDS * WORD_SIZE < UINT_RANGE

VARIABLES
  bm,       \* struct bitmap
  ret,      \* value the last bitmap_allocate_slot returned
  halt,     \* "no", or the assertion whose failure halted the hart
  debug,    \* build type: TRUE without NDEBUG, fixed for a run
  owned     \* history: slots clients got from bitmap_allocate_slot and still hold

vars == <<bm, ret, halt, debug, owned>>

Init ==
  /\ bm = ZeroBitmap
  /\ ret = -1
  /\ halt = "no"
  /\ debug \in BOOLEAN
  /\ owned = {}

(* A bitmap is initialised once by its owner.  A NULL buffer fails the     *)
(* assertion of a debug build; otherwise it, and size 0, return early.     *)
bitmap_init(slots_is_null, size) ==
  /\ halt = "no"
  /\ bm.slots_size = 0
  /\ IF slots_is_null /\ debug
     THEN halt' = "init: slots != NULL" /\ UNCHANGED bm
     ELSE /\ bm' = IF slots_is_null \/ size = 0 THEN bm ELSE InitializedBitmap(size)
          /\ UNCHANGED halt
  /\ UNCHANGED <<ret, debug, owned>>

(* The bitmap is the client's own, so that the test for NULL does not      *)
(* return; the only caller passes the address of an object.                *)
bitmap_allocate_slot ==
  /\ halt = "no"
  /\ ret' = AllocatedSlot(bm)
  /\ bm' = AfterAllocate(bm)
  /\ owned' = owned \cup ({AllocatedSlot(bm)} \ {-1})
  /\ UNCHANGED <<halt, debug>>

(* The assertion compares the slot number with the number of words. *)
FreeAssertion(slot) == bm.slots_size > slot

bitmap_free_slot(slot) ==
  /\ halt = "no"
  /\ slot \in owned \cup Clear(bm)
  /\ IF debug /\ ~FreeAssertion(slot)
     THEN halt' = "free: slots_size > slot" /\ UNCHANGED <<bm, owned>>
     ELSE bm' = AfterFree(bm, slot) /\ owned' = owned \ {slot} /\ UNCHANGED halt
  /\ UNCHANGED <<ret, debug>>

bitmap_mark_as_used(first_slot, slots_to_mark) ==
  /\ halt = "no"
  /\ bm' = AfterMark(bm, first_slot, slots_to_mark)
  /\ UNCHANGED <<ret, halt, debug, owned>>

Next ==
  \/ \E null \in BOOLEAN, size \in 0 .. BUF_WORDS : bitmap_init(null, size)
  \/ bitmap_allocate_slot
  \/ \E slot \in Slots(bm) : bitmap_free_slot(slot)
  \/ \E first \in 0 .. UINT_RANGE - 1, n \in 0 .. MAX_MARK : bitmap_mark_as_used(first, n)

Spec == Init /\ [][Next]_vars

-----------------------------------------------------------------------------
TypeOK ==
  /\ bm \in [slots_size : 0 .. BUF_WORDS, free_slots_count : 0 .. UINT_RANGE - 1,
             last_freed : {0}, words : [0 .. bm.slots_size - 1 -> SUBSET Bits]]
  /\ ret \in -1 .. Capacity(bm) - 1
  /\ halt \in {"no", "init: slots != NULL", "free: slots_size > slot"}
  /\ debug \in BOOLEAN
  /\ owned \in SUBSET Slots(bm)

(* A slot some client holds is never clear: however allocations, frees,    *)
(* repeated frees and reservations interleave, bitmap_allocate_slot cannot *)
(* hand it to a second client.                                             *)
OwnedStayUsed == owned \subseteq Used(bm)

(* free_slots_count never falls short of the clear slots, and counts them  *)
(* exactly when every used slot is held by a client: allocations, frees and *)
(* repeated frees keep it exact and cannot make it wrap, reservations by    *)
(* bitmap_mark_as_used can only make it too high.                          *)
CountsClearSlots ==
  /\ bm.free_slots_count >= Cardinality(Clear(bm))
  /\ bm.free_slots_count = Cardinality(Clear(bm)) <=> Used(bm) = owned

(* A slot handed out by bitmap_allocate_slot was clear, and every slot     *)
(* below it was used.                                                      *)
FreshFirstFit ==
  [][\A s \in owned' \ owned : s \notin Used(bm) /\ 0 .. s - 1 \subseteq Used(bm)]_vars

(* Every call does what the abstract pool of slots allows; in particular   *)
(* bitmap_allocate_slot reports -1 only when no slot is clear.             *)
Pool == INSTANCE SlotPool
          WITH MAX_SLOTS <- BUF_WORDS * WORD_SIZE, pool <- Slots(bm), used <- Used(bm)
ImplementsSlotPool == Pool!PoolSpec

(* A client can free every slot it holds: slots_size is "how many 32-bit   *)
(* or 64-bit chunks we have", so the assertion in bitmap_free_slot must    *)
(* not halt the hart for a slot of the bitmap.                             *)
LegalFreeNeverHalts == [][\A s \in owned : bitmap_free_slot(s) => halt' = "no"]_vars
=============================================================================

------------------------------ MODULE BitmapOps ------------------------------
(***************************************************************************)
(* The functions of src/src/klibc/bitmap.c as operators on a value of      *)
(* `struct bitmap`.  Bitmap.tla drives them as a state machine of its own, *)
(* PhysAlloc.tla uses them for the physical page allocator.                *)
(*                                                                         *)
(* A machine word is the set of the positions of its 1 bits, so `|` is     *)
(* union, `& ~` is difference and `~w` is Bits \ w.  slots_ptr is          *)
(* represented by the array it points to, `words`.                         *)
(***************************************************************************)
EXTENDS Integers, FiniteSetsExt

CONSTANTS
  WORD_SIZE,    \* bits in a machine word (__riscv_xlen)
  UINT_RANGE    \* number of values of an unsigned int (2^32): uint arithmetic wraps

ASSUME WordSizeAssumption == WORD_SIZE \in Nat \ {0}
ASSUME UintAssumption == UINT_RANGE \in Nat \ {0}

Bits == 0 .. WORD_SIZE - 1

\* The word with every bit set.
WORD_MAX == Bits

\* A bitmap in static storage before bitmap_init: all fields zero, slots_ptr NULL.
ZeroBitmap ==
  [slots_size |-> 0, free_slots_count |-> 0, last_freed |-> 0,
   words |-> [i \in 0 .. -1 |-> {}]]

Capacity(bm) == WORD_SIZE * bm.slots_size
Slots(bm) == 0 .. Capacity(bm) - 1

bitmap_is_used(bm, slot_no) ==
  (slot_no % WORD_SIZE) \in bm.words[slot_no \div WORD_SIZE]

Used(bm) == {s \in Slots(bm) : bitmap_is_used(bm, s)}
Clear(bm) == Slots(bm) \ Used(bm)

-----------------------------------------------------------------------------
(* bitmap_init past its early return: the buffer is cleared as well. *)
InitializedBitmap(size) ==
  [slots_size |-> size,
   free_slots_count |-> (size * WORD_SIZE) % UINT_RANGE,
   last_freed |-> 0,
   words |-> [i \in 0 .. size - 1 |-> {}]]

(* Mutant of count_trailing_zeroes: counts from the other end. *)
HighestBit(w) == IF w = {} THEN WORD_SIZE ELSE Max(w)

(* Number of 0 bits below the lowest 1 bit of the word; the word size if    *)
(* there is none.                                                          *)
count_trailing_zeroes(w) == IF w = {} THEN WORD_SIZE ELSE Min(w)

(* Mutants of NotFull: the scan skips no word, or misses the first one. *)
EveryWord(bm) == 0 .. bm.slots_size - 1
NotFullFromOne(bm) == {i \in 1 .. bm.slots_size - 1 : bm.words[i] # WORD_MAX}

(* The words the scan of bitmap_allocate_slot does not skip. *)
NotFull(bm) == {i \in 0 .. bm.slots_size - 1 : bm.words[i] # WORD_MAX}

(* The slot bitmap_allocate_slot returns, -1 if every word is full. *)
AllocatedSlot(bm) ==
  IF NotFull(bm) = {}
  THEN -1
  ELSE LET i == Min(NotFull(bm))
       IN  WORD_SIZE * i + count_trailing_zeroes(Bits \ bm.words[i])

(* The struct after a write to its words and to free_slots_count: the only  *)
(* fields the functions below assign.                                      *)
Written(bm, words, count) ==
  [slots_size |-> bm.slots_size, free_slots_count |-> count,
   last_freed |-> bm.last_freed, words |-> words]

(* Mutant of AfterAllocate: `=` instead of `|=`. *)
OverwritingAllocate(bm) ==
  IF NotFull(bm) = {}
  THEN bm
  ELSE LET i == Min(NotFull(bm))
           offset == count_trailing_zeroes(Bits \ bm.words[i])
       IN  Written(bm, [bm.words EXCEPT ![i] = {offset}],
                   (bm.free_slots_count - 1) % UINT_RANGE)

(* The bitmap after bitmap_allocate_slot has returned. *)
AfterAllocate(bm) ==
  IF NotFull(bm) = {}
  THEN bm
  ELSE LET i == Min(NotFull(bm))
           offset == count_trailing_zeroes(Bits \ bm.words[i])
       IN  Written(bm, [bm.words EXCEPT ![i] = @ \cup {offset}],
                   (bm.free_slots_count - 1) % UINT_RANGE)

(* Mutant of AfterFree: every free is counted. *)
CountingFree(bm, slot) ==
  LET word == slot \div WORD_SIZE
  IN  Written(bm, [bm.words EXCEPT ![word] = @ \ {slot % WORD_SIZE}],
              (bm.free_slots_count + 1) % UINT_RANGE)

(* bitmap_free_slot past its assertion: clearing a clear bit does not count. *)
AfterFree(bm, slot) ==
  LET word == slot \div WORD_SIZE
      offset == slot % WORD_SIZE
  IN  Written(bm, [bm.words EXCEPT ![word] = @ \ {offset}],
              IF offset \in bm.words[word]
              THEN (bm.free_slots_count + 1) % UINT_RANGE
              ELSE bm.free_slots_count)

(* _enable_bit for every i of the loop of bitmap_mark_as_used; the end of    *)
(* the range is computed in uint arithmetic, and _enable_bit refuses an     *)
(* index past the last word.  free_slots_count is not touched.             *)
AfterMark(bm, first_slot, slots_to_mark) ==
  LET last_slot == (first_slot + slots_to_mark) % UINT_RANGE
      marked(i) == {b \in Bits : WORD_SIZE * i + b \in first_slot .. last_slot - 1}
  IN  Written(bm, [i \in 0 .. bm.slots_size - 1 |-> bm.words[i] \cup marked(i)],
              bm.free_slots_count)
=============================================================================

--------------------------- MODULE BitmapOpsProofs ---------------------------
(***************************************************************************)
(* What the functions of klibc/bitmap.c do to the set of used slots, for   *)
(* every word size, number of words and width of unsigned int.             *)
(***************************************************************************)
EXTENDS BitmapOps, FiniteSetTheorems, WellFoundedInduction, TLAPS

(* A non-empty set of naturals has a least element, so Min is what the     *)
(* scans of bitmap_allocate_slot and count_trailing_zeroes stop at.        *)
LEMMA MinIsLeast ==
  ASSUME NEW S \in SUBSET Nat, S # {}
  PROVE  Min(S) \in S /\ \A y \in S : Min(S) <= y
<1>1. \E x \in S : \A y \in S : ~ (<<y, x>> \in OpToRel(<, Nat))
  BY NatLessThanWellFounded, WFMin, Zenon
<1>2. \E x \in S : \A y \in S : x <= y
  <2>1. PICK x \in S : \A y \in S : ~ (<<y, x>> \in OpToRel(<, Nat))
    BY <1>1
  <2>2. ASSUME NEW y \in S PROVE x <= y
    <3>1. <<y, x>> \in Nat \X Nat
      OBVIOUS
    <3>2. ~ (y < x)
      BY <2>1, <3>1 DEF OpToRel
    <3> QED BY <3>2
  <2> QED BY <2>2
<1> QED BY <1>2 DEF Min

LEMMA WordsMonotone ==
  ASSUME NEW i \in Nat, NEW j \in Nat, i <= j
  PROVE  WORD_SIZE * i <= WORD_SIZE * j
BY WordSizeAssumption

(* Every slot number splits into one word index and one bit position. *)
LEMMA SplitSlot ==
  ASSUME NEW s \in Nat
  PROVE  /\ s \div WORD_SIZE \in Nat
         /\ s % WORD_SIZE \in Bits
         /\ s = WORD_SIZE * (s \div WORD_SIZE) + (s % WORD_SIZE)
BY WordSizeAssumption DEF Bits

(* Word index and bit position are recovered from the slot number. *)
LEMMA JoinSlot ==
  ASSUME NEW i \in Nat, NEW o \in Bits
  PROVE  /\ WORD_SIZE * i + o \in Nat
         /\ (WORD_SIZE * i + o) \div WORD_SIZE = i
         /\ (WORD_SIZE * i + o) % WORD_SIZE = o
<1>1. WORD_SIZE * i + o \in Nat
  BY WordSizeAssumption DEF Bits
<1>2. ASSUME NEW j \in Nat, NEW p \in Bits, WORD_SIZE * i + o = WORD_SIZE * j + p
      PROVE  i = j /\ o = p
  BY <1>2, WordSizeAssumption DEF Bits
<1> QED BY <1>1, <1>2, SplitSlot

(* The type of the struct. *)
BitmapType(b) ==
  b \in [slots_size : Nat, free_slots_count : 0 .. UINT_RANGE - 1,
         last_freed : {0}, words : [0 .. b.slots_size - 1 -> SUBSET Bits]]

(* A slot of the bitmap lies in one of its words ... *)
LEMMA SlotInWord ==
  ASSUME NEW b, BitmapType(b), NEW s \in Slots(b)
  PROVE  /\ s \in Nat
         /\ s \div WORD_SIZE \in 0 .. b.slots_size - 1
         /\ s % WORD_SIZE \in Bits
         /\ s = WORD_SIZE * (s \div WORD_SIZE) + (s % WORD_SIZE)
<1>1. s \in Nat /\ s < WORD_SIZE * b.slots_size /\ b.slots_size \in Nat
  BY WordSizeAssumption DEF Slots, Capacity, BitmapType
<1>2. /\ s \div WORD_SIZE \in Nat
      /\ s % WORD_SIZE \in Bits
      /\ s = WORD_SIZE * (s \div WORD_SIZE) + (s % WORD_SIZE)
  BY <1>1, SplitSlot
<1>3. s \div WORD_SIZE < b.slots_size
  <2>1. ASSUME b.slots_size <= s \div WORD_SIZE
        PROVE  WORD_SIZE * b.slots_size <= WORD_SIZE * (s \div WORD_SIZE)
    BY <1>1, <1>2, <2>1, WordSizeAssumption
  <2> QED BY <1>1, <1>2, <2>1, WordSizeAssumption DEF Bits
<1> QED BY <1>1, <1>2, <1>3

(* ... and every bit of every word is a slot, used iff the bit is set. *)
LEMMA BitIsSlot ==
  ASSUME NEW b, BitmapType(b), NEW i \in 0 .. b.slots_size - 1, NEW o \in Bits
  PROVE  /\ WORD_SIZE * i + o \in Slots(b)
         /\ WORD_SIZE * i + o \in Used(b) <=> o \in b.words[i]
<1>1. i \in Nat /\ b.slots_size \in Nat /\ i + 1 <= b.slots_size
  BY DEF BitmapType
<1>2. WORD_SIZE * (i + 1) <= WORD_SIZE * b.slots_size
  BY <1>1, WordSizeAssumption
<1>3. WORD_SIZE * i + o \in Slots(b)
  BY <1>1, <1>2, WordSizeAssumption DEF Slots, Capacity, Bits
<1> QED BY <1>1, <1>3, JoinSlot DEF Used, bitmap_is_used

(* bitmap_init leaves every slot clear. *)
LEMMA InitClears ==
  ASSUME NEW size \in Nat
  PROVE  LET c == InitializedBitmap(size)
         IN  /\ BitmapType(c)
             /\ c.slots_size = size
             /\ Used(c) = {}
             /\ c.free_slots_count = (size * WORD_SIZE) % UINT_RANGE
<1> DEFINE c == InitializedBitmap(size)
<1>1. c.slots_size = size /\ c.words = [i \in 0 .. size - 1 |-> {}]
      /\ c.free_slots_count = (size * WORD_SIZE) % UINT_RANGE
  BY DEF InitializedBitmap
<1>2. size * WORD_SIZE \in Nat
  BY WordSizeAssumption
<1>3. (size * WORD_SIZE) % UINT_RANGE \in 0 .. UINT_RANGE - 1
  BY <1>2, UintAssumption
<1>4. BitmapType(c)
  BY <1>3 DEF BitmapType, InitializedBitmap
<1>5. Used(c) = {}
  <2>1. ASSUME NEW s \in Slots(c) PROVE ~bitmap_is_used(c, s)
    BY <1>1, <1>4, SlotInWord DEF bitmap_is_used
  <2> QED BY <2>1 DEF Used
<1> QED BY <1>1, <1>4, <1>5

(* When the scan finds only full words, every slot is used. *)
LEMMA FullMeansUsed ==
  ASSUME NEW b, BitmapType(b), NotFull(b) = {}
  PROVE  AllocatedSlot(b) = -1 /\ AfterAllocate(b) = b /\ Used(b) = Slots(b)
<1>1. ASSUME NEW s \in Slots(b) PROVE bitmap_is_used(b, s)
  BY SlotInWord DEF NotFull, WORD_MAX, bitmap_is_used
<1> QED BY <1>1 DEF Used, AllocatedSlot, AfterAllocate

(* Otherwise bitmap_allocate_slot takes the lowest clear slot, sets its    *)
(* bit and no other, and decrements the counter.                           *)
LEMMA AllocateTakesLowest ==
  ASSUME NEW b, BitmapType(b), NotFull(b) # {}
  PROVE  LET s == AllocatedSlot(b)
             c == AfterAllocate(b)
         IN  /\ s \in Slots(b) \ Used(b)
             /\ 0 .. s - 1 \subseteq Used(b)
             /\ BitmapType(c)
             /\ c.slots_size = b.slots_size
             /\ Used(c) = Used(b) \cup {s}
             /\ c.free_slots_count = (b.free_slots_count - 1) % UINT_RANGE
<1> DEFINE i == Min(NotFull(b))
           o == count_trailing_zeroes(Bits \ b.words[i])
           s == AllocatedSlot(b)
           c == AfterAllocate(b)
<1>1. /\ i \in 0 .. b.slots_size - 1
      /\ b.words[i] \in SUBSET Bits
      /\ b.words[i] # Bits
      /\ \A j \in 0 .. b.slots_size - 1 : j < i => b.words[j] = Bits
  <2>1. NotFull(b) \in SUBSET Nat
    BY DEF NotFull, BitmapType
  <2>2. i \in NotFull(b) /\ \A y \in NotFull(b) : i <= y
    BY <2>1, MinIsLeast
  <2>3. b.slots_size \in Nat /\ b.words \in [0 .. b.slots_size - 1 -> SUBSET Bits]
    BY DEF BitmapType
  <2> HIDE DEF i
  <2>4. i \in 0 .. b.slots_size - 1 /\ b.words[i] # Bits
    BY <2>2 DEF NotFull, WORD_MAX
  <2>5. ASSUME NEW j \in 0 .. b.slots_size - 1, j < i PROVE b.words[j] = Bits
    <3>1. j \notin NotFull(b)
      BY <2>2, <2>3, <2>4, <2>5
    <3> QED BY <3>1 DEF NotFull, WORD_MAX
  <2> QED BY <2>3, <2>4, <2>5
<1>2. o \in Bits /\ o \notin b.words[i] /\ \A p \in Bits : p < o => p \in b.words[i]
  <2> HIDE DEF i
  <2>1. Bits \ b.words[i] \in SUBSET Nat /\ Bits \ b.words[i] # {}
    <3>1. Bits \ b.words[i] # {}
      BY <1>1, Zenon
    <3> QED BY <3>1, WordSizeAssumption DEF Bits
  <2>2. o = Min(Bits \ b.words[i])
    BY <2>1 DEF count_trailing_zeroes
  <2> HIDE DEF o
  <2>3. o \in Bits \ b.words[i] /\ \A y \in Bits \ b.words[i] : o <= y
    BY <2>1, <2>2, MinIsLeast
  <2>4. Bits \subseteq Int
    BY WordSizeAssumption DEF Bits
  <2> QED BY <2>3, <2>4
<1>3. s = WORD_SIZE * i + o
  BY DEF AllocatedSlot
<1>4. s \in Slots(b) \ Used(b)
  BY <1>1, <1>2, <1>3, BitIsSlot
<1>5. 0 .. s - 1 \subseteq Used(b)
  <2> SUFFICES ASSUME NEW t \in 0 .. s - 1 PROVE t \in Used(b)
    OBVIOUS
  <2> DEFINE j == t \div WORD_SIZE
             p == t % WORD_SIZE
  <2>1. t \in Slots(b) /\ s \in Nat
    BY <1>4, WordSizeAssumption DEF Slots, Capacity, BitmapType
  <2>2. j \in 0 .. b.slots_size - 1 /\ p \in Bits /\ t = WORD_SIZE * j + p
    BY <2>1, SlotInWord
  <2> HIDE DEF i, o, s, j, p
  <2>3. j <= i
    <3> SUFFICES ASSUME i + 1 <= j PROVE FALSE
      BY <1>1, <2>2 DEF BitmapType
    <3>1. i \in Nat /\ j \in Nat /\ i + 1 \in Nat
      BY <1>1, <2>2 DEF BitmapType
    <3>2. WORD_SIZE * (i + 1) <= WORD_SIZE * j
      BY <3>1, WordsMonotone
    <3>3. WORD_SIZE * i + o < WORD_SIZE * (i + 1)
      BY <1>2, <3>1, WordSizeAssumption DEF Bits
    <3> QED BY <1>2, <1>3, <2>1, <2>2, <3>1, <3>2, <3>3, WordSizeAssumption DEF Bits
  <2>4. p \in b.words[j]
    <3>1. CASE j = i
      <4>1. p < o
        BY <1>1, <1>2, <1>3, <2>1, <2>2, <3>1, WordSizeAssumption DEF Bits
      <4> QED BY <1>2, <2>2, <3>1, <4>1
    <3>2. CASE j < i
      BY <1>1, <2>2, <3>2
    <3> QED BY <1>1, <2>2, <2>3, <3>1, <3>2
  <2> QED BY <2>2, <2>4, BitIsSlot
<1>6. /\ BitmapType(c)
      /\ c.slots_size = b.slots_size
      /\ c.free_slots_count = (b.free_slots_count - 1) % UINT_RANGE
      /\ c.words = [b.words EXCEPT ![i] = b.words[i] \cup {o}]
  <2>1. c = Written(b, [b.words EXCEPT ![i] = b.words[i] \cup {o}],
                    (b.free_slots_count - 1) % UINT_RANGE)
    BY DEF AfterAllocate
  <2>2. (b.free_slots_count - 1) % UINT_RANGE \in 0 .. UINT_RANGE - 1
    BY UintAssumption DEF BitmapType
  <2> HIDE DEF i, o, c
  <2> QED BY <1>1, <1>2, <2>1, <2>2 DEF BitmapType, Written
<1>7. Used(c) = Used(b) \cup {s}
  <2>1. Slots(c) = Slots(b)
    BY <1>6 DEF Slots, Capacity
  <2>2. ASSUME NEW t \in Slots(b)
        PROVE  bitmap_is_used(c, t) <=> bitmap_is_used(b, t) \/ t = s
    <3> DEFINE j == t \div WORD_SIZE
               p == t % WORD_SIZE
    <3>1. j \in 0 .. b.slots_size - 1 /\ p \in Bits /\ t = WORD_SIZE * j + p
      BY SlotInWord
    <3>2. t = s => j = i /\ p = o
      BY <1>1, <1>2, <1>3, JoinSlot
    <3>3. b.words \in [0 .. b.slots_size - 1 -> SUBSET Bits]
      BY DEF BitmapType
    <3> HIDE DEF j, p, i, o, s, c
    <3>4. c.words[j] = IF j = i THEN b.words[j] \cup {o} ELSE b.words[j]
      BY <1>6, <3>1, <3>3
    <3>5. p \in c.words[j] <=> p \in b.words[j] \/ t = s
      BY <1>3, <3>1, <3>2, <3>4
    <3> QED BY <3>5 DEF bitmap_is_used, j, p
  <2> QED BY <1>4, <2>1, <2>2 DEF Used
<1> QED BY <1>4, <1>5, <1>6, <1>7

(* bitmap_free_slot clears the bit of the slot and no other, and counts it  *)
(* only if the bit was set.                                                *)
LEMMA FreeClears ==
  ASSUME NEW b, BitmapType(b), NEW s \in Slots(b)
  PROVE  LET c == AfterFree(b, s)
         IN  /\ BitmapType(c)
             /\ c.slots_size = b.slots_size
             /\ Used(c) = Used(b) \ {s}
             /\ c.free_slots_count = IF s \in Used(b)
                                     THEN (b.free_slots_count + 1) % UINT_RANGE
                                     ELSE b.free_slots_count
<1> DEFINE i == s \div WORD_SIZE
           o == s % WORD_SIZE
           c == AfterFree(b, s)
<1>1. i \in 0 .. b.slots_size - 1 /\ i \in Nat /\ o \in Bits /\ s = WORD_SIZE * i + o
  BY SlotInWord
<1>2. b.words \in [0 .. b.slots_size - 1 -> SUBSET Bits]
      /\ b.free_slots_count \in 0 .. UINT_RANGE - 1
  BY DEF BitmapType
<1>3. s \in Used(b) <=> o \in b.words[i]
  BY DEF Used, bitmap_is_used
<1>4. c = Written(b, [b.words EXCEPT ![i] = b.words[i] \ {o}],
                  IF o \in b.words[i] THEN (b.free_slots_count + 1) % UINT_RANGE
                                      ELSE b.free_slots_count)
  BY DEF AfterFree
<1> HIDE DEF i, o, c
<1>5. /\ c.slots_size = b.slots_size
      /\ c.words = [b.words EXCEPT ![i] = b.words[i] \ {o}]
      /\ c.free_slots_count = IF s \in Used(b)
                              THEN (b.free_slots_count + 1) % UINT_RANGE
                              ELSE b.free_slots_count
  BY <1>3, <1>4 DEF Written
<1>6. BitmapType(c)
  <2>1. c.free_slots_count \in 0 .. UINT_RANGE - 1
    BY <1>2, <1>5, UintAssumption
  <2> QED BY <1>1, <1>2, <1>4, <1>5, <2>1 DEF BitmapType, Written
<1>7. Used(c) = Used(b) \ {s}
  <2>1. Slots(c) = Slots(b)
    BY <1>5 DEF Slots, Capacity
  <2>2. ASSUME NEW t \in Slots(b)
        PROVE  bitmap_is_used(c, t) <=> bitmap_is_used(b, t) /\ t # s
    <3> DEFINE j == t \div WORD_SIZE
               p == t % WORD_SIZE
    <3>1. j \in 0 .. b.slots_size - 1 /\ p \in Bits /\ t = WORD_SIZE * j + p
      BY SlotInWord
    <3>2. t = s => j = i /\ p = o
      BY DEF i, o
    <3> HIDE DEF j, p
    <3>3. c.words[j] = IF j = i THEN b.words[j] \ {o} ELSE b.words[j]
      BY <1>2, <1>5, <3>1
    <3>4. p \in c.words[j] <=> p \in b.words[j] /\ t # s
      BY <1>1, <3>1, <3>2, <3>3
    <3> QED BY <3>4 DEF bitmap_is_used, j, p
  <2> QED BY <2>1, <2>2 DEF Used
<1> QED BY <1>5, <1>6, <1>7 DEF c

(* bitmap_mark_as_used sets the bits of its range that lie in the bitmap    *)
(* and no other, and clears none, whatever range it is given.              *)
LEMMA MarkAdds ==
  ASSUME NEW b, BitmapType(b), NEW first \in Nat, NEW n \in Nat
  PROVE  LET c == AfterMark(b, first, n)
             last == (first + n) % UINT_RANGE
         IN  /\ BitmapType(c)
             /\ c.slots_size = b.slots_size
             /\ c.free_slots_count = b.free_slots_count
             /\ Used(c) = Used(b) \cup {s \in Slots(b) : first <= s /\ s < last}
<1> DEFINE last == (first + n) % UINT_RANGE
           marked(i) == {x \in Bits : WORD_SIZE * i + x \in first .. last - 1}
           c == AfterMark(b, first, n)
<1>1. c = Written(b, [i \in 0 .. b.slots_size - 1 |-> b.words[i] \cup marked(i)],
                  b.free_slots_count)
  BY DEF AfterMark
<1>2. \A i : marked(i) \in SUBSET Bits
  OBVIOUS
<1>3. b.words \in [0 .. b.slots_size - 1 -> SUBSET Bits]
  BY DEF BitmapType
<1>4. last \in Int
  BY UintAssumption
<1> HIDE DEF marked, c, last
<1>5. /\ c.slots_size = b.slots_size
      /\ c.free_slots_count = b.free_slots_count
      /\ c.words = [i \in 0 .. b.slots_size - 1 |-> b.words[i] \cup marked(i)]
  BY <1>1 DEF Written
<1>6. BitmapType(c)
  BY <1>1, <1>2, <1>3, <1>5 DEF BitmapType, Written
<1>7. Used(c) = Used(b) \cup {s \in Slots(b) : first <= s /\ s < last}
  <2>1. Slots(c) = Slots(b)
    BY <1>5 DEF Slots, Capacity
  <2>2. ASSUME NEW t \in Slots(b)
        PROVE  bitmap_is_used(c, t) <=> bitmap_is_used(b, t) \/ (first <= t /\ t < last)
    <3> DEFINE j == t \div WORD_SIZE
               p == t % WORD_SIZE
    <3>1. j \in 0 .. b.slots_size - 1 /\ p \in Bits /\ t = WORD_SIZE * j + p /\ t \in Nat
      BY SlotInWord
    <3> HIDE DEF j, p
    <3>2. p \in marked(j) <=> first <= t /\ t < last
      <4>1. p \in marked(j) <=> WORD_SIZE * j + p \in first .. last - 1
        BY <3>1 DEF marked
      <4> QED BY <1>4, <3>1, <4>1
    <3>3. c.words[j] = b.words[j] \cup marked(j)
      BY <1>5, <3>1
    <3>4. p \in c.words[j] <=> p \in b.words[j] \/ (first <= t /\ t < last)
      BY <3>2, <3>3
    <3> QED BY <3>4 DEF bitmap_is_used, j, p
  <2> QED BY <2>1, <2>2 DEF Used
<1> QED BY <1>5, <1>6, <1>7 DEF c, last

(* The bitmap before bitmap_init has no slots. *)
LEMMA ZeroHasNoSlots ==
  BitmapType(ZeroBitmap) /\ NotFull(ZeroBitmap) = {} /\ Slots(ZeroBitmap) = {}
<1>1. BitmapType(ZeroBitmap)
  BY WordSizeAssumption, UintAssumption DEF ZeroBitmap, BitmapType
<1>2. NotFull(ZeroBitmap) = {}
  BY DEF ZeroBitmap, NotFull
<1>3. Slots(ZeroBitmap) = {}
  BY WordSizeAssumption DEF ZeroBitmap, Slots, Capacity
<1> QED BY <1>1, <1>2, <1>3

LEMMA SlotsFinite ==
  ASSUME NEW b, BitmapType(b)
  PROVE  IsFiniteSet(Slots(b)) /\ Cardinality(Slots(b)) = Capacity(b) /\ Capacity(b) \in Nat
<1>1. Capacity(b) \in Nat
  BY WordSizeAssumption DEF Capacity, BitmapType
<1>2. 0 \in Int /\ Capacity(b) - 1 \in Int
  BY <1>1
<1>3. IsFiniteSet(Slots(b))
      /\ Cardinality(Slots(b)) = IF 0 > Capacity(b) - 1 THEN 0 ELSE Capacity(b) - 1 - 0 + 1
  BY <1>2, FS_Interval DEF Slots
<1> QED BY <1>1, <1>3
=============================================================================

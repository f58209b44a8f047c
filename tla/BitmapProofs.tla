---------------------------- MODULE BitmapProofs -----------------------------
(***************************************************************************)
(* Proofs about klibc/bitmap.c for every word size, buffer size and width  *)
(* of unsigned int.                                                        *)
(***************************************************************************)
EXTENDS Bitmap, BitmapOpsProofs

LEMMA TypeOfBitmap == TypeOK => BitmapType(bm) /\ bm.slots_size <= BUF_WORDS
<1>1. 0 .. BUF_WORDS \subseteq Nat /\ \A n \in 0 .. BUF_WORDS : n <= BUF_WORDS
  BY BufWordsAssumption
<1> QED BY <1>1 DEF TypeOK, BitmapType

(* A bitmap of at most BUF_WORDS words is what TypeOK asks for. *)
LEMMA TypeInBuffer ==
  ASSUME NEW b, BitmapType(b), b.slots_size <= BUF_WORDS
  PROVE  b \in [slots_size : 0 .. BUF_WORDS, free_slots_count : 0 .. UINT_RANGE - 1,
                last_freed : {0}, words : [0 .. b.slots_size - 1 -> SUBSET Bits]]
<1>1. b.slots_size \in 0 .. BUF_WORDS
  BY BufWordsAssumption DEF BitmapType
<1> QED BY <1>1 DEF BitmapType

(* The counter can count every slot of the bitmap. *)
LEMMA CapacityCounted ==
  ASSUME NEW b, BitmapType(b), b.slots_size <= BUF_WORDS
  PROVE  Capacity(b) \in 0 .. BUF_WORDS * WORD_SIZE
<1>1. b.slots_size \in Nat
  BY DEF BitmapType
<1>2. WORD_SIZE * b.slots_size <= WORD_SIZE * BUF_WORDS
  BY <1>1, BufWordsAssumption, WordsMonotone
<1> QED BY <1>1, <1>2, BufWordsAssumption, WordSizeAssumption DEF Capacity

(* bitmap_init leaves every slot clear and, as the largest buffer has fewer *)
(* slots than an unsigned int has values, counted.                         *)
LEMMA InitCounts ==
  ASSUME NEW size \in 1 .. BUF_WORDS
  PROVE  LET c == InitializedBitmap(size)
         IN  /\ BitmapType(c) /\ c.slots_size <= BUF_WORDS
             /\ Slots(c) = 0 .. WORD_SIZE * size - 1
             /\ WORD_SIZE * size \in 0 .. BUF_WORDS * WORD_SIZE
             /\ Used(c) = {}
             /\ c.free_slots_count = Capacity(c)
<1> DEFINE c == InitializedBitmap(size)
<1>1. size \in Nat /\ size <= BUF_WORDS
  BY BufWordsAssumption
<1>2. /\ BitmapType(c) /\ c.slots_size = size /\ Used(c) = {}
      /\ c.free_slots_count = (size * WORD_SIZE) % UINT_RANGE
  BY <1>1, InitClears
<1> HIDE DEF c
<1>3. Capacity(c) = WORD_SIZE * size /\ Capacity(c) \in 0 .. BUF_WORDS * WORD_SIZE
  BY <1>1, <1>2, CapacityCounted DEF Capacity
<1>4. (size * WORD_SIZE) % UINT_RANGE = WORD_SIZE * size
  <2>1. size * WORD_SIZE = WORD_SIZE * size /\ WORD_SIZE * size \in 0 .. UINT_RANGE - 1
    BY <1>1, <1>3, WordSizeAssumption, BufWordsAssumption, UintAssumption, CapacityAssumption
  <2> QED BY <2>1, UintAssumption
<1> QED BY <1>1, <1>2, <1>3, <1>4 DEF Slots, c

(* What the counter really counts: the slots that no client holds, the     *)
(* reserved ones included.                                                 *)
CountTracksOwned == bm.free_slots_count = Capacity(bm) - Cardinality(owned)

(* The inductive invariant: the counter is only right because a held slot   *)
(* is always a set bit, so that a free of a held slot is counted and a      *)
(* repeated free is not.                                                   *)
IInv == TypeOK /\ OwnedStayUsed /\ CountTracksOwned

LEMMA InitEstablishes == Init => IInv
<1> SUFFICES ASSUME Init PROVE IInv
  OBVIOUS
<1>1. BitmapType(bm) /\ bm.slots_size = 0 /\ bm.free_slots_count = 0
  BY WordSizeAssumption, UintAssumption, BufWordsAssumption
     DEF Init, ZeroBitmap, BitmapType
<1>2. Capacity(bm) = 0
  BY <1>1, WordSizeAssumption DEF Capacity
<1>3. TypeOK
  BY <1>1, <1>2, BufWordsAssumption, TypeInBuffer DEF Init, TypeOK
<1>4. CountTracksOwned
  BY <1>1, <1>2, FS_EmptySet DEF Init, CountTracksOwned
<1> QED BY <1>3, <1>4 DEF IInv, Init, OwnedStayUsed

(* What bitmap_init can do: return early, halt, or install a cleared bitmap. *)
LEMMA InitCases ==
  ASSUME NEW null \in BOOLEAN, NEW size \in 0 .. BUF_WORDS, bitmap_init(null, size)
  PROVE  /\ bm.slots_size = 0
         /\ ret' = ret /\ debug' = debug /\ owned' = owned
         /\ \/ bm' = bm
            \/ size # 0 /\ bm' = InitializedBitmap(size)
         /\ halt' = halt \/ halt' = "init: slots != NULL"
BY Zenon DEF bitmap_init

(* An initialised bitmap replaces the empty one only while it is empty.    *)
LEMMA InitPreserves ==
  ASSUME IInv, NEW null \in BOOLEAN, NEW size \in 0 .. BUF_WORDS,
         bitmap_init(null, size)
  PROVE  IInv'
<1>1. bm.slots_size = 0
  BY InitCases, Zenon
<1>2. ret' = ret /\ debug' = debug /\ owned' = owned
  BY InitCases, Zenon
<1>3. bm' = bm \/ (size # 0 /\ bm' = InitializedBitmap(size))
  BY InitCases, Zenon
<1>4. halt' = halt \/ halt' = "init: slots != NULL"
  BY InitCases, Zenon
<1>5. Capacity(bm) = 0
  BY <1>1, WordSizeAssumption DEF Capacity
<1>6. Slots(bm) = {} /\ owned = {} /\ ret = -1
  <2>1. Slots(bm) = {}
    BY <1>5 DEF Slots
  <2>2. ret \in -1 .. Capacity(bm) - 1
    BY DEF IInv, TypeOK
  <2>3. ret = -1
    BY <1>5, <2>2
  <2>4. owned = {}
    BY <2>1, Zenon DEF IInv, TypeOK
  <2> QED BY <2>1, <2>3, <2>4
<1>7. CASE bm' = bm
  BY <1>2, <1>4, <1>7 DEF IInv, TypeOK, OwnedStayUsed, CountTracksOwned, Slots, Used,
        Capacity, bitmap_is_used
<1>8. CASE size # 0 /\ bm' = InitializedBitmap(size)
  <2>1. size \in 1 .. BUF_WORDS
    BY <1>8, BufWordsAssumption
  <2>2. /\ BitmapType(bm') /\ bm'.slots_size <= BUF_WORDS
        /\ bm'.free_slots_count = Capacity(bm') /\ Used(bm') = {}
    BY <1>8, <2>1, InitCounts
  <2>3. Capacity(bm') \in Nat
    BY <2>2, SlotsFinite
  <2>4. TypeOK'
    <3>1. ret' \in -1 .. Capacity(bm') - 1
      BY <1>2, <1>6, <2>3
    <3> QED BY <1>2, <1>4, <1>6, <2>2, <3>1, TypeInBuffer DEF IInv, TypeOK
  <2>5. CountTracksOwned'
    BY <1>2, <1>6, <2>2, <2>3, FS_EmptySet DEF CountTracksOwned
  <2> QED BY <1>2, <1>6, <2>4, <2>5 DEF IInv, OwnedStayUsed
<1> QED BY <1>3, <1>7, <1>8

LEMMA AllocatePreserves ==
  ASSUME IInv, bitmap_allocate_slot
  PROVE  IInv'
<1>1. BitmapType(bm)
  BY TypeOfBitmap DEF IInv
<1>2. CASE NotFull(bm) = {}
  <2>1. bm' = bm /\ owned' = owned /\ ret' = -1 /\ UNCHANGED <<halt, debug>>
    BY <1>1, <1>2, FullMeansUsed DEF bitmap_allocate_slot
  <2>2. -1 \in -1 .. Capacity(bm) - 1
    BY <1>1, SlotsFinite, BufWordsAssumption, WordSizeAssumption
  <2> QED BY <2>1, <2>2 DEF IInv, TypeOK, OwnedStayUsed, CountTracksOwned, Slots, Used,
             Capacity, bitmap_is_used
<1>3. CASE NotFull(bm) # {}
  <2> DEFINE s == AllocatedSlot(bm)
  <2>1. /\ s \in Slots(bm) \ Used(bm)
        /\ BitmapType(bm')
        /\ bm'.slots_size = bm.slots_size
        /\ Used(bm') = Used(bm) \cup {s}
        /\ bm'.free_slots_count = (bm.free_slots_count - 1) % UINT_RANGE
    BY <1>1, <1>3, AllocateTakesLowest DEF bitmap_allocate_slot
  <2>2. Slots(bm') = Slots(bm) /\ Capacity(bm') = Capacity(bm) /\ -1 \notin Slots(bm)
    BY <1>1, <2>1 DEF Slots, Capacity
  <2> HIDE DEF s
  <2>3. ret' = s /\ owned' = owned \cup {s} /\ UNCHANGED <<halt, debug>>
    BY <2>1, <2>2 DEF bitmap_allocate_slot, s
  <2>4. s \notin owned /\ IsFiniteSet(owned) /\ IsFiniteSet(owned')
        /\ owned \subseteq Slots(bm) /\ owned' \subseteq Slots(bm)
    BY <1>1, <2>1, <2>3, SlotsFinite, FS_Subset, FS_AddElement
       DEF IInv, TypeOK, OwnedStayUsed
  <2>5. Cardinality(owned') = Cardinality(owned) + 1 /\ Cardinality(owned) \in Nat
        /\ Cardinality(owned') <= Capacity(bm)
    BY <1>1, <2>3, <2>4, SlotsFinite, FS_AddElement, FS_Subset, FS_CardinalityType
  <2>6. bm.free_slots_count \in 1 .. UINT_RANGE - 1
    BY <1>1, <2>5, SlotsFinite, BufWordsAssumption, WordSizeAssumption, UintAssumption
       DEF IInv, CountTracksOwned, BitmapType
  <2>7. bm'.free_slots_count = bm.free_slots_count - 1
    BY <2>1, <2>6, UintAssumption
  <2>8. CountTracksOwned'
    BY <1>1, <2>2, <2>5, <2>6, <2>7, SlotsFinite DEF IInv, CountTracksOwned
  <2>9. TypeOK'
    <3>1. s \in -1 .. Capacity(bm) - 1
      BY <1>1, <2>1, SlotsFinite, BufWordsAssumption, WordSizeAssumption DEF Slots
    <3> QED BY <2>1, <2>2, <2>3, <2>4, <3>1 DEF IInv, TypeOK, BitmapType
  <2> QED BY <2>1, <2>3, <2>8, <2>9 DEF IInv, OwnedStayUsed
<1> QED BY <1>2, <1>3

LEMMA FreePreserves ==
  ASSUME IInv, NEW slot \in Slots(bm), bitmap_free_slot(slot)
  PROVE  IInv'
<1>1. BitmapType(bm)
  BY TypeOfBitmap DEF IInv
<1>2. CASE bm' = bm /\ owned' = owned
  BY <1>2 DEF IInv, bitmap_free_slot, TypeOK, OwnedStayUsed, CountTracksOwned, Slots, Used,
        Capacity, bitmap_is_used
<1>3. CASE bm' = AfterFree(bm, slot) /\ owned' = owned \ {slot} /\ halt' = halt
  <2>1. /\ BitmapType(bm')
        /\ bm'.slots_size = bm.slots_size
        /\ Used(bm') = Used(bm) \ {slot}
        /\ bm'.free_slots_count = IF slot \in Used(bm)
                                  THEN (bm.free_slots_count + 1) % UINT_RANGE
                                  ELSE bm.free_slots_count
    BY <1>1, <1>3, FreeClears
  <2>2. Slots(bm') = Slots(bm) /\ Capacity(bm') = Capacity(bm)
    BY <2>1 DEF Slots, Capacity
  <2>3. slot \in owned <=> slot \in Used(bm)
    BY DEF IInv, OwnedStayUsed, bitmap_free_slot, Clear
  <2>4. IsFiniteSet(owned) /\ Cardinality(owned) \in Nat
        /\ Cardinality(owned') = IF slot \in owned THEN Cardinality(owned) - 1
                                                    ELSE Cardinality(owned)
    BY <1>1, <1>3, SlotsFinite, FS_Subset, FS_RemoveElement, FS_CardinalityType
       DEF IInv, TypeOK
  <2>5. CountTracksOwned'
    <3>1. CASE slot \in owned
      <4>1. Cardinality(owned') \in Nat /\ Cardinality(owned) = Cardinality(owned') + 1
        BY <1>3, <2>4, <3>1, FS_RemoveElement, FS_CardinalityType
      <4>2. bm.free_slots_count + 1 \in 0 .. UINT_RANGE - 1
        <5>1. bm.slots_size <= BUF_WORDS
          BY TypeOfBitmap DEF IInv
        <5>2. Capacity(bm) \in 0 .. BUF_WORDS * WORD_SIZE
          BY <1>1, <5>1, CapacityCounted
        <5>3. bm.free_slots_count = Capacity(bm) - Cardinality(owned)
          BY DEF IInv, CountTracksOwned
        <5>4. bm.free_slots_count \in 0 .. UINT_RANGE - 1
          BY <1>1 DEF BitmapType
        <5> QED BY <4>1, <5>2, <5>3, <5>4, BufWordsAssumption, WordSizeAssumption,
                UintAssumption, CapacityAssumption
      <4>3. bm'.free_slots_count = bm.free_slots_count + 1
        BY <2>1, <2>3, <3>1, <4>2, UintAssumption
      <4> QED BY <1>1, <2>2, <4>1, <4>3, SlotsFinite, BufWordsAssumption, WordSizeAssumption
              DEF IInv, CountTracksOwned
    <3>2. CASE slot \notin owned
      BY <2>1, <2>2, <2>3, <2>4, <3>2 DEF IInv, CountTracksOwned
    <3> QED BY <3>1, <3>2
  <2>6. TypeOK'
    BY <1>3, <2>1, <2>2 DEF IInv, TypeOK, BitmapType, bitmap_free_slot
  <2>7. OwnedStayUsed'
    BY <1>3, <2>1 DEF IInv, OwnedStayUsed
  <2> QED BY <2>5, <2>6, <2>7 DEF IInv
<1> QED BY <1>2, <1>3 DEF bitmap_free_slot

LEMMA MarkPreserves ==
  ASSUME IInv, NEW first \in 0 .. UINT_RANGE - 1, NEW n \in 0 .. MAX_MARK,
         bitmap_mark_as_used(first, n)
  PROVE  IInv'
<1>1. BitmapType(bm)
  BY TypeOfBitmap DEF IInv
<1>2. first \in Nat /\ n \in Nat
  BY UintAssumption, MaxMarkAssumption
<1>3. /\ BitmapType(bm')
      /\ bm'.slots_size = bm.slots_size
      /\ bm'.free_slots_count = bm.free_slots_count
      /\ Used(bm) \subseteq Used(bm')
  <2>1. /\ BitmapType(bm')
        /\ bm'.slots_size = bm.slots_size
        /\ bm'.free_slots_count = bm.free_slots_count
        /\ Used(bm') = Used(bm) \cup {s \in Slots(bm) : first <= s /\ s < (first + n) % UINT_RANGE}
    BY <1>1, <1>2, MarkAdds, Zenon DEF bitmap_mark_as_used
  <2> QED BY <2>1, Zenon
<1>4. Slots(bm') = Slots(bm) /\ Capacity(bm') = Capacity(bm)
  BY <1>3 DEF Slots, Capacity
<1>5. TypeOK'
  BY <1>3, <1>4 DEF IInv, TypeOK, BitmapType, bitmap_mark_as_used
<1> QED BY <1>3, <1>4, <1>5
        DEF IInv, OwnedStayUsed, CountTracksOwned, bitmap_mark_as_used

LEMMA StepPreserves == IInv /\ [Next]_vars => IInv'
<1> SUFFICES ASSUME IInv, [Next]_vars PROVE IInv'
  OBVIOUS
<1>1. CASE Next
  BY <1>1, InitPreserves, AllocatePreserves, FreePreserves, MarkPreserves DEF Next
<1>2. CASE UNCHANGED vars
  BY <1>2 DEF IInv, vars, TypeOK, OwnedStayUsed, CountTracksOwned, Slots, Used, Capacity,
        bitmap_is_used
<1> QED BY <1>1, <1>2

LEMMA Invariance == Spec => []IInv
BY InitEstablishes, StepPreserves, PTL DEF Spec

(* The struct, the returned slot and the slots clients hold keep their     *)
(* types through every call.                                               *)
THEOREM TypeCorrect == Spec => []TypeOK
<1>1. IInv => TypeOK
  BY DEF IInv
<1> QED BY <1>1, Invariance, PTL

(* No slot is ever handed to two clients of klibc/bitmap.c, for every word  *)
(* and buffer size.                                                        *)
THEOREM SingleOwner == Spec => []OwnedStayUsed
<1>1. IInv => OwnedStayUsed
  BY DEF IInv
<1> QED BY <1>1, Invariance, PTL

(* free_slots_count is never below the number of clear slots, and equal to  *)
(* it as long as every used slot is held by a client, through every order   *)
(* of allocations, frees, repeated frees and reservations.                 *)
THEOREM CounterBounds == Spec => []CountsClearSlots
<1>1. IInv => CountsClearSlots
  <2> SUFFICES ASSUME IInv PROVE CountsClearSlots
    OBVIOUS
  <2>1. IsFiniteSet(Slots(bm)) /\ Cardinality(Slots(bm)) = Capacity(bm) /\ Capacity(bm) \in Nat
    BY TypeOfBitmap, SlotsFinite DEF IInv
  <2>2. Used(bm) \subseteq Slots(bm) /\ IsFiniteSet(Used(bm)) /\ Slots(bm) \cap Used(bm) = Used(bm)
    <3>1. Used(bm) \subseteq Slots(bm)
      BY DEF Used
    <3> QED BY <2>1, <3>1, FS_Subset
  <2>3. Cardinality(Clear(bm)) = Capacity(bm) - Cardinality(Used(bm))
    BY <2>1, <2>2, FS_Difference DEF Clear
  <2>4. Cardinality(owned) <= Cardinality(Used(bm)) /\ IsFiniteSet(owned)
        /\ (Cardinality(Used(bm)) = Cardinality(owned) => Used(bm) = owned)
    BY <2>2, FS_Subset DEF IInv, OwnedStayUsed
  <2>5. Cardinality(owned) \in Nat /\ Cardinality(Used(bm)) \in Nat
    BY <2>2, <2>4, FS_CardinalityType
  <2>6. bm.free_slots_count = Capacity(bm) - Cardinality(owned)
    BY DEF IInv, CountTracksOwned
  <2>7. Cardinality(Clear(bm)) <= bm.free_slots_count
        /\ (bm.free_slots_count = Cardinality(Clear(bm)) <=> Cardinality(Used(bm)) = Cardinality(owned))
        /\ bm.free_slots_count \in Int /\ Cardinality(Clear(bm)) \in Int
    BY <2>1, <2>3, <2>4, <2>5, <2>6
  <2> QED BY <2>4, <2>7 DEF CountsClearSlots
<1> QED BY <1>1, Invariance, PTL

(* bitmap_allocate_slot is first fit: the new slot was clear and none below *)
(* it was.                                                                 *)
THEOREM FirstFit == Spec => FreshFirstFit
<1>1. IInv /\ [Next]_vars
      => [\A s \in owned' \ owned : s \notin Used(bm) /\ 0 .. s - 1 \subseteq Used(bm)]_vars
  <2> SUFFICES ASSUME IInv, Next, NEW s \in owned' \ owned
               PROVE  s \notin Used(bm) /\ 0 .. s - 1 \subseteq Used(bm)
    BY DEF vars
  <2>1. bitmap_allocate_slot
    BY DEF Next, bitmap_init, bitmap_free_slot, bitmap_mark_as_used
  <2>2. s = AllocatedSlot(bm) /\ s # -1
    BY <2>1 DEF bitmap_allocate_slot
  <2>3. BitmapType(bm)
    BY TypeOfBitmap DEF IInv
  <2>4. NotFull(bm) # {}
    BY <2>2, <2>3, FullMeansUsed
  <2> QED BY <2>2, <2>3, <2>4, AllocateTakesLowest
<1> QED BY <1>1, Invariance, PTL DEF Spec, FreshFirstFit

(* Every call of klibc/bitmap.c is a step of the abstract pool of slots or  *)
(* leaves the pool alone; -1 means that no slot is clear.                  *)
THEOREM Refinement == Spec => ImplementsSlotPool
<1>1. Init => Pool!PoolInit
  <2> SUFFICES ASSUME Init PROVE Pool!PoolInit
    OBVIOUS
  <2>1. Slots(bm) = {} /\ ret = -1
    BY WordSizeAssumption DEF Init, ZeroBitmap, Slots, Capacity
  <2> QED BY <2>1 DEF Pool!PoolInit, Used
<1>2. IInv /\ [Next]_vars => [Pool!PoolNext]_(Pool!poolVars)
  <2> SUFFICES ASSUME IInv, [Next]_vars PROVE Pool!PoolNext \/ UNCHANGED Pool!poolVars
    OBVIOUS
  <2>0. BitmapType(bm)
    BY TypeOfBitmap DEF IInv
  <2>1. CASE bm' = bm /\ ret' = ret
    BY <2>1 DEF Pool!poolVars, Slots, Used, Capacity, bitmap_is_used
  <2>2. ASSUME NEW null \in BOOLEAN, NEW size \in 1 .. BUF_WORDS, bitmap_init(null, size),
               bm' = InitializedBitmap(size)
        PROVE  Pool!PoolNext
    <3>0. bm.slots_size = 0 /\ ret' = ret
      BY <2>2, Zenon DEF bitmap_init
    <3>1. Slots(bm) = {}
      BY <3>0, WordSizeAssumption DEF Slots, Capacity
    <3>2. /\ Slots(bm') = 0 .. WORD_SIZE * size - 1
          /\ WORD_SIZE * size \in 0 .. BUF_WORDS * WORD_SIZE
          /\ Used(bm') = {}
      BY <2>2, InitCounts
    <3>3. Pool!Open(WORD_SIZE * size)
      BY <3>0, <3>1, <3>2 DEF Pool!Open
    <3> QED BY <3>2, <3>3 DEF Pool!PoolNext
  <2>3. CASE bitmap_allocate_slot
    <3>1. CASE NotFull(bm) = {}
      <4>1. bm' = bm /\ ret' = -1 /\ Used(bm) = Slots(bm)
        BY <2>0, <2>3, <3>1, FullMeansUsed DEF bitmap_allocate_slot
      <4>2. Pool!TakeNothing
        BY <4>1 DEF Pool!TakeNothing
      <4> QED BY <4>2 DEF Pool!PoolNext
    <3>2. CASE NotFull(bm) # {}
      <4> DEFINE s == AllocatedSlot(bm)
      <4>1. s \in Slots(bm) \ Used(bm) /\ bm'.slots_size = bm.slots_size
            /\ Used(bm') = Used(bm) \cup {s} /\ ret' = s
        BY <2>0, <2>3, <3>2, AllocateTakesLowest DEF bitmap_allocate_slot
      <4>2. Slots(bm') = Slots(bm)
        BY <4>1 DEF Slots, Capacity
      <4> HIDE DEF s
      <4>3. Pool!Take(s)
        BY <4>1, <4>2 DEF Pool!Take
      <4> QED BY <4>1, <4>3 DEF Pool!PoolNext
    <3> QED BY <3>1, <3>2
  <2>4. ASSUME NEW slot \in Slots(bm), bitmap_free_slot(slot), bm' = AfterFree(bm, slot)
        PROVE  Pool!PoolNext
    <3>1. bm'.slots_size = bm.slots_size /\ Used(bm') = Used(bm) \ {slot}
      BY <2>0, <2>4, FreeClears
    <3>2. Pool!Release(slot)
      BY <2>4, <3>1 DEF Pool!Release, bitmap_free_slot, Slots, Capacity
    <3> QED BY <3>2 DEF Pool!PoolNext
  <2>5. ASSUME NEW first \in 0 .. UINT_RANGE - 1, NEW n \in 0 .. MAX_MARK,
               bitmap_mark_as_used(first, n)
        PROVE  Pool!PoolNext
    <3>1. bm'.slots_size = bm.slots_size /\ Used(bm) \subseteq Used(bm')
      BY <2>0, <2>5, MarkAdds, UintAssumption, MaxMarkAssumption DEF bitmap_mark_as_used
    <3>2. Slots(bm') = Slots(bm)
      BY <3>1 DEF Slots, Capacity
    <3>3. Used(bm') \in SUBSET Slots(bm)
      BY <3>2 DEF Used
    <3>4. Pool!Reserve(Used(bm'))
      BY <2>5, <3>1, <3>2 DEF Pool!Reserve, bitmap_mark_as_used
    <3> QED BY <3>3, <3>4 DEF Pool!PoolNext
  <2>6. CASE UNCHANGED vars
    BY <2>1, <2>6 DEF vars
  <2>7. ASSUME NEW null \in BOOLEAN, NEW size \in 0 .. BUF_WORDS, bitmap_init(null, size)
        PROVE  Pool!PoolNext \/ UNCHANGED Pool!poolVars
    <3>1. ret' = ret /\ (bm' = bm \/ (size # 0 /\ bm' = InitializedBitmap(size)))
      BY <2>7, InitCases, Zenon
    <3>2. size # 0 => size \in 1 .. BUF_WORDS
      BY BufWordsAssumption
    <3> QED BY <2>1, <2>2, <2>7, <3>1, <3>2
  <2>8. ASSUME NEW slot \in Slots(bm), bitmap_free_slot(slot)
        PROVE  Pool!PoolNext \/ UNCHANGED Pool!poolVars
    BY <2>1, <2>4, <2>8 DEF bitmap_free_slot
  <2> QED BY <2>3, <2>5, <2>6, <2>7, <2>8 DEF Next
<1> QED BY <1>1, <1>2, Invariance, PTL DEF Spec, ImplementsSlotPool, Pool!PoolSpec
=============================================================================

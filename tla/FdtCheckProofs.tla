---------------------------- MODULE FdtCheckProofs ---------------------------
(***************************************************************************)
(* Proofs about the verification of a device tree, for every width of a    *)
(* byte and every set of trees, whatever their headers and bytes are.      *)
(***************************************************************************)
EXTENDS FdtCheck, FiniteSetTheorems, SequenceTheorems, WellFoundedInduction, TLAPS

LEMMA Ranges ==
  /\ CELL_RANGE \in Nat /\ CELL_RANGE >= 10
  /\ INT_MAX \in Nat /\ INT_MAX < CELL_RANGE
  /\ CELL_RANGE <= 2 * INT_MAX + 3 /\ 2 * INT_MAX + 2 <= CELL_RANGE
<1>1. CELL_RANGE \in Nat
  BY ByteAssumption DEF CELL_RANGE
<1>2. CELL_RANGE >= 10
  BY <1>1, TagAssumption DEF FDT_END
<1> QED BY <1>1, <1>2 DEF INT_MAX

(* Unsigned int wraps once around. *)
LEMMA Wrap ==
  ASSUME NEW x \in Int, -CELL_RANGE <= x, x < 2 * CELL_RANGE
  PROVE  UInt(x) = IF x < 0 THEN x + CELL_RANGE
                   ELSE IF x < CELL_RANGE THEN x ELSE x - CELL_RANGE
<1> DEFINE N == CELL_RANGE
           q == x \div N
           r == x % N
<1>1. N \in Nat /\ N > 0
  BY Ranges
<1> HIDE DEF N
<1>2. q \in Int /\ r \in 0 .. N - 1 /\ x = N * q + r
  BY <1>1
<1> HIDE DEF q, r
<1>3. -N <= x /\ x < 2 * N /\ UInt(x) = r
  BY DEF N, UInt, r
<1>4. q >= -1
  <2>1. ASSUME q <= -2 PROVE FALSE
    <3>1. N * q <= N * (-2)
      BY <1>1, <1>2, <2>1
    <3> QED BY <1>1, <1>2, <1>3, <3>1
  <2> QED BY <1>2, <2>1
<1>5. q <= 1
  <2>1. ASSUME q >= 2 PROVE FALSE
    <3>1. N * q >= N * 2
      BY <1>1, <1>2, <2>1
    <3> QED BY <1>1, <1>2, <1>3, <3>1
  <2> QED BY <1>2, <2>1
<1>6. CASE q = -1
  BY <1>1, <1>2, <1>3, <1>6 DEF N
<1>7. CASE q = 0
  BY <1>1, <1>2, <1>3, <1>7 DEF N
<1>8. CASE q = 1
  BY <1>1, <1>2, <1>3, <1>8 DEF N
<1> QED BY <1>2, <1>4, <1>5, <1>6, <1>7, <1>8

LEMMA UIntType ==
  ASSUME NEW x \in Int
  PROVE  UInt(x) \in Cell
BY Ranges DEF UInt, Cell

LEMMA Int32Type ==
  ASSUME NEW x \in Int
  PROVE  Int32(x) \in Int /\ (Int32(x) = UInt(x) \/ Int32(x) = UInt(x) - CELL_RANGE)
BY Ranges, UIntType DEF Int32, Cell

(* Reversing the bytes of a cell twice gives the cell. *)
LEMMA SwapTwice ==
  ASSUME NEW h \in 0 .. BYTE_RANGE - 1, NEW l \in 0 .. BYTE_RANGE - 1
  PROVE  /\ h * BYTE_RANGE + l \in Cell
         /\ ByteSwap(ByteSwap(h * BYTE_RANGE + l)) = h * BYTE_RANGE + l
<1>1. ASSUME NEW a \in 0 .. BYTE_RANGE - 1, NEW b \in 0 .. BYTE_RANGE - 1
      PROVE  (a * BYTE_RANGE + b) \div BYTE_RANGE = a /\ (a * BYTE_RANGE + b) % BYTE_RANGE = b
  <2> DEFINE N == BYTE_RANGE
             x == a * N + b
             q == x \div N
             r == x % N
  <2>1. N \in Nat /\ N > 0
    BY ByteAssumption
  <2> HIDE DEF N
  <2>2. x \in Nat /\ a \in Nat /\ b \in Nat /\ b < N
    BY <2>1 DEF N
  <2>3. x = a * N + b
    OBVIOUS
  <2> HIDE DEF x
  <2>4. q \in Int /\ r \in 0 .. N - 1 /\ x = N * q + r
    BY <2>1, <2>2
  <2> HIDE DEF q, r
  <2>5. q = a
    <3>1. ASSUME q < a PROVE FALSE
      <4>1. N * (q + 1) <= N * a
        BY <2>1, <2>2, <2>4, <3>1
      <4> QED BY <2>1, <2>2, <2>3, <2>4, <4>1
    <3>2. ASSUME q > a PROVE FALSE
      <4>1. N * q >= N * (a + 1)
        BY <2>1, <2>2, <2>4, <3>2
      <4> QED BY <2>1, <2>2, <2>3, <2>4, <4>1
    <3> QED BY <2>2, <2>4, <3>1, <3>2
  <2>6. r = b
    BY <2>1, <2>2, <2>3, <2>4, <2>5
  <2> QED BY <2>5, <2>6 DEF q, r, x, N
<1>2. ByteSwap(h * BYTE_RANGE + l) = l * BYTE_RANGE + h
  BY <1>1 DEF ByteSwap
<1>3. ByteSwap(l * BYTE_RANGE + h) = h * BYTE_RANGE + l
  BY <1>1 DEF ByteSwap
<1>4. h * BYTE_RANGE + l \in Cell
  <2>1. (h + 1) * BYTE_RANGE <= BYTE_RANGE * BYTE_RANGE
    BY ByteAssumption
  <2> QED BY <2>1, ByteAssumption DEF Cell, CELL_RANGE
<1> QED BY <1>2, <1>3, <1>4

(* A nonempty set of numbers has a least one. *)
LEMMA LeastOf ==
  ASSUME NEW S \in SUBSET Nat, S # {}
  PROVE  \E n \in S : \A m \in S : n <= m
<1>1. PICK n \in S : \A m \in S : ~(<<m, n>> \in OpToRel(<, Nat))
  BY NatLessThanWellFounded, WFMin, Zenon
<1>2. \A m \in S : ~(m < n)
  BY <1>1 DEF OpToRel
<1> QED BY <1>2

-----------------------------------------------------------------------------
(* The fields of a header are cells. *)
LEMMA Fields ==
  ASSUME NEW t, IsTree(t)
  PROVE  /\ t.version \in 0 .. CELL_RANGE - 1 /\ t.last_comp_version \in 0 .. CELL_RANGE - 1
         /\ t.totalsize \in 0 .. CELL_RANGE - 1 /\ t.off_mem_rsvmap \in 0 .. CELL_RANGE - 1
         /\ t.off_dt_struct \in 0 .. CELL_RANGE - 1 /\ t.size_dt_struct \in 0 .. CELL_RANGE - 1
         /\ t.off_dt_strings \in 0 .. CELL_RANGE - 1 /\ t.size_dt_strings \in 0 .. CELL_RANGE - 1
BY DEF IsTree, Cell

(* What fdt_offset_ptr points to lies in the tree and, from version 17 on,  *)
(* in the structure block: none of its sums has wrapped.                   *)
LEMMA OffsetPtr ==
  ASSUME NEW t, IsTree(t), NEW offset \in Int, NEW len \in 0 .. CELL_RANGE - 1,
         fdt_offset_ptr(t, offset, len) # NOWHERE
  PROVE  /\ offset \in 0 .. CELL_RANGE - 1
         /\ fdt_offset_ptr(t, offset, len) = t.off_dt_struct + offset
         /\ t.off_dt_struct + offset + len <= t.totalsize
         /\ t.version >= 17 => offset + len <= t.size_dt_struct
<1> DEFINE abs == UInt(offset + t.off_dt_struct)
<1>0. CELL_RANGE \in Nat /\ CELL_RANGE > 0
  BY Ranges
<1>1. /\ t.off_dt_struct \in 0 .. CELL_RANGE - 1 /\ t.size_dt_struct \in 0 .. CELL_RANGE - 1
      /\ t.totalsize \in 0 .. CELL_RANGE - 1 /\ t.version \in Nat
  BY Fields, <1>0
<1>2. abs \in 0 .. CELL_RANGE - 1
  BY <1>1, UIntType DEF Cell
<1>3. /\ fdt_offset_ptr(t, offset, len) = abs
      /\ offset >= 0 /\ abs >= offset
      /\ UInt(abs + len) >= abs /\ UInt(abs + len) <= t.totalsize
      /\ t.version >= 17 => UInt(offset + len) >= offset /\ UInt(offset + len) <= t.size_dt_struct
  BY DEF fdt_offset_ptr
<1>4. offset \in 0 .. CELL_RANGE - 1
  BY <1>0, <1>2, <1>3
<1>5. abs = offset + t.off_dt_struct
  <2> DEFINE sum == offset + t.off_dt_struct
  <2>1. sum \in Int /\ -CELL_RANGE <= sum /\ sum < 2 * CELL_RANGE /\ sum >= 0
    BY <1>0, <1>1, <1>4
  <2>2. abs = UInt(sum)
    OBVIOUS
  <2> HIDE DEF sum, abs
  <2>3. abs = IF sum < CELL_RANGE THEN sum ELSE sum - CELL_RANGE
    BY <1>0, <2>1, <2>2, Wrap
  <2> QED BY <1>0, <1>1, <1>3, <1>4, <2>3 DEF sum
<1> HIDE DEF abs
<1>6. UInt(abs + len) = abs + len
  <2>1. UInt(abs + len) = IF abs + len < CELL_RANGE THEN abs + len ELSE abs + len - CELL_RANGE
    BY <1>0, <1>2, Wrap
  <2> QED BY <1>0, <1>2, <1>3, <2>1
<1>7. t.version >= 17 => UInt(offset + len) = offset + len
  <2>1. UInt(offset + len) = IF offset + len < CELL_RANGE THEN offset + len
                             ELSE offset + len - CELL_RANGE
    BY <1>0, <1>4, Wrap
  <2> QED BY <1>0, <1>3, <1>4, <2>1
<1> QED BY <1>0, <1>1, <1>3, <1>4, <1>5, <1>6, <1>7

LEMMA HeaderSize ==
  ASSUME NEW t, IsTree(t)
  PROVE  fdt_header_size(t) \in Nat
<1> DEFINE fields == CASE t.version <= 1 -> 7
                       [] t.version = 2 -> 8
                       [] t.version \in 3 .. 16 -> 9
                       [] OTHER -> 10
<1>1. t.version \in Nat
  BY Fields, Ranges
<1>2. CASE t.version <= 1
  <2>1. ~(t.version = 2) /\ ~(t.version \in 3 .. 16)
    BY <1>1, <1>2
  <2>2. fields = 7
    BY <1>2, <2>1, Zenon
  <2> QED BY <2>2 DEF fdt_header_size, FDT_TAGSIZE
<1>3. CASE t.version = 2
  <2>1. ~(t.version <= 1) /\ ~(t.version \in 3 .. 16)
    BY <1>3
  <2>2. fields = 8
    BY <1>3, <2>1, Zenon
  <2> QED BY <2>2 DEF fdt_header_size, FDT_TAGSIZE
<1>4. CASE t.version \in 3 .. 16
  <2>1. ~(t.version <= 1) /\ ~(t.version = 2)
    BY <1>4
  <2>2. fields = 9
    BY <1>4, <2>1, Zenon
  <2> QED BY <2>2 DEF fdt_header_size, FDT_TAGSIZE
<1>5. CASE ~(t.version <= 1) /\ ~(t.version = 2) /\ ~(t.version \in 3 .. 16)
  <2>1. fields = 10
    BY <1>5, Zenon
  <2> QED BY <2>1 DEF fdt_header_size, FDT_TAGSIZE
<1> QED BY <1>2, <1>3, <1>4, <1>5

(* check_block_ accepts only blocks behind the header and in the tree. *)
LEMMA CheckBlock ==
  ASSUME NEW hdrsize \in Nat, NEW totalsize \in 0 .. CELL_RANGE - 1,
         NEW base \in 0 .. CELL_RANGE - 1, NEW size \in 0 .. CELL_RANGE - 1,
         check_block_(hdrsize, totalsize, base, size)
  PROVE  hdrsize <= base /\ base + size <= totalsize
<1>1. CELL_RANGE \in Nat /\ CELL_RANGE > 0
  BY Ranges
<1>2. UInt(base + size) = IF base + size < CELL_RANGE THEN base + size
                          ELSE base + size - CELL_RANGE
  BY <1>1, Wrap
<1>3. /\ base >= hdrsize /\ UInt(base + size) >= base /\ UInt(base + size) <= totalsize
  BY DEF check_block_, check_off_
<1> QED BY <1>1, <1>2, <1>3

(* What an accepted header says of its blocks and of the tree. *)
LEMMA HeaderAccepted ==
  ASSUME NEW t, IsTree(t), fdt_check_header(t) = 0
  PROVE  /\ t.address % 8 = 0 /\ t.magic = "FDT_MAGIC"
         /\ t.version >= FDT_FIRST_SUPPORTED_VERSION
         /\ t.last_comp_version <= FDT_LAST_SUPPORTED_VERSION
         /\ t.totalsize <= INT_MAX
         /\ fdt_header_size(t) <= t.off_mem_rsvmap /\ t.off_mem_rsvmap <= t.totalsize
         /\ fdt_header_size(t) <= t.off_dt_strings
         /\ t.off_dt_strings + t.size_dt_strings <= t.totalsize
         /\ fdt_header_size(t) <= t.off_dt_struct /\ t.off_dt_struct <= t.totalsize
         /\ t.version >= 17 => t.off_dt_struct + t.size_dt_struct <= t.totalsize
<1> DEFINE hdr == fdt_header_size(t)
<1>0. CELL_RANGE \in Nat /\ INT_MAX \in Nat
  BY Ranges
<1>1. /\ t.version \in 0 .. CELL_RANGE - 1 /\ t.last_comp_version \in 0 .. CELL_RANGE - 1
      /\ t.totalsize \in 0 .. CELL_RANGE - 1 /\ t.off_mem_rsvmap \in 0 .. CELL_RANGE - 1
      /\ t.off_dt_struct \in 0 .. CELL_RANGE - 1 /\ t.size_dt_struct \in 0 .. CELL_RANGE - 1
      /\ t.off_dt_strings \in 0 .. CELL_RANGE - 1 /\ t.size_dt_strings \in 0 .. CELL_RANGE - 1
  BY Fields
<1>2. hdr \in Nat
  BY HeaderSize
<1>3. /\ t.address % 8 = 0 /\ t.magic = "FDT_MAGIC"
      /\ ~(t.version < FDT_FIRST_SUPPORTED_VERSION)
      /\ ~(t.last_comp_version > FDT_LAST_SUPPORTED_VERSION)
      /\ ~(t.totalsize > INT_MAX)
      /\ check_off_(hdr, t.totalsize, t.off_mem_rsvmap)
      /\ IF t.version < 17 THEN check_off_(hdr, t.totalsize, t.off_dt_struct)
         ELSE check_block_(hdr, t.totalsize, t.off_dt_struct, t.size_dt_struct)
      /\ check_block_(hdr, t.totalsize, t.off_dt_strings, t.size_dt_strings)
  BY DEF fdt_check_header, FDT_ERR_ALIGNMENT, FDT_ERR_BADMAGIC, FDT_ERR_BADVERSION,
         FDT_ERR_TRUNCATED
<1> HIDE DEF hdr
<1>4. hdr <= t.off_dt_strings /\ t.off_dt_strings + t.size_dt_strings <= t.totalsize
  BY <1>1, <1>2, <1>3, CheckBlock
<1>5. hdr <= t.off_dt_struct /\ t.off_dt_struct <= t.totalsize
      /\ (t.version >= 17 => t.off_dt_struct + t.size_dt_struct <= t.totalsize)
  <2>1. CASE t.version < 17
    BY <1>0, <1>1, <1>2, <1>3, <2>1 DEF check_off_
  <2>2. CASE t.version >= 17
    <3>1. check_block_(hdr, t.totalsize, t.off_dt_struct, t.size_dt_struct)
      BY <1>0, <1>1, <1>3, <2>2
    <3>2. hdr <= t.off_dt_struct /\ t.off_dt_struct + t.size_dt_struct <= t.totalsize
      BY <1>1, <1>2, <3>1, CheckBlock
    <3> QED BY <1>0, <1>1, <3>2
  <2> QED BY <1>0, <1>1, <2>1, <2>2
<1>6. hdr <= t.off_mem_rsvmap /\ t.off_mem_rsvmap <= t.totalsize
  BY <1>0, <1>1, <1>2, <1>3 DEF check_off_
<1> QED BY <1>0, <1>1, <1>3, <1>4, <1>5, <1>6
        DEF hdr, FDT_FIRST_SUPPORTED_VERSION, FDT_LAST_SUPPORTED_VERSION

(* A load of a cell of the tree gives the number in it. *)
LEMMA LoadReads ==
  ASSUME NEW t, IsTree(t), fdt_check_header(t) = 0, NEW p \in Nat, p + 2 <= t.totalsize
  PROVE  /\ fdt32_ld_(t, p) \in 0 .. CELL_RANGE - 1
         /\ fdt32_ld_(t, p) = t.bytes[p] * BYTE_RANGE + t.bytes[p + 1]
<1>1. t.totalsize \in 0 .. CELL_RANGE - 1 /\ CELL_RANGE \in Nat
  BY Fields, Ranges
<1>2. p \in 0 .. t.totalsize - 1 /\ p + 1 \in 0 .. t.totalsize - 1
  BY <1>1
<1>3. t.bytes[p] \in 0 .. BYTE_RANGE - 1 /\ t.bytes[p + 1] \in 0 .. BYTE_RANGE - 1
  BY <1>2 DEF IsTree
<1> QED BY <1>3, SwapTwice DEF fdt32_ld_, fdt32_to_cpu, Load, Cell

-----------------------------------------------------------------------------
(* A name ends behind its start or not in the tree. *)
LEMMA SkipNameAdvances ==
  ASSUME NEW t, IsTree(t), NEW offset \in Nat
  PROVE  SkipName(t, offset) = NOWHERE
           \/ (SkipName(t, offset) \in Nat /\ SkipName(t, offset) > offset)
<1> DEFINE ends(o) == \/ fdt_offset_ptr(t, o, 1) = NOWHERE
                      \/ t.bytes[fdt_offset_ptr(t, o, 1)] = 0
           S == {o \in offset .. offset + t.totalsize : ends(o)}
           end == CHOOSE o \in offset .. offset + t.totalsize :
                    ends(o) /\ \A q \in offset .. o - 1 : ~ends(q)
<1>0. t.totalsize \in 0 .. CELL_RANGE - 1 /\ CELL_RANGE \in Nat /\ 1 \in 0 .. CELL_RANGE - 1
      /\ t.off_dt_struct \in 0 .. CELL_RANGE - 1
  BY Fields, Ranges
<1>1. offset + t.totalsize \in Int /\ offset + t.totalsize \in offset .. offset + t.totalsize
  BY <1>0
<1>2. fdt_offset_ptr(t, offset + t.totalsize, 1) = NOWHERE
  <2> SUFFICES ASSUME fdt_offset_ptr(t, offset + t.totalsize, 1) # NOWHERE PROVE FALSE
    OBVIOUS
  <2>1. t.off_dt_struct + (offset + t.totalsize) + 1 <= t.totalsize
    BY <1>0, <1>1, OffsetPtr
  <2> QED BY <1>0, <2>1
<1>3. SkipName(t, offset) = IF fdt_offset_ptr(t, end, 1) = NOWHERE THEN NOWHERE ELSE end + 1
  BY DEF SkipName, With
<1>4. ends(offset + t.totalsize)
  BY <1>2
<1> HIDE DEF ends
<1>5. S \in SUBSET Nat /\ S # {}
  BY <1>0, <1>1, <1>4
<1>6. PICK n \in S : \A m \in S : n <= m
  BY <1>5, LeastOf
<1>7. n \in offset .. offset + t.totalsize /\ ends(n) /\ \A q \in offset .. n - 1 : ~ends(q)
  BY <1>0, <1>5, <1>6
<1>8. end \in offset .. offset + t.totalsize
  BY <1>7
<1> HIDE DEF end
<1> QED BY <1>0, <1>3, <1>8

(* A property ends behind its header, or its length is refused, or the end   *)
(* exceeds INT_MAX and becomes negative.                                   *)
LEMMA SkipPropEnds ==
  ASSUME NEW t, IsTree(t), fdt_check_header(t) = 0, NEW offset \in Nat
  PROVE  \/ SkipProp(t, offset) = NOWHERE
         \/ SkipProp(t, offset) \in offset + 4 .. CELL_RANGE - 1
         \/ SkipProp(t, offset) \in Int /\ SkipProp(t, offset) < 0
              /\ SkipProp(t, offset) + CELL_RANGE > INT_MAX
<1> DEFINE lenp == fdt_offset_ptr(t, offset, 2)
           len == fdt32_ld_(t, lenp)
           end == Int32(offset + 4 + len)
<1>0. /\ CELL_RANGE \in Nat /\ INT_MAX \in Nat /\ INT_MAX >= 4 /\ 2 * INT_MAX + 2 <= CELL_RANGE
  BY Ranges
<1>1. /\ t.totalsize \in 0 .. CELL_RANGE - 1 /\ t.off_dt_struct \in 0 .. CELL_RANGE - 1
      /\ 2 \in 0 .. CELL_RANGE - 1
  BY Fields, Ranges
<1> SUFFICES ASSUME SkipProp(t, offset) # NOWHERE
             PROVE  \/ SkipProp(t, offset) \in offset + 4 .. CELL_RANGE - 1
                    \/ SkipProp(t, offset) \in Int /\ SkipProp(t, offset) < 0
                         /\ SkipProp(t, offset) + CELL_RANGE > INT_MAX
  OBVIOUS
<1>2. /\ lenp # NOWHERE
      /\ ~(INT_MAX <= UInt(len + offset)) /\ ~(UInt(len + offset) < offset)
      /\ SkipProp(t, offset) = end \/ SkipProp(t, offset) = end + 2
  BY DEF SkipProp, With, FDT_TAGSIZE, PROPERTY_SIZE
<1>3. lenp = t.off_dt_struct + offset /\ lenp + 2 <= t.totalsize /\ offset \in 0 .. CELL_RANGE - 1
  BY <1>1, <1>2, OffsetPtr
<1>4. lenp \in Nat
  BY <1>1, <1>3
<1> HIDE DEF lenp
<1>5. len \in 0 .. CELL_RANGE - 1
  BY <1>3, <1>4, LoadReads
<1> HIDE DEF len
<1>6. len + offset < INT_MAX
  <2>1. UInt(len + offset) = IF len + offset < CELL_RANGE THEN len + offset
                             ELSE len + offset - CELL_RANGE
    BY <1>0, <1>3, <1>5, Wrap
  <2> QED BY <1>0, <1>2, <1>3, <1>5, <2>1
<1> DEFINE sum == offset + 4 + len
<1>7. sum \in Nat /\ sum <= INT_MAX + 3 /\ sum < CELL_RANGE /\ sum >= offset + 4
  BY <1>0, <1>3, <1>5, <1>6
<1>8. end = Int32(sum)
  OBVIOUS
<1> HIDE DEF sum, end
<1>9. UInt(sum) = sum
  BY <1>0, <1>7, Wrap
<1>10. end = IF sum > INT_MAX THEN sum - CELL_RANGE ELSE sum
  BY <1>8, <1>9 DEF Int32
<1> QED BY <1>0, <1>2, <1>3, <1>7, <1>10

LEMMA SkipTagCases ==
  ASSUME NEW t, NEW tag, NEW offset
  PROVE  \/ tag = FDT_BEGIN_NODE /\ SkipTag(t, tag, offset) = SkipName(t, offset)
         \/ tag = FDT_PROP /\ SkipTag(t, tag, offset) = SkipProp(t, offset)
         \/ tag \in {FDT_END, FDT_END_NODE, FDT_NOP} /\ SkipTag(t, tag, offset) = offset
         \/ SkipTag(t, tag, offset) = NOWHERE
<1> USE DEF FDT_BEGIN_NODE, FDT_PROP, FDT_END, FDT_END_NODE, FDT_NOP
<1>1. CASE tag = FDT_BEGIN_NODE
  <2>1. tag # FDT_PROP /\ tag \notin {FDT_END, FDT_END_NODE, FDT_NOP}
    BY <1>1
  <2> QED BY ONLY <1>1, <2>1, Zenon DEF SkipTag
<1>2. CASE tag = FDT_PROP
  <2>1. tag # FDT_BEGIN_NODE /\ tag \notin {FDT_END, FDT_END_NODE, FDT_NOP}
    BY <1>2
  <2> QED BY ONLY <1>2, <2>1, Zenon DEF SkipTag
<1>3. CASE tag \in {FDT_END, FDT_END_NODE, FDT_NOP}
  <2>1. tag # FDT_BEGIN_NODE /\ tag # FDT_PROP
    BY <1>3
  <2> QED BY ONLY <1>3, <2>1, Zenon DEF SkipTag
<1>4. CASE /\ tag # FDT_BEGIN_NODE /\ tag # FDT_PROP
           /\ tag \notin {FDT_END, FDT_END_NODE, FDT_NOP}
  BY ONLY <1>4, Zenon DEF SkipTag
<1> QED BY <1>1, <1>2, <1>3, <1>4

LEMMA TagAlign ==
  ASSUME NEW x \in Nat
  PROVE  /\ FDT_TAGALIGN(x) \in Nat /\ FDT_TAGALIGN(x) >= x /\ FDT_TAGALIGN(x) % 2 = 0
         /\ x % 2 = 0 => FDT_TAGALIGN(x) = x
BY DEF FDT_TAGALIGN, FDT_TAGSIZE

(* fdt_next_tag without the abbreviations of its definition. *)
LEMMA NextTagIs ==
  ASSUME NEW t, NEW start
  PROVE  fdt_next_tag(t, start) =
           LET tagp == fdt_offset_ptr(t, start, FDT_TAGSIZE)
               tag == fdt32_ld_(t, tagp)
           IN  IF tagp = NOWHERE THEN [tag |-> FDT_END, next |-> -FDT_ERR_TRUNCATED]
               ELSE CheckedTag(t, tag, start, SkipTag(t, tag, start + FDT_TAGSIZE))
  BY DEF fdt_next_tag, With

(* A tag that fdt_next_tag accepts leads to an aligned offset behind it; if  *)
(* it is the last one it is in the tree and in the structure block, and    *)
(* the header of a property is in the tree.                                *)
LEMMA NextTag ==
  ASSUME NEW t, IsTree(t), fdt_check_header(t) = 0,
         NEW start \in Nat, start % 2 = 0, NEW T, T = fdt_next_tag(t, start), T.next >= 0
  PROVE  /\ T.next \in Nat /\ T.next % 2 = 0 /\ T.next > start
         /\ T.tag \in 0 .. CELL_RANGE - 1
         /\ T.tag = FDT_END => /\ t.off_dt_struct + T.next <= t.totalsize
                               /\ t.version >= 17 => T.next <= t.size_dt_struct
         /\ T.tag = FDT_PROP => t.off_dt_struct + start + 6 <= t.totalsize
<1> DEFINE tagp == fdt_offset_ptr(t, start, 2)
           tag == fdt32_ld_(t, tagp)
           offset == SkipTag(t, tag, start + 2)
           len == UInt(offset - start)
<1>0. /\ CELL_RANGE \in Nat /\ INT_MAX \in Nat /\ INT_MAX >= 4 /\ 2 * INT_MAX + 2 <= CELL_RANGE
  BY Ranges
<1>1. /\ t.totalsize \in 0 .. CELL_RANGE - 1 /\ t.off_dt_struct \in 0 .. CELL_RANGE - 1
      /\ t.size_dt_struct \in 0 .. CELL_RANGE - 1
      /\ 2 \in 0 .. CELL_RANGE - 1 /\ t.totalsize <= INT_MAX /\ t.version \in Nat
  BY Fields, Ranges, HeaderAccepted
<1>2. /\ tagp # NOWHERE /\ offset # NOWHERE
      /\ fdt_offset_ptr(t, start, len) # NOWHERE
      /\ T = [tag |-> tag, next |-> FDT_TAGALIGN(offset)]
  BY NextTagIs DEF CheckedTag, FDT_TAGSIZE, FDT_ERR_TRUNCATED, FDT_ERR_BADSTRUCTURE
<1>3. /\ tagp = t.off_dt_struct + start /\ tagp + 2 <= t.totalsize
      /\ t.version >= 17 => start + 2 <= t.size_dt_struct
  BY <1>1, <1>2, OffsetPtr
<1>4. tagp \in Nat
  BY <1>1, <1>3
<1> HIDE DEF tagp
<1>5. tag \in 0 .. CELL_RANGE - 1
  BY <1>3, <1>4, LoadReads
<1>6. T.tag = tag /\ T.next = FDT_TAGALIGN(offset)
  BY <1>2
<1> HIDE DEF tag
<1>7. start + 2 \in Nat
  OBVIOUS
<1>8. offset \in Nat /\ offset >= start + 2
      /\ (tag = FDT_PROP => t.off_dt_struct + offset <= t.totalsize /\ offset >= start + 6)
      /\ (tag = FDT_END => offset = start + 2)
  <2>1. CASE tag = FDT_BEGIN_NODE /\ offset = SkipName(t, start + 2)
    <3>1. offset \in Nat /\ offset > start + 2
      BY <1>2, <1>7, <2>1, SkipNameAdvances
    <3> QED BY <2>1, <3>1 DEF FDT_BEGIN_NODE, FDT_PROP, FDT_END
  <2>2. CASE tag = FDT_PROP /\ offset = SkipProp(t, start + 2)
    <3>1. \/ offset \in start + 2 + 4 .. CELL_RANGE - 1
          \/ offset \in Int /\ offset < 0 /\ offset + CELL_RANGE > INT_MAX
      BY <1>2, <1>7, <2>2, SkipPropEnds
    <3>2. offset \in Int /\ offset - start \in Int
      BY <1>0, <3>1
    <3> HIDE DEF offset
    <3>3. /\ len \in 0 .. CELL_RANGE - 1
          /\ len = IF offset - start < 0 THEN offset - start + CELL_RANGE ELSE offset - start
      <4>1. -CELL_RANGE <= offset - start /\ offset - start < CELL_RANGE
        BY <1>0, <1>1, <1>3, <3>1
      <4> QED BY <1>0, <3>2, <4>1, Wrap
    <3> HIDE DEF len
    <3>4. t.off_dt_struct + start + len <= t.totalsize
      BY <1>2, <3>3, OffsetPtr
    <3>5. ~(offset < 0)
      BY <1>0, <1>1, <3>1, <3>3, <3>4
    <3> QED BY <1>0, <1>1, <2>2, <3>1, <3>3, <3>4, <3>5 DEF FDT_PROP, FDT_END
  <2>3. CASE tag \in {FDT_END, FDT_END_NODE, FDT_NOP} /\ offset = start + 2
    BY <2>3 DEF FDT_PROP, FDT_END, FDT_END_NODE, FDT_NOP
  <2> QED BY <1>2, <2>1, <2>2, <2>3, SkipTagCases
<1> HIDE DEF offset, len
<1>9. /\ T.next \in Nat /\ T.next >= offset /\ T.next % 2 = 0
      /\ offset % 2 = 0 => T.next = offset
  BY <1>6, <1>8, TagAlign
<1>10. tag = FDT_END => T.next = start + 2
  BY <1>8, <1>9
<1>11. tag = FDT_END => /\ t.off_dt_struct + T.next <= t.totalsize
                        /\ t.version >= 17 => T.next <= t.size_dt_struct
  BY <1>1, <1>3, <1>10
<1>12. tag = FDT_PROP => t.off_dt_struct + start + 6 <= t.totalsize
  BY <1>1, <1>8
<1>13. T.next > start
  BY <1>8, <1>9
<1>14. T.tag \in 0 .. CELL_RANGE - 1
  BY <1>5, <1>6
<1> QED BY <1>6, <1>9, <1>11, <1>12, <1>13, <1>14

-----------------------------------------------------------------------------
LEMMA Probe ==
  ASSUME NEW t, IsTree(t), fdt_check_header(t) = 0
  PROVE  fdt_ro_probe_(t) = IF t.totalsize < INT_MAX THEN t.totalsize ELSE -FDT_ERR_TRUNCATED
<1>1. /\ t.address % 8 = 0 /\ t.magic = "FDT_MAGIC"
      /\ ~(t.version < FDT_FIRST_SUPPORTED_VERSION
             \/ t.last_comp_version > FDT_LAST_SUPPORTED_VERSION)
  <2>1. t.version \in Nat /\ t.last_comp_version \in Nat
    BY Fields, Ranges
  <2> QED BY <2>1, HeaderAccepted DEF FDT_FIRST_SUPPORTED_VERSION, FDT_LAST_SUPPORTED_VERSION
<1>2. t.magic # "FDT_SW_MAGIC" /\ t.magic \in {"FDT_MAGIC", "FDT_SW_MAGIC"}
  BY <1>1
<1> QED BY ONLY <1>1, <1>2, Zenon DEF fdt_ro_probe_

(* A string that fdt_get_string returns starts at a non-negative offset of   *)
(* the strings block and ends in it; what it does not return has an error. *)
LEMMA GetString ==
  ASSUME NEW t, IsTree(t), fdt_check_header(t) = 0,
         NEW stroffset \in Int, -CELL_RANGE <= stroffset, stroffset <= INT_MAX
  PROVE  \/ fdt_get_string(t, stroffset).ptr = NOWHERE /\ fdt_get_string(t, stroffset).len # 0
         \/ /\ stroffset >= 0
            /\ \E nul \in t.off_dt_strings + stroffset ..
                            (IF t.version < 17 THEN t.totalsize
                             ELSE t.off_dt_strings + t.size_dt_strings) - 1 : t.bytes[nul] = 0
<1> DEFINE abs == UInt(stroffset + t.off_dt_strings)
           total == fdt_ro_probe_(t)
           room == total - abs
           in_block == stroffset >= 0 /\ (t.version >= 17 => stroffset < t.size_dt_strings)
           limit == IF t.version >= 17 THEN t.size_dt_strings - stroffset ELSE room
           count == IF limit < room THEN limit ELSE room
           nul == memchr(t.bytes, abs, 0, count)
           fail(e) == [ptr |-> NOWHERE, len |-> e]
           at == {i \in 0 .. count - 1 : t.bytes[abs + i] = 0}
<1>0. /\ CELL_RANGE \in Nat /\ INT_MAX \in Nat /\ 2 * INT_MAX + 2 <= CELL_RANGE
      /\ t.totalsize \in Nat /\ t.version \in Nat /\ t.size_dt_strings \in Nat
      /\ t.off_dt_strings \in Nat /\ t.off_dt_strings + t.size_dt_strings <= t.totalsize
      /\ t.totalsize <= INT_MAX
  BY Fields, Ranges, HeaderAccepted
<1>1. t.magic # "FDT_SW_MAGIC"
  BY HeaderAccepted
<1>2. total = IF t.totalsize < INT_MAX THEN t.totalsize ELSE -8
  BY Probe DEF FDT_ERR_TRUNCATED
<1>3. fdt_get_string(t, stroffset) =
        IF total < 0 THEN fail(total)
        ELSE IF room <= 0 \/ ~in_block THEN fail(-4)
        ELSE IF nul = NOWHERE THEN fail(-8)
        ELSE [ptr |-> abs, len |-> nul - abs]
  BY <1>1, Zenon DEF fdt_get_string, FDT_ERR_BADOFFSET, FDT_ERR_TRUNCATED
<1>4. at = {} => nul = NOWHERE
  BY DEF memchr
<1> HIDE DEF total, nul
<1>5. CASE total < 0 \/ room <= 0 \/ ~in_block \/ at = {}
  <2>1. \E e \in {total, -4, -8} : fdt_get_string(t, stroffset) = fail(e) /\ (e = total => total < 0)
    BY <1>0, <1>2, <1>3, <1>4, <1>5
  <2> QED BY <1>0, <1>2, <2>1
<1>6. CASE ~(total < 0) /\ ~(room <= 0) /\ in_block /\ at # {}
  <2>1. total = t.totalsize /\ stroffset >= 0
    BY <1>0, <1>2, <1>6
  <2>2. abs = t.off_dt_strings + stroffset
    BY <1>0, <2>1, Wrap
  <2> HIDE DEF abs
  <2>3. PICK i \in 0 .. count - 1 : t.bytes[abs + i] = 0
    BY <1>6
  <2>4. abs + i \in t.off_dt_strings + stroffset ..
                   (IF t.version < 17 THEN t.totalsize
                    ELSE t.off_dt_strings + t.size_dt_strings) - 1
    BY <1>0, <1>6, <2>1, <2>2, <2>3
  <2> QED BY <2>1, <2>3, <2>4
<1> QED BY <1>5, <1>6

(* A property that fdt_check_full accepts has a name in the strings block. *)
LEMMA PropName ==
  ASSUME IsTree(fdt), fdt_check_header(fdt) = 0, nextoffset \in Nat, nextoffset % 2 = 0,
         NEW t, t = fdt_next_tag(fdt, nextoffset), t.next >= 0, t.tag = FDT_PROP,
         PropNameError = 0
  PROVE  NameInside(fdt, nextoffset)
<1> DEFINE p == fdt.off_dt_struct + nextoffset
           n == fdt32_ld_(fdt, p + 4)
           prop == PropertyAt(fdt, nextoffset)
           name == fdt_get_string(fdt, Int32(n))
<1>0. /\ CELL_RANGE \in Nat /\ INT_MAX \in Nat /\ 2 * INT_MAX + 2 <= CELL_RANGE
      /\ fdt.off_dt_struct \in Nat /\ fdt.off_dt_strings \in Nat /\ fdt.totalsize \in Nat
  BY Fields, Ranges
<1>1. p \in Nat /\ p + 4 \in Nat /\ p + 4 + 2 <= fdt.totalsize
  BY <1>0, NextTag
<1>2. n \in 0 .. CELL_RANGE - 1 /\ n = Number(fdt, p + 4)
  BY <1>1, LoadReads DEF Number
<1>3. prop.nameoff = Int32(n)
  BY DEF PropertyAt, FDT_TAGSIZE
<1>4. fdt_check_prop_offset_(fdt, nextoffset) = t.next
  BY DEF fdt_check_prop_offset_, CheckTagOffset, With, FDT_TAGSIZE
<1> HIDE DEF n, p, prop
<1>5. Int32(n) = IF n > INT_MAX THEN n - CELL_RANGE ELSE n
  BY <1>0, <1>2, Wrap DEF Int32
<1>6. ~(name.ptr = NOWHERE /\ name.len # 0)
  <2> SUFFICES ASSUME name.ptr = NOWHERE, name.len # 0 PROVE FALSE
    OBVIOUS
  <2>1. fdt_getprop_by_offset(fdt, nextoffset)
          = [data |-> NOWHERE, len |-> name.len, name |-> NOWHERE]
    <3>1. ~(t.next < 0)
      BY NextTag
    <3> QED BY <1>3, <1>4, <3>1 DEF fdt_getprop_by_offset, prop, With
  <2> QED BY <2>1 DEF PropNameError
<1>7. /\ Int32(n) >= 0
      /\ \E nul \in fdt.off_dt_strings + Int32(n) ..
                      (IF fdt.version < 17 THEN fdt.totalsize
                       ELSE fdt.off_dt_strings + fdt.size_dt_strings) - 1 : fdt.bytes[nul] = 0
  <2>1. Int32(n) \in Int /\ -CELL_RANGE <= Int32(n) /\ Int32(n) <= INT_MAX
    BY <1>0, <1>2, <1>5
  <2> QED BY <1>6, <2>1, GetString
<1>8. Int32(n) = n
  BY <1>0, <1>2, <1>5, <1>7
<1>9. n = Number(fdt, fdt.off_dt_struct + nextoffset + (2 * FDT_TAGSIZE))
  <2>1. p + 4 = fdt.off_dt_struct + nextoffset + (2 * FDT_TAGSIZE)
    BY <1>0 DEF p, FDT_TAGSIZE
  <2> QED BY <1>2, <2>1
<1> QED BY <1>7, <1>8, <1>9, Zenon DEF NameInside

LEMMA NextTagType ==
  ASSUME NEW t, IsTree(t), fdt_check_header(t) = 0, NEW start \in Nat
  PROVE  fdt_next_tag(t, start).next \in Int
<1> DEFINE tag == fdt32_ld_(t, fdt_offset_ptr(t, start, FDT_TAGSIZE))
           offset == SkipTag(t, tag, start + FDT_TAGSIZE)
<1>1. start + FDT_TAGSIZE \in Nat /\ NOWHERE \in Int /\ CELL_RANGE \in Nat
  BY Ranges DEF FDT_TAGSIZE, NOWHERE
<1>2. offset \in Int
  <2>1. SkipName(t, start + FDT_TAGSIZE) \in Int
    BY <1>1, SkipNameAdvances
  <2>2. SkipProp(t, start + FDT_TAGSIZE) \in Int
    BY <1>1, SkipPropEnds
  <2> HIDE DEF tag
  <2> QED BY <1>1, <2>1, <2>2, SkipTagCases
<1>3. \/ fdt_next_tag(t, start).next \in {-FDT_ERR_TRUNCATED, -FDT_ERR_BADSTRUCTURE}
      \/ fdt_next_tag(t, start).next = FDT_TAGALIGN(offset)
  BY NextTagIs DEF CheckedTag
<1> HIDE DEF offset
<1> QED BY <1>2, <1>3 DEF FDT_TAGALIGN, FDT_TAGSIZE, FDT_ERR_TRUNCATED, FDT_ERR_BADSTRUCTURE

(* What fdt_check_full has found of a tag that is no error. *)
LEMMA NoTagError ==
  ASSUME NEW t, t.next \in Int, expect_end \in BOOLEAN, TagError(t) = 0
  PROVE  /\ t.next >= 0
         /\ expect_end => t.tag \in {FDT_END, FDT_NOP}
         /\ t.tag = FDT_END => depth = 0
         /\ t.tag = FDT_END_NODE => depth # 0
         /\ t.tag = FDT_PROP => PropNameError = 0
<1> DEFINE of(tag) == CASE tag = FDT_END -> IF depth # 0 THEN -FDT_ERR_BADSTRUCTURE ELSE 0
                        [] tag = FDT_BEGIN_NODE ->
                             IF depth + 1 > INT_MAX THEN -FDT_ERR_BADSTRUCTURE
                             ELSE IF depth = 0 THEN RootNameError ELSE 0
                        [] tag = FDT_END_NODE -> IF depth = 0 THEN -FDT_ERR_BADSTRUCTURE ELSE 0
                        [] tag = FDT_PROP -> PropNameError
                        [] OTHER -> 0
<1>1. TagError(t) = IF t.next < 0 THEN t.next
                    ELSE IF expect_end /\ t.tag \notin {FDT_END, FDT_NOP} THEN -FDT_ERR_BADSTRUCTURE
                    ELSE of(t.tag)
  BY Zenon DEF TagError, TagErrorIf
<1>2. FDT_END # FDT_BEGIN_NODE /\ FDT_END # FDT_END_NODE /\ FDT_END # FDT_PROP
      /\ FDT_BEGIN_NODE # FDT_END_NODE /\ FDT_BEGIN_NODE # FDT_PROP /\ FDT_END_NODE # FDT_PROP
  BY DEF FDT_END, FDT_BEGIN_NODE, FDT_END_NODE, FDT_PROP
<1>3. of(FDT_END) = IF depth # 0 THEN -FDT_ERR_BADSTRUCTURE ELSE 0
  BY ONLY <1>2, Zenon
<1>4. of(FDT_END_NODE) = IF depth = 0 THEN -FDT_ERR_BADSTRUCTURE ELSE 0
  BY ONLY <1>2, Zenon
<1>5. of(FDT_PROP) = PropNameError
  BY ONLY <1>2, Zenon
<1> HIDE DEF of
<1>6. -FDT_ERR_BADSTRUCTURE # 0
  BY DEF FDT_ERR_BADSTRUCTURE
<1>7. t.next >= 0 /\ (expect_end => t.tag \in {FDT_END, FDT_NOP}) /\ of(t.tag) = 0
  BY <1>1, <1>6
<1> QED BY <1>3, <1>4, <1>5, <1>6, <1>7

-----------------------------------------------------------------------------
TagRecord == [offset : Nat, tag : Nat, next : Nat]

(* The nodes that begin and that end among the first k tags of a sequence. *)
Begun(s, k) == {i \in DOMAIN s : s[i].tag = FDT_BEGIN_NODE /\ i <= k}
Ended(s, k) == {i \in 1 .. k : s[i].tag = FDT_END_NODE}
OpenOf(s, k) == Cardinality(Begun(s, k)) - Cardinality(Ended(s, k))

LEMMA OpenIsOpenOf ==
  ASSUME NEW k
  PROVE  OpenBehind(k) = OpenOf(tags, k)
<1>1. {i \in Nodes : i <= k} = Begun(tags, k)
  BY DEF Nodes, Begun
<1> QED BY <1>1 DEF OpenBehind, OpenOf, Ended

LEMMA OpenType ==
  ASSUME NEW s \in Seq(TagRecord), NEW k \in Nat
  PROVE  /\ IsFiniteSet(Begun(s, k)) /\ IsFiniteSet(Ended(s, k))
         /\ Cardinality(Begun(s, k)) \in Nat /\ Cardinality(Ended(s, k)) \in Nat
<1>1. IsFiniteSet(1 .. k) /\ IsFiniteSet(1 .. Len(s)) /\ DOMAIN s = 1 .. Len(s)
  BY FS_Interval
<1>2. Begun(s, k) \subseteq 1 .. Len(s) /\ Ended(s, k) \subseteq 1 .. k
  BY <1>1 DEF Begun, Ended
<1>3. IsFiniteSet(Begun(s, k)) /\ IsFiniteSet(Ended(s, k))
  BY <1>1, <1>2, FS_Subset
<1> QED BY <1>3, FS_CardinalityType

(* A further tag does not change what is open before it. *)
LEMMA OpenPrefix ==
  ASSUME NEW s \in Seq(TagRecord), NEW x \in TagRecord, NEW k \in 0 .. Len(s)
  PROVE  OpenOf(Append(s, x), k) = OpenOf(s, k)
<1>1. /\ DOMAIN Append(s, x) = 1 .. Len(s) + 1 /\ DOMAIN s = 1 .. Len(s)
      /\ \A i \in 1 .. Len(s) : Append(s, x)[i] = s[i]
  OBVIOUS
<1>2. Begun(Append(s, x), k) = Begun(s, k)
  BY <1>1 DEF Begun
<1>3. Ended(Append(s, x), k) = Ended(s, k)
  BY <1>1 DEF Ended
<1> QED BY <1>2, <1>3 DEF OpenOf

LEMMA OpenAppend ==
  ASSUME NEW s \in Seq(TagRecord), NEW x \in TagRecord
  PROVE  OpenOf(Append(s, x), Len(s) + 1)
           = CASE x.tag = FDT_BEGIN_NODE -> OpenOf(s, Len(s)) + 1
               [] x.tag = FDT_END_NODE -> OpenOf(s, Len(s)) - 1
               [] OTHER -> OpenOf(s, Len(s))
<1> DEFINE n == Len(s)
           s1 == Append(s, x)
<1>1. /\ DOMAIN s1 = 1 .. n + 1 /\ DOMAIN s = 1 .. n /\ n \in Nat
      /\ \A i \in 1 .. n : s1[i] = s[i]
      /\ s1[n + 1] = x
  OBVIOUS
<1>2. /\ IsFiniteSet(Begun(s, n)) /\ IsFiniteSet(Ended(s, n))
      /\ Cardinality(Begun(s, n)) \in Nat /\ Cardinality(Ended(s, n)) \in Nat
  BY <1>1, OpenType
<1> HIDE DEF n, s1
<1>3. n + 1 \notin Begun(s, n) /\ n + 1 \notin Ended(s, n)
  BY <1>1 DEF Begun, Ended
<1>4. FDT_BEGIN_NODE # FDT_END_NODE
  BY DEF FDT_BEGIN_NODE, FDT_END_NODE
<1>5. CASE x.tag = FDT_BEGIN_NODE
  <2>1. Begun(s1, n + 1) = Begun(s, n) \cup {n + 1}
    BY <1>1, <1>5 DEF Begun
  <2>2. Ended(s1, n + 1) = Ended(s, n)
    BY <1>1, <1>4, <1>5 DEF Ended
  <2>3. OpenOf(s1, n + 1) = OpenOf(s, n) + 1
    <3>1. Cardinality(Begun(s1, n + 1)) = Cardinality(Begun(s, n)) + 1
      BY <1>2, <1>3, <2>1, FS_AddElement
    <3> QED BY <1>2, <2>2, <3>1 DEF OpenOf
  <2> QED BY <1>4, <1>5, <2>3, Zenon DEF n, s1
<1>6. CASE x.tag = FDT_END_NODE
  <2>1. Begun(s1, n + 1) = Begun(s, n)
    BY <1>1, <1>4, <1>6 DEF Begun
  <2>2. Ended(s1, n + 1) = Ended(s, n) \cup {n + 1}
    BY <1>1, <1>6 DEF Ended
  <2>3. OpenOf(s1, n + 1) = OpenOf(s, n) - 1
    <3>1. Cardinality(Ended(s1, n + 1)) = Cardinality(Ended(s, n)) + 1
      BY <1>2, <1>3, <2>2, FS_AddElement
    <3> QED BY <1>2, <2>1, <3>1 DEF OpenOf
  <2> QED BY <1>4, <1>6, <2>3, Zenon DEF n, s1
<1>7. CASE x.tag # FDT_BEGIN_NODE /\ x.tag # FDT_END_NODE
  <2>1. Begun(s1, n + 1) = Begun(s, n)
    BY <1>1, <1>7 DEF Begun
  <2>2. Ended(s1, n + 1) = Ended(s, n)
    BY <1>1, <1>7 DEF Ended
  <2>3. OpenOf(s1, n + 1) = OpenOf(s, n)
    BY <2>1, <2>2 DEF OpenOf
  <2> QED BY <1>7, <2>3, Zenon DEF n, s1
<1> QED BY <1>5, <1>6, <1>7

-----------------------------------------------------------------------------
(* The inductive invariant.  Its parts: types, with offsets aligned, without *)
(* which the end of the last tag could be moved out of the tree; a header   *)
(* that was accepted, for the sums of fdt_next_tag; and of the tags seen    *)
(* so far that they tile, that depth counts the open nodes, that the next   *)
(* node at depth 0 is the first node unless expect_end stops it, and that   *)
(* their properties have names.                                            *)
Typed ==
  /\ fdt \in Trees
  /\ pc \in {"header", "full", "tags", "ok", "refused", "spinning"}
  /\ nextoffset \in Nat /\ nextoffset % 2 = 0
  /\ depth \in Nat /\ expect_end \in BOOLEAN
  /\ tags \in Seq(TagRecord)

HeaderChecked == pc \notin {"header", "refused"} => fdt_check_header(fdt) = 0

Tiled ==
  /\ \A k \in 1 .. Len(tags) - 1 : tags[k + 1].offset = tags[k].next
  /\ Len(tags) > 0 => tags[Len(tags)].next = nextoffset

Balanced ==
  /\ \A k \in 0 .. Len(tags) : OpenOf(tags, k) >= 0
  /\ OpenOf(tags, Len(tags)) = depth

OneRoot ==
  /\ \A i, j \in Nodes : OpenOf(tags, i) = 1 /\ OpenOf(tags, j) = 1 => i = j
  /\ depth = 0 /\ ~expect_end => Nodes = {}

Named == \A k \in DOMAIN tags : tags[k].tag = FDT_PROP => NameInside(fdt, tags[k].offset)

EndsInside ==
  Accepted => /\ Len(tags) > 0 /\ depth = 0
              /\ fdt.off_dt_struct + nextoffset <= fdt.totalsize
              /\ fdt.version >= 17 => nextoffset <= fdt.size_dt_struct

CheckInv == Typed /\ HeaderChecked /\ Tiled /\ Balanced /\ OneRoot /\ Named /\ EndsInside

LEMMA CheckInitEstablishes == CheckInit => CheckInv
<1> SUFFICES ASSUME CheckInit PROVE CheckInv
  OBVIOUS
<1>1. tags = <<>> /\ Len(tags) = 0 /\ DOMAIN tags = {} /\ Nodes = {}
  BY DEF CheckInit, Nodes
<1>2. Typed /\ HeaderChecked /\ Tiled /\ EndsInside
  <2>1. tags \in Seq(TagRecord)
    BY <1>1
  <2>2. nextoffset \in Nat /\ nextoffset % 2 = 0 /\ depth \in Nat
    BY DEF CheckInit
  <2>3. fdt \in Trees /\ pc = "header" /\ expect_end \in BOOLEAN
    BY Zenon DEF CheckInit
  <2>4. Typed
    BY <2>1, <2>2, <2>3 DEF Typed
  <2> QED BY <1>1, <2>3, <2>4 DEF HeaderChecked, Tiled, EndsInside, Accepted
<1>3. OneRoot /\ Named
  BY <1>1 DEF OneRoot, Named
<1>4. OpenOf(tags, 0) = 0
  <2>1. Begun(tags, 0) = {} /\ Ended(tags, 0) = {}
    BY <1>1 DEF Begun, Ended
  <2> QED BY <2>1, FS_EmptySet DEF OpenOf
<1>5. Balanced
  BY <1>1, <1>4 DEF Balanced, CheckInit
<1> QED BY <1>2, <1>3, <1>5 DEF CheckInv

(* Steps that see no tag: the header and the reservation map, a refusal, a   *)
(* name that is never read.                                                *)
LEMMA NoTagPreserves ==
  ASSUME CheckInv, UNCHANGED <<fdt, checker>>,
         pc' \in {"header", "full", "tags", "ok", "refused", "spinning"},
         pc' \notin {"header", "refused"} => fdt_check_header(fdt) = 0,
         pc' = "ok" => pc = "ok"
  PROVE  CheckInv'
<1>1. Nodes' = Nodes
  BY DEF checker, Nodes
<1>2. Typed' /\ HeaderChecked' /\ Tiled' /\ Balanced'
  BY DEF CheckInv, checker, Typed, HeaderChecked, Tiled, Balanced
<1>3. OneRoot' /\ EndsInside'
  BY <1>1 DEF CheckInv, checker, OneRoot, EndsInside, Accepted
<1>4. Named'
  BY DEF CheckInv, checker, Named, NameInside, Number
<1> QED BY <1>2, <1>3, <1>4 DEF CheckInv

(* A tag that is accepted. *)
LEMMA TagPreserves ==
  ASSUME CheckInv, pc = "tags", NEW t, t = fdt_next_tag(fdt, nextoffset), TagError(t) = 0,
         nextoffset' = t.next,
         depth' = CASE t.tag = FDT_BEGIN_NODE -> depth + 1
                    [] t.tag = FDT_END_NODE -> depth - 1
                    [] OTHER -> depth,
         expect_end' = (expect_end \/ (t.tag = FDT_END_NODE /\ depth' = 0)),
         tags' = Append(tags, [offset |-> nextoffset, tag |-> t.tag, next |-> t.next]),
         pc' = IF t.tag = FDT_END THEN "ok" ELSE "tags",
         fdt' = fdt
  PROVE  CheckInv' /\ nextoffset' > nextoffset
<1> DEFINE n == Len(tags)
           x == [offset |-> nextoffset, tag |-> t.tag, next |-> t.next]
<1>1. /\ fdt \in Trees /\ IsTree(fdt) /\ fdt_check_header(fdt) = 0
      /\ nextoffset \in Nat /\ nextoffset % 2 = 0 /\ depth \in Nat /\ expect_end \in BOOLEAN
      /\ tags \in Seq(TagRecord) /\ n \in Nat
  BY TreesAssumption DEF CheckInv, Typed, HeaderChecked
<1>2. t.next \in Int
  BY <1>1, NextTagType
<1>3. /\ t.next >= 0
      /\ expect_end => t.tag \in {FDT_END, FDT_NOP}
      /\ t.tag = FDT_END => depth = 0
      /\ t.tag = FDT_END_NODE => depth # 0
      /\ t.tag = FDT_PROP => PropNameError = 0
  BY <1>1, <1>2, NoTagError
<1>4. /\ t.next \in Nat /\ t.next % 2 = 0 /\ t.next > nextoffset /\ t.tag \in 0 .. CELL_RANGE - 1
      /\ t.tag = FDT_END => /\ fdt.off_dt_struct + t.next <= fdt.totalsize
                            /\ fdt.version >= 17 => t.next <= fdt.size_dt_struct
  BY <1>1, <1>3, NextTag
<1>5. t.tag \in Nat
  BY <1>4, Ranges
<1>6. x \in TagRecord /\ x.tag = t.tag /\ x.offset = nextoffset /\ x.next = t.next
  BY <1>1, <1>4, <1>5 DEF TagRecord
<1>7. tags' = Append(tags, x)
  OBVIOUS
<1> HIDE DEF x
<1>8. /\ tags' \in Seq(TagRecord) /\ Len(tags') = n + 1
      /\ DOMAIN tags' = 1 .. n + 1 /\ DOMAIN tags = 1 .. n
      /\ \A i \in 1 .. n : tags'[i] = tags[i]
      /\ tags'[n + 1] = x
  BY <1>1, <1>6, <1>7
<1>9. \A k \in 0 .. n : OpenOf(tags', k) = OpenOf(tags, k)
  BY <1>1, <1>6, <1>7, OpenPrefix
<1>10. OpenOf(tags, n) = depth
  BY DEF CheckInv, Balanced
<1>11. OpenOf(tags', n + 1) = depth'
  <2>1. OpenOf(tags', n + 1) = CASE x.tag = FDT_BEGIN_NODE -> OpenOf(tags, n) + 1
                                 [] x.tag = FDT_END_NODE -> OpenOf(tags, n) - 1
                                 [] OTHER -> OpenOf(tags, n)
    BY <1>1, <1>6, <1>7, OpenAppend
  <2> QED BY <1>6, <1>10, <2>1, Zenon
<1>12. /\ t.tag = FDT_BEGIN_NODE => depth' = depth + 1
       /\ t.tag = FDT_END_NODE => depth' = depth - 1
       /\ t.tag # FDT_BEGIN_NODE /\ t.tag # FDT_END_NODE => depth' = depth
  <2>1. FDT_BEGIN_NODE # FDT_END_NODE
    BY DEF FDT_BEGIN_NODE, FDT_END_NODE
  <2>2. t.tag = FDT_BEGIN_NODE => depth' = depth + 1
    BY <2>1, Zenon
  <2>3. t.tag = FDT_END_NODE => depth' = depth - 1
    BY <2>1, Zenon
  <2>4. t.tag # FDT_BEGIN_NODE /\ t.tag # FDT_END_NODE => depth' = depth
    BY Zenon
  <2> QED BY <2>2, <2>3, <2>4
<1>13. depth' \in Nat
  BY <1>1, <1>3, <1>12
<1>14. expect_end' \in BOOLEAN
  BY <1>1, Zenon
<1>15. Typed'
  BY <1>1, <1>4, <1>8, <1>13, <1>14 DEF Typed
<1>16. HeaderChecked'
  BY <1>1 DEF HeaderChecked
<1>17. Tiled'
  <2>1. \A k \in 1 .. n : tags'[k + 1].offset = tags'[k].next
    <3> SUFFICES ASSUME NEW k \in 1 .. n PROVE tags'[k + 1].offset = tags'[k].next
      OBVIOUS
    <3>1. CASE k = n
      BY <1>1, <1>6, <1>8, <3>1 DEF CheckInv, Tiled
    <3>2. CASE k \in 1 .. n - 1
      BY <1>1, <1>8, <3>2 DEF CheckInv, Tiled
    <3> QED BY <1>1, <3>1, <3>2
  <2> QED BY <1>1, <1>6, <1>8, <2>1 DEF Tiled
<1>18. Balanced'
  <2>1. \A k \in 0 .. n + 1 : OpenOf(tags', k) >= 0
    BY <1>1, <1>9, <1>11, <1>13 DEF CheckInv, Balanced
  <2> QED BY <1>8, <1>11, <2>1 DEF Balanced
<1>19. /\ t.tag = FDT_BEGIN_NODE => Nodes' = Nodes \cup {n + 1}
       /\ t.tag # FDT_BEGIN_NODE => Nodes' = Nodes
       /\ Nodes \subseteq 1 .. n
  BY <1>1, <1>6, <1>8 DEF Nodes
<1>20. OneRoot'
  <2>1. \A i, j \in Nodes : OpenOf(tags', i) = 1 /\ OpenOf(tags', j) = 1 => i = j
    BY <1>1, <1>9, <1>19 DEF CheckInv, OneRoot
  <2>2. CASE t.tag = FDT_BEGIN_NODE
    <3>1. ~expect_end /\ depth' = depth + 1
      BY <1>3, <1>12, <2>2 DEF FDT_BEGIN_NODE, FDT_END, FDT_NOP
    <3>2. CASE depth = 0
      <4>1. Nodes' = {n + 1}
        BY <1>19, <2>2, <3>1, <3>2 DEF CheckInv, OneRoot
      <4> QED BY <1>1, <3>1, <4>1 DEF OneRoot
    <3>3. CASE depth # 0
      <4>1. OpenOf(tags', n + 1) # 1
        BY <1>1, <1>11, <3>1, <3>3
      <4>2. \A i, j \in Nodes' : OpenOf(tags', i) = 1 /\ OpenOf(tags', j) = 1 => i = j
        BY <1>19, <2>1, <2>2, <4>1
      <4> QED BY <1>1, <3>1, <4>2 DEF OneRoot
    <3> QED BY <3>2, <3>3
  <2>3. CASE t.tag = FDT_END_NODE
    <3>1. Nodes' = Nodes
      BY <1>19, <2>3 DEF FDT_BEGIN_NODE, FDT_END_NODE
    <3>2. depth' = 0 => expect_end'
      BY <2>3
    <3> QED BY <2>1, <3>1, <3>2 DEF OneRoot
  <2>4. CASE t.tag # FDT_BEGIN_NODE /\ t.tag # FDT_END_NODE
    <3>1. Nodes' = Nodes /\ depth' = depth /\ expect_end' = expect_end
      BY <1>1, <1>12, <1>19, <2>4
    <3> QED BY <2>1, <3>1 DEF CheckInv, OneRoot
  <2> QED BY <2>2, <2>3, <2>4
<1>21. Named'
  <2> SUFFICES ASSUME NEW k \in 1 .. n + 1, tags'[k].tag = FDT_PROP
               PROVE  NameInside(fdt, tags'[k].offset)
    BY <1>8 DEF Named
  <2>1. CASE k \in 1 .. n
    BY <1>8, <2>1 DEF CheckInv, Named
  <2>2. CASE k = n + 1
    <3>1. NameInside(fdt, nextoffset)
      BY <1>1, <1>3, <1>6, <1>8, <2>2, PropName
    <3> QED BY <1>6, <1>8, <2>2, <3>1
  <2> QED BY <1>1, <2>1, <2>2
<1>22. EndsInside'
  <2> SUFFICES ASSUME t.tag = FDT_END PROVE EndsInside'
    BY DEF EndsInside, Accepted
  <2>1. depth' = 0
    BY <1>3, <1>12 DEF FDT_END, FDT_BEGIN_NODE, FDT_END_NODE
  <2> QED BY <1>1, <1>4, <1>8, <2>1 DEF EndsInside
<1> QED BY <1>4, <1>15, <1>16, <1>17, <1>18, <1>20, <1>21, <1>22 DEF CheckInv

LEMMA CheckStep ==
  CheckInv /\ [CheckNext]_checkVars => CheckInv' /\ (tags' # tags => nextoffset' > nextoffset)
<1> SUFFICES ASSUME CheckInv, [CheckNext]_checkVars
             PROVE  CheckInv' /\ (tags' # tags => nextoffset' > nextoffset)
  OBVIOUS
<1>1. CASE check_device_tree
  BY <1>1, NoTagPreserves DEF check_device_tree, checker
<1>2. CASE fdt_check_full
  <2>1. fdt_check_header(fdt) = 0
    BY <1>2 DEF fdt_check_full, CheckInv, HeaderChecked
  <2> QED BY <1>2, <2>1, NoTagPreserves DEF fdt_check_full, checker
<1>3. CASE fdt_check_full_tag
  <2>1. pc = "tags" /\ fdt' = fdt /\ fdt_check_header(fdt) = 0
    BY <1>3 DEF fdt_check_full_tag, CheckInv, HeaderChecked
  <2> DEFINE t == fdt_next_tag(fdt, nextoffset)
  <2>2. CASE pc' \in {"spinning", "refused"} /\ UNCHANGED checker
    BY <2>1, <2>2, NoTagPreserves DEF checker
  <2>3. CASE /\ TagError(t) = 0
             /\ nextoffset' = t.next
             /\ depth' = CASE t.tag = FDT_BEGIN_NODE -> depth + 1
                           [] t.tag = FDT_END_NODE -> depth - 1
                           [] OTHER -> depth
             /\ expect_end' = (expect_end \/ (t.tag = FDT_END_NODE /\ depth' = 0))
             /\ tags' = Append(tags, [offset |-> nextoffset, tag |-> t.tag, next |-> t.next])
             /\ pc' = IF t.tag = FDT_END THEN "ok" ELSE "tags"
    <3> HIDE DEF t
    <3>1. t = fdt_next_tag(fdt, nextoffset)
      BY DEF t
    <3> QED BY <2>1, <2>3, <3>1, TagPreserves, Zenon
  <2> HIDE DEF t
  <2>4. t = fdt_next_tag(fdt, nextoffset)
    BY DEF t
  <2> QED BY <1>3, <2>2, <2>3, <2>4, Zenon DEF fdt_check_full_tag
<1>4. CASE UNCHANGED checkVars
  BY <1>4, NoTagPreserves DEF checkVars, checker, CheckInv, Typed, HeaderChecked
<1> QED BY <1>1, <1>2, <1>3, <1>4 DEF CheckNext

LEMMA CheckInvariance == CheckSpec => []CheckInv
BY CheckInitEstablishes, CheckStep, PTL DEF CheckSpec

(* The header lies as HeaderBlocksInside says once it has been accepted. *)
LEMMA HeaderInside ==
  ASSUME IsTree(fdt), fdt_check_header(fdt) = 0
  PROVE  HeaderBlocksInside
<1>1. /\ fdt.version \in Nat /\ fdt.off_dt_struct \in Nat /\ fdt.off_mem_rsvmap \in Nat
      /\ fdt.totalsize \in Nat
  BY Fields, Ranges
<1> QED BY <1>1, HeaderAccepted DEF HeaderBlocksInside

(* At most one node of a sequence of tags is at depth 1. *)
LEMMA OneRootCount ==
  ASSUME OneRoot
  PROVE  Cardinality({i \in Nodes : OpenBehind(i) = 1}) <= 1
<1> DEFINE R == {i \in Nodes : OpenBehind(i) = 1}
<1>1. \A i, j \in R : i = j
  BY OpenIsOpenOf DEF OneRoot
<1>2. CASE R = {}
  BY <1>2, FS_EmptySet
<1>3. CASE R # {}
  <2>1. PICK r \in R : TRUE
    BY <1>3
  <2>2. R = {r}
    BY <1>1, <2>1
  <2>3. Cardinality(R) = 1
    BY <2>2, FS_Singleton
  <2> QED BY <2>3
<1> QED BY <1>2, <1>3

(* Whatever header and bytes the kernel is passed, what check_device_tree    *)
(* accepts is a tree: blocks inside, tags that tile, nodes balanced under  *)
(* at most one root, property names in the strings block.                  *)
THEOREM AcceptedTrees == CheckSpec => []AcceptedIsTree
<1>1. CheckInv => AcceptedIsTree
  <2> SUFFICES ASSUME CheckInv PROVE AcceptedIsTree
    OBVIOUS
  <2>1. IsTree(fdt) /\ Len(tags) \in Nat
    BY TreesAssumption DEF CheckInv, Typed
  <2>2. pc \notin {"header", "refused"} => HeaderBlocksInside
    BY <2>1, HeaderInside DEF CheckInv, HeaderChecked
  <2>3. \A k : OpenBehind(k) = OpenOf(tags, k)
    BY OpenIsOpenOf
  <2>4. \A k \in 1 .. Len(tags) - 1 : OpenBehind(k) >= 0 /\ tags[k + 1].offset = tags[k].next
    BY <2>1, <2>3 DEF CheckInv, Balanced, Tiled
  <2>5. Accepted => OpenBehind(Len(tags)) = 0
    BY <2>3 DEF CheckInv, Balanced, EndsInside
  <2>6. Cardinality({i \in Nodes : OpenBehind(i) = 1}) <= 1
    BY OneRootCount DEF CheckInv
  <2>7. Accepted => /\ fdt.off_dt_struct + tags[Len(tags)].next <= fdt.totalsize
                    /\ fdt.version >= 17 => tags[Len(tags)].next <= fdt.size_dt_struct
    BY DEF CheckInv, Tiled, EndsInside
  <2>8. \A k \in DOMAIN tags : tags[k].tag = FDT_PROP => NameInside(fdt, tags[k].offset)
    BY DEF CheckInv, Named
  <2> QED BY <2>2, <2>4, <2>5, <2>6, <2>7, <2>8, Zenon DEF AcceptedIsTree
<1> QED BY <1>1, CheckInvariance, PTL

(* Every tag that fdt_check_full accepts leads further into the tree, for    *)
(* every length it may state.                                              *)
THEOREM TagsAdvance == CheckSpec => WalksAdvance
<1>1. CheckInv /\ [CheckNext]_checkVars => [tags' # tags => nextoffset' > nextoffset]_checkVars
  BY CheckStep
<1> QED BY <1>1, CheckInvariance, PTL DEF CheckSpec, WalksAdvance
=============================================================================

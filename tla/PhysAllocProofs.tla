--------------------------- MODULE PhysAllocProofs ---------------------------
(***************************************************************************)
(* Proofs about mem/phys_alloc.c for every page size, word size, address   *)
(* range and set of machines.                                              *)
(***************************************************************************)
EXTENDS PhysAlloc, BitmapOpsProofs, SequenceTheorems

-----------------------------------------------------------------------------
(* Sums over the regions.  FoldFunction adds in an order of its own; all    *)
(* that matters is that it takes one element of the set after the other.   *)
SumOver(f, S, sum) ==
  /\ sum \in [SUBSET S -> Nat]
  /\ \A T \in SUBSET S :
       sum[T] = IF T = {} THEN 0
                ELSE f[CHOOSE x \in T : TRUE] + sum[T \ {CHOOSE x \in T : TRUE}]

(* Such sums exist for the subsets of at most n elements, for every n: the  *)
(* least n for which they did not could be had from n - 1.                 *)
LEMMA SumExists ==
  ASSUME NEW S, IsFiniteSet(S), NEW f \in [S -> Nat]
  PROVE  \E sum : SumOver(f, S, sum)
<1> DEFINE Upto(n) == {T \in SUBSET S : Cardinality(T) <= n}
           c(T) == CHOOSE x \in T : TRUE
           Good(n, g) == /\ g \in [Upto(n) -> Nat]
                         /\ \A T \in Upto(n) :
                              g[T] = IF T = {} THEN 0 ELSE f[c(T)] + g[T \ {c(T)}]
           Bad == {n \in Nat : ~ \E g : Good(n, g)}
<1>1. \A T \in SUBSET S : IsFiniteSet(T) /\ Cardinality(T) \in Nat /\ Cardinality(T) <= Cardinality(S)
  BY FS_Subset, FS_CardinalityType
<1>2. \A T \in SUBSET S : T # {} =>
         /\ c(T) \in T /\ c(T) \in S /\ T \ {c(T)} \in SUBSET S
         /\ Cardinality(T \ {c(T)}) = Cardinality(T) - 1
  <2> SUFFICES ASSUME NEW T \in SUBSET S, T # {}
               PROVE  c(T) \in T /\ Cardinality(T \ {c(T)}) = Cardinality(T) - 1
    OBVIOUS
  <2>1. c(T) \in T
    OBVIOUS
  <2> QED BY <1>1, <2>1, FS_RemoveElement
<1>3. \A T \in SUBSET S : Cardinality(T) = 0 <=> T = {}
  BY <1>1, FS_EmptySet
<1>4. Bad = {}
  <2> SUFFICES ASSUME Bad # {} PROVE FALSE
    OBVIOUS
  <2>1. PICK n \in Bad : \A k \in Bad : n <= k
    <3>1. Bad \in SUBSET Nat
      OBVIOUS
    <3> HIDE DEF Bad
    <3>2. Min(Bad) \in Bad /\ \A y \in Bad : Min(Bad) <= y
      BY <3>1, MinIsLeast
    <3> QED BY <3>2
  <2>2. n \in Nat
    OBVIOUS
  <2>3. n # 0
    <3> SUFFICES ASSUME n = 0 PROVE \E g : Good(n, g)
      OBVIOUS
    <3>1. Upto(0) = {{}}
      BY <1>1, <1>3
    <3> DEFINE g == [T \in Upto(0) |-> 0]
    <3>2. Good(0, g)
      BY <3>1
    <3> HIDE DEF Good, g
    <3> QED BY <3>2
  <2>4. n - 1 \in Nat /\ n - 1 \notin Bad
    <3> HIDE DEF Bad
    <3> QED BY <2>1, <2>2, <2>3
  <2>5. PICK h : Good(n - 1, h)
    BY <2>4
  <2> DEFINE g == [T \in Upto(n) |-> IF T = {} THEN 0 ELSE f[c(T)] + h[T \ {c(T)}]]
  <2>6. \A T \in Upto(n) : T # {} => T \ {c(T)} \in Upto(n - 1) /\ T \ {c(T)} \in Upto(n)
    BY <1>1, <1>2, <2>2
  <2>7. g \in [Upto(n) -> Nat]
    <3>1. ASSUME NEW T \in Upto(n), T # {} PROVE f[c(T)] + h[T \ {c(T)}] \in Nat
      <4>1. f[c(T)] \in Nat
        BY <1>2, <3>1
      <4>2. h[T \ {c(T)}] \in Nat
        BY <2>5, <2>6, <3>1
      <4> QED BY <4>1, <4>2
    <3> QED BY <3>1
  <2>8. \A T \in Upto(n - 1) : g[T] = h[T]
    <3>1. Upto(n - 1) \subseteq Upto(n)
      BY <1>1, <2>2
    <3> QED BY <2>5, <3>1
  <2>9. \A T \in Upto(n) : g[T] = IF T = {} THEN 0 ELSE f[c(T)] + g[T \ {c(T)}]
    <3> SUFFICES ASSUME NEW T \in Upto(n), T # {}
                 PROVE  g[T] = f[c(T)] + g[T \ {c(T)}]
      OBVIOUS
    <3>1. g[T] = f[c(T)] + h[T \ {c(T)}]
      OBVIOUS
    <3>2. g[T \ {c(T)}] = h[T \ {c(T)}]
      BY <2>6, <2>8
    <3> QED BY <3>1, <3>2, Zenon
  <2>10. Good(n, g)
    BY <2>7, <2>9
  <2> QED BY <2>10
<1>5. Upto(Cardinality(S)) = SUBSET S
  BY <1>1
<1>6. PICK g : Good(Cardinality(S), g)
  BY <1>1, <1>4
<1>7. SumOver(f, S, g)
  BY <1>5, <1>6 DEF SumOver
<1> QED BY <1>7

(* The function that FoldFunction defines by recursion is such a sum. *)
LEMMA FoldIsSum ==
  ASSUME NEW f, IsFiniteSet(DOMAIN f), f \in [DOMAIN f -> Nat]
  PROVE  \E sum : SumOver(f, DOMAIN f, sum) /\ FoldFunction(+, 0, f) = sum[DOMAIN f]
<1> DEFINE S == DOMAIN f
           c(T) == CHOOSE x \in T : TRUE
           Rec(g) == [T \in SUBSET S |-> IF T = {} THEN 0 ELSE f[c(T)] + g[T \ {c(T)}]]
           iter == CHOOSE g : g = Rec(g)
<1>1. FoldFunction(+, 0, f) = iter[S]
  BY Zenon DEF FoldFunction, FoldFunctionOnSet, MapThenFoldSet
<1>2. PICK sum : SumOver(f, S, sum)
  BY SumExists
<1>3. sum = Rec(sum)
  BY <1>2 DEF SumOver
<1>4. iter = Rec(iter)
  <2> HIDE DEF Rec
  <2> QED BY <1>3
<1>5. \A T \in SUBSET S : iter[T] = IF T = {} THEN 0 ELSE f[c(T)] + iter[T \ {c(T)}]
  <2> HIDE DEF iter
  <2> QED BY <1>4
<1>6. \A T \in SUBSET S : sum[T] = IF T = {} THEN 0 ELSE f[c(T)] + sum[T \ {c(T)}]
  BY <1>2 DEF SumOver
<1> HIDE DEF iter
<1> DEFINE Bad == {n \in Nat : \E T \in SUBSET S : Cardinality(T) = n /\ iter[T] # sum[T]}
<1>7. Bad = {}
  <2> SUFFICES ASSUME Bad # {} PROVE FALSE
    OBVIOUS
  <2>1. PICK n \in Bad : \A k \in Bad : n <= k
    <3>1. Bad \in SUBSET Nat
      OBVIOUS
    <3> HIDE DEF Bad
    <3>2. Min(Bad) \in Bad /\ \A y \in Bad : Min(Bad) <= y
      BY <3>1, MinIsLeast
    <3> QED BY <3>2
  <2>2. PICK T \in SUBSET S : Cardinality(T) = n /\ iter[T] # sum[T]
    BY <2>1
  <2>3. T # {}
    BY <1>5, <1>6, <2>2
  <2> DEFINE R == T \ {c(T)}
  <2>4. R \in SUBSET S /\ c(T) \in T /\ n \in Nat
    BY <2>3
  <2>5. Cardinality(R) = n - 1 /\ n - 1 \in Nat
    <3>1. IsFiniteSet(T)
      BY FS_Subset
    <3>2. IsFiniteSet(R) /\ Cardinality(R) = n - 1
      BY <2>2, <2>4, <3>1, FS_RemoveElement
    <3> QED BY <3>2, FS_CardinalityType
  <2>6. n - 1 \notin Bad
    <3> HIDE DEF Bad
    <3> QED BY <2>1, <2>4, <2>5
  <2>7. iter[R] = sum[R]
    BY <2>4, <2>5, <2>6
  <2> QED BY <1>5, <1>6, <2>2, <2>3, <2>7
<1>8. iter[S] = sum[S]
  BY <1>7, FS_CardinalityType
<1> QED BY <1>1, <1>2, <1>8

-----------------------------------------------------------------------------
(* Arithmetic of pages. *)
LEMMA PageMonotone ==
  ASSUME NEW i \in Nat, NEW j \in Nat, i <= j
  PROVE  i * PAGE_SIZE <= j * PAGE_SIZE /\ i * PAGE_SIZE \in Nat /\ j * PAGE_SIZE \in Nat
BY PageAssumption

LEMMA DivMod ==
  ASSUME NEW a \in Nat, NEW p \in Nat \ {0}
  PROVE  /\ a \div p \in Nat /\ a % p \in 0 .. p - 1
         /\ a = p * (a \div p) + (a % p)
OBVIOUS

(* A page-aligned address is a number of pages. *)
LEMMA AlignedPages ==
  ASSUME NEW a \in PageAligned
  PROVE  \E n \in Nat : a = n * PAGE_SIZE /\ a \div PAGE_SIZE = n
<1>1. a \in Nat /\ a % PAGE_SIZE = 0
  BY UintAssumption DEF PageAligned
<1>2. PAGE_SIZE \in Nat \ {0}
  BY PageAssumption
<1>3. a = PAGE_SIZE * (a \div PAGE_SIZE) + (a % PAGE_SIZE) /\ a \div PAGE_SIZE \in Nat
  BY <1>1, <1>2, DivMod
<1>4. a = (a \div PAGE_SIZE) * PAGE_SIZE
  BY <1>1, <1>2, <1>3
<1> QED BY <1>3, <1>4

LEMMA DivExact ==
  ASSUME NEW n \in Nat, NEW p \in Nat \ {0}
  PROVE  (n * p) \div p = n /\ (n * p) % p = 0
<1>1. n * p \in Nat
  OBVIOUS
<1> DEFINE q == (n * p) \div p
           r == (n * p) % p
<1>2. q \in Nat /\ r \in 0 .. p - 1 /\ n * p = p * q + r
  BY <1>1
<1> HIDE DEF q, r
<1>3. q = n
  <2>1. ASSUME q < n PROVE FALSE
    <3>1. (q + 1) * p <= n * p
      BY <1>2, <2>1
    <3> QED BY <1>2, <3>1
  <2>2. ASSUME n < q PROVE FALSE
    <3>1. (n + 1) * p <= q * p
      BY <1>2, <2>2
    <3> QED BY <1>2, <3>1
  <2> QED BY <1>2, <2>1, <2>2
<1> QED BY <1>2, <1>3 DEF q, r

LEMMA PagesAligned ==
  ASSUME NEW n \in Nat, n * PAGE_SIZE <= UINT_RANGE
  PROVE  n * PAGE_SIZE \in PageAligned /\ (n * PAGE_SIZE) \div PAGE_SIZE = n
<1>1. PAGE_SIZE \in Nat \ {0}
  BY PageAssumption
<1>2. (n * PAGE_SIZE) \div PAGE_SIZE = n /\ (n * PAGE_SIZE) % PAGE_SIZE = 0
  BY <1>1, DivExact
<1>3. n * PAGE_SIZE \in 0 .. UINT_RANGE
  BY <1>1, UintAssumption
<1> QED BY <1>2, <1>3 DEF PageAligned

-----------------------------------------------------------------------------
(* The machine. *)
LEMMA RegionsFinite ==
  ASSUME machine \in Machines
  PROVE  /\ total_memory_regions \in Nat
         /\ DOMAIN machine.ram = 1 .. total_memory_regions
         /\ IsFiniteSet(DOMAIN machine.ram)
<1>1. machine.ram \in Seq([physicaddr : Nat, space_size : Nat])
  BY MachinesAssumption DEF IsMachine
<1>2. total_memory_regions \in Nat /\ DOMAIN machine.ram = 1 .. total_memory_regions
  BY <1>1 DEF total_memory_regions
<1> QED BY <1>2, FS_Interval

LEMMA RegionPages ==
  ASSUME machine \in Machines, NEW i \in DOMAIN machine.ram
  PROVE  /\ machine.ram[i].physicaddr \in PageAligned /\ machine.ram[i].physicaddr \in Nat
         /\ machine.ram[i].space_size \in Nat \ {0}
         /\ PagesIn(i) \in Nat \ {0}
         /\ machine.ram[i].space_size = PagesIn(i) * PAGE_SIZE
         /\ machine.ram[i].physicaddr + machine.ram[i].space_size <= UINT_RANGE
<1>1. /\ machine.ram[i].physicaddr \in PageAligned
      /\ machine.ram[i].space_size \in PageAligned \ {0}
      /\ machine.ram[i].physicaddr + machine.ram[i].space_size <= UINT_RANGE
  BY MachinesAssumption DEF IsMachine
<1>2. PICK n \in Nat : machine.ram[i].space_size = n * PAGE_SIZE
                       /\ machine.ram[i].space_size \div PAGE_SIZE = n
  BY <1>1, AlignedPages
<1>3. PagesIn(i) = n
  BY <1>2 DEF PagesIn, pmm_get_region
<1>4. n # 0
  BY <1>1, <1>2, PageAssumption
<1>5. PageAligned \subseteq Nat
  BY UintAssumption DEF PageAligned
<1> QED BY <1>1, <1>2, <1>3, <1>4, <1>5

(* find_physical_addr_of_page stays within the region it stops at: the page *)
(* number is below the region's pages, so that the sum does not wrap.      *)
LEMMA FoundPage ==
  ASSUME machine \in Machines, NEW s \in Nat, RegionsReaching(s) # {}
  PROVE  LET i == Min(RegionsReaching(s))
             r == machine.ram[i]
             a == find_physical_addr_of_page(s)
         IN  /\ i \in DOMAIN machine.ram
             /\ a = r.physicaddr + s * PAGE_SIZE
             /\ a \in Addresses /\ a \in PageAligned
             /\ r.physicaddr <= a /\ a + PAGE_SIZE <= r.physicaddr + r.space_size
             /\ PageExtent(a) \subseteq RegionExtent(r) /\ a \in RegionExtent(r)
<1> DEFINE i == Min(RegionsReaching(s))
           r == machine.ram[i]
           a == find_physical_addr_of_page(s)
<1>1. RegionsReaching(s) \in SUBSET Nat
  BY RegionsFinite DEF RegionsReaching
<1>2. i \in RegionsReaching(s)
  BY <1>1, MinIsLeast
<1>3. i \in DOMAIN machine.ram /\ s < PagesIn(i)
  BY <1>2, RegionsFinite DEF RegionsReaching
<1>4. a = (r.physicaddr + s * PAGE_SIZE) % UINT_RANGE
  BY DEF find_physical_addr_of_page, pmm_get_region
<1> HIDE DEF i
<1>5. /\ r.physicaddr \in PageAligned /\ r.physicaddr \in Nat /\ r.space_size \in Nat
      /\ PagesIn(i) \in Nat /\ r.space_size = PagesIn(i) * PAGE_SIZE
      /\ r.physicaddr + r.space_size <= UINT_RANGE
  BY <1>3, RegionPages
<1>6. (s + 1) * PAGE_SIZE <= r.space_size
  BY <1>3, <1>5, PageMonotone
<1>7. PAGE_SIZE \in Nat \ {0} /\ (s + 1) * PAGE_SIZE = s * PAGE_SIZE + PAGE_SIZE /\ s * PAGE_SIZE \in Nat
  BY PageAssumption
<1> HIDE DEF r, a
<1>8. r.physicaddr + s * PAGE_SIZE \in 0 .. UINT_RANGE - 1
  BY <1>5, <1>6, <1>7, UintAssumption
<1>9. a = r.physicaddr + s * PAGE_SIZE
  BY <1>4, <1>8, UintAssumption
<1>10. a \in Addresses /\ r.physicaddr <= a /\ a + PAGE_SIZE <= r.physicaddr + r.space_size
  BY <1>5, <1>6, <1>7, <1>8, <1>9 DEF Addresses
<1>11. PageExtent(a) \subseteq RegionExtent(r) /\ a \in RegionExtent(r)
  BY <1>5, <1>7, <1>10, UintAssumption DEF PageExtent, RegionExtent, Extent, Addresses
<1>12. a \in PageAligned
  <2>1. PICK n \in Nat : r.physicaddr = n * PAGE_SIZE
    BY <1>5, AlignedPages
  <2>2. a = (n + s) * PAGE_SIZE /\ n + s \in Nat
    BY <1>7, <1>9, <2>1
  <2>3. a <= UINT_RANGE
    BY <1>10, UintAssumption DEF Addresses
  <2> QED BY <2>2, <2>3, PagesAligned
<1> QED BY <1>3, <1>9, <1>10, <1>11, <1>12 DEF i, r, a

(* Distinct page numbers mean distinct pages: within a region the numbers   *)
(* differ, and regions do not overlap.                                     *)
LEMMA FoundOnce ==
  ASSUME machine \in Machines, NEW s \in Nat, NEW t \in Nat,
         RegionsReaching(s) # {}, RegionsReaching(t) # {},
         find_physical_addr_of_page(s) = find_physical_addr_of_page(t)
  PROVE  s = t
<1> DEFINE i == Min(RegionsReaching(s))
           j == Min(RegionsReaching(t))
           a == find_physical_addr_of_page(s)
<1>1. /\ i \in DOMAIN machine.ram /\ a \in RegionExtent(machine.ram[i])
      /\ a = machine.ram[i].physicaddr + s * PAGE_SIZE
  BY FoundPage
<1>2. /\ j \in DOMAIN machine.ram /\ a \in RegionExtent(machine.ram[j])
      /\ a = machine.ram[j].physicaddr + t * PAGE_SIZE
  BY FoundPage
<1> HIDE DEF i, j, a
<1>3. i = j
  BY <1>1, <1>2, MachinesAssumption DEF IsMachine
<1>4. machine.ram[i].physicaddr \in Nat
  BY <1>1, RegionPages
<1>5. s * PAGE_SIZE = t * PAGE_SIZE
  BY <1>1, <1>2, <1>3, <1>4, PageAssumption
<1>6. PAGE_SIZE \in Nat \ {0}
  BY PageAssumption
<1> QED BY <1>5, <1>6, DivExact

-----------------------------------------------------------------------------
(* Total memory. *)
LEMMA ExtentSize ==
  ASSUME NEW a \in Nat, NEW n \in Nat
  PROVE  IsFiniteSet(Extent(a, n)) /\ Cardinality(Extent(a, n)) = n
<1>1. a \in Int /\ a + n - 1 \in Int
  OBVIOUS
<1>2. /\ IsFiniteSet(a .. a + n - 1)
      /\ Cardinality(a .. a + n - 1) = IF a > a + n - 1 THEN 0 ELSE (a + n - 1) - a + 1
  BY <1>1, FS_Interval
<1>3. (IF a > a + n - 1 THEN 0 ELSE (a + n - 1) - a + 1) = n
  OBVIOUS
<1> QED BY <1>2, <1>3 DEF Extent

(* The sizes of the regions add up to the bytes of RAM, because no byte is  *)
(* in two of them.                                                         *)
LEMMA TotalIsRam ==
  ASSUME machine \in Machines
  PROVE  /\ IsFiniteSet(RamExtent) /\ RamExtent \subseteq 0 .. UINT_RANGE - 1
         /\ FoldFunction(+, 0, [i \in DOMAIN machine.ram |-> machine.ram[i].space_size])
              = Cardinality(RamExtent)
<1> DEFINE D == DOMAIN machine.ram
           f == [i \in D |-> machine.ram[i].space_size]
           ext(i) == RegionExtent(machine.ram[i])
           all(T) == UNION {ext(i) : i \in T}
<1>1. f \in [D -> Nat] /\ DOMAIN f = D /\ IsFiniteSet(D)
  BY RegionPages, RegionsFinite
<1>2. PICK sum : SumOver(f, D, sum) /\ FoldFunction(+, 0, f) = sum[D]
  <2> HIDE DEF f, D
  <2> QED BY <1>1, FoldIsSum
<1>3. \A i \in D : IsFiniteSet(ext(i)) /\ Cardinality(ext(i)) = f[i]
  BY RegionPages, ExtentSize DEF RegionExtent
<1>4. \A i, j \in D : i # j => ext(i) \cap ext(j) = {}
  BY MachinesAssumption DEF IsMachine
<1>5. RamExtent = all(D)
  BY DEF RamExtent
<1> HIDE DEF f, ext
<1> DEFINE ok(T) == IsFiniteSet(all(T)) /\ Cardinality(all(T)) = sum[T]
           Bad == {n \in Nat : \E T \in SUBSET D : Cardinality(T) = n /\ ~ok(T)}
<1>6. Bad = {}
  <2> SUFFICES ASSUME Bad # {} PROVE FALSE
    OBVIOUS
  <2>1. PICK n \in Bad : \A k \in Bad : n <= k
    <3>1. Bad \in SUBSET Nat
      OBVIOUS
    <3> HIDE DEF Bad
    <3>2. Min(Bad) \in Bad /\ \A y \in Bad : Min(Bad) <= y
      BY <3>1, MinIsLeast
    <3> QED BY <3>2
  <2>2. PICK T \in SUBSET D : Cardinality(T) = n /\ ~ok(T)
    BY <2>1
  <2>3. T # {}
    <3> SUFFICES ASSUME T = {} PROVE ok(T)
      BY <2>2
    <3>1. all(T) = {} /\ sum[T] = 0
      BY <1>2 DEF SumOver
    <3> QED BY <3>1, FS_EmptySet
  <2> DEFINE x == CHOOSE e \in T : TRUE
             R == T \ {x}
  <2>4. R \in SUBSET D /\ x \in T /\ x \in D /\ n \in Nat
    BY <2>3
  <2>5. Cardinality(R) = n - 1 /\ n - 1 \in Nat
    <3>1. IsFiniteSet(T)
      BY <1>1, FS_Subset
    <3>2. IsFiniteSet(R) /\ Cardinality(R) = n - 1
      BY <2>2, <2>4, <3>1, FS_RemoveElement
    <3> QED BY <3>2, FS_CardinalityType
  <2>6. n - 1 \notin Bad
    <3> HIDE DEF Bad
    <3> QED BY <2>1, <2>4, <2>5
  <2>7. ok(R)
    BY <2>4, <2>5, <2>6
  <2>8. sum[T] = f[x] + sum[R] /\ sum[R] \in Nat /\ f[x] \in Nat
    BY <1>1, <1>2, <2>3, <2>4 DEF SumOver
  <2>9. all(T) = ext(x) \cup all(R) /\ ext(x) \cap all(R) = {}
    <3>1. T = R \cup {x} /\ x \notin R
      BY <2>4
    <3> HIDE DEF x, R
    <3>2. \A i \in R : ext(x) \cap ext(i) = {}
      BY <1>4, <2>4, <3>1
    <3> QED BY <3>1, <3>2
  <2>10. IsFiniteSet(all(T)) /\ Cardinality(all(T)) = Cardinality(ext(x)) + Cardinality(all(R))
    <3> HIDE DEF x, R
    <3>1. IsFiniteSet(ext(x)) /\ IsFiniteSet(all(R))
      BY <1>3, <2>4, <2>7
    <3> HIDE DEF all
    <3>2. /\ IsFiniteSet(ext(x) \cup all(R))
          /\ Cardinality(ext(x) \cup all(R))
               = Cardinality(ext(x)) + Cardinality(all(R)) - Cardinality(ext(x) \cap all(R))
      BY <3>1, FS_Union
    <3>3. Cardinality(ext(x) \cap all(R)) = 0
      BY <2>9, FS_EmptySet
    <3>4. Cardinality(ext(x)) \in Nat /\ Cardinality(all(R)) \in Nat
      BY <3>1, FS_CardinalityType
    <3> QED BY <2>9, <3>2, <3>3, <3>4
  <2> QED BY <1>3, <2>2, <2>4, <2>7, <2>8, <2>10
<1>7. ok(D)
  BY <1>1, <1>6, FS_CardinalityType
<1>8. RamExtent \subseteq 0 .. UINT_RANGE - 1
  BY RegionPages, UintAssumption DEF RamExtent, RegionExtent, Extent
<1> QED BY <1>2, <1>5, <1>7, <1>8 DEF f

LEMMA TotalType ==
  ASSUME machine \in Machines
  PROVE  /\ get_total_mem = Cardinality(RamExtent) % UINT_RANGE
         /\ Cardinality(RamExtent) \in 0 .. UINT_RANGE
         /\ get_total_mem \in 0 .. UINT_RANGE - 1
<1>1. get_total_mem = Cardinality(RamExtent) % UINT_RANGE
  BY TotalIsRam DEF get_total_mem
<1>2. Cardinality(RamExtent) \in Nat
  BY TotalIsRam, FS_CardinalityType
<1>3. 0 \in Int /\ UINT_RANGE - 1 \in Int
  BY UintAssumption
<1>4. IsFiniteSet(0 .. UINT_RANGE - 1) /\ Cardinality(0 .. UINT_RANGE - 1) = UINT_RANGE
  BY <1>3, FS_Interval, UintAssumption
<1>5. Cardinality(RamExtent) <= UINT_RANGE
  BY <1>4, TotalIsRam, FS_Subset
<1> HIDE DEF RamExtent
<1>6. Cardinality(RamExtent) % UINT_RANGE \in 0 .. UINT_RANGE - 1
  BY <1>2, UintAssumption
<1> QED BY <1>1, <1>2, <1>5, <1>6

LEMMA CeilType ==
  ASSUME NEW a \in Nat, NEW b \in Nat \ {0}
  PROVE  udiv_and_ceil(a, b) \in Nat
<1>1. a \div b \in Nat
  BY DivMod
<1> QED BY <1>1 DEF udiv_and_ceil

LEMMA KernelType ==
  ASSUME machine \in Machines
  PROVE  /\ machine.start \in PageAligned /\ machine.end \in PageAligned
         /\ machine.start \in Nat /\ machine.end \in 0 .. UINT_RANGE
         /\ get_kernel_size \in 1 .. UINT_RANGE
<1>1. machine.start \in PageAligned /\ machine.end \in PageAligned /\ machine.start < machine.end
  BY MachinesAssumption DEF IsMachine
<1> QED BY <1>1, UintAssumption DEF PageAligned, get_kernel_size

LEMMA BitmapSizeType ==
  ASSUME machine \in Machines
  PROVE  BitmapSize \in Nat
<1>1. get_total_mem \in Nat /\ PAGE_SIZE \in Nat \ {0}
  BY TotalType, PageAssumption, UintAssumption
<1>2. get_total_mem \div PAGE_SIZE \in Nat
  BY <1>1, DivMod
<1> QED BY <1>2, CeilType, WordSizeAssumption DEF BitmapSize

(* The page number of an address is a number, whatever regions lie before. *)
LEMMA PpnType ==
  ASSUME machine \in Machines, NEW page \in Nat
  PROVE  physic_addr_to_ppn(page) \in Int /\ physic_addr_to_ppn(page) % UINT_RANGE \in Nat
<1> DEFINE i == Min(RegionsHolding(page))
           f == [j \in 1 .. i - 1 |-> PagesIn(j)]
           before == FoldFunction(+, 0, f)
<1>1. CASE RegionsHolding(page) = {}
  <2>1. physic_addr_to_ppn(page) = -1
    BY <1>1, Zenon DEF physic_addr_to_ppn
  <2> QED BY <2>1, UintAssumption
<1>2. CASE RegionsHolding(page) # {}
  <2>1. RegionsHolding(page) \in SUBSET Nat
    BY RegionsFinite DEF RegionsHolding
  <2>2. i \in RegionsHolding(page)
    BY <1>2, <2>1, MinIsLeast
  <2>3. i \in DOMAIN machine.ram /\ i \in Nat
    BY <2>2, RegionsFinite DEF RegionsHolding
  <2>4. physic_addr_to_ppn(page) = before + ((page - machine.ram[i].physicaddr) \div PAGE_SIZE)
    BY <1>2, Zenon DEF physic_addr_to_ppn, pmm_get_region
  <2> HIDE DEF i, before
  <2>5. before \in Nat
    <3>1. 1 \in Int /\ i - 1 \in Int /\ \A j \in 1 .. i - 1 : j \in DOMAIN machine.ram
      BY <2>3, RegionsFinite
    <3>2. IsFiniteSet(1 .. i - 1)
      BY <3>1, FS_Interval
    <3>3. \A j \in 1 .. i - 1 : PagesIn(j) \in Nat
      BY <3>1, RegionPages
    <3>4. f \in [DOMAIN f -> Nat] /\ IsFiniteSet(DOMAIN f)
      BY <3>2, <3>3
    <3> HIDE DEF f
    <3>5. PICK sum : SumOver(f, DOMAIN f, sum) /\ FoldFunction(+, 0, f) = sum[DOMAIN f]
      BY <3>4, FoldIsSum
    <3>6. sum[DOMAIN f] \in Nat
      BY <3>5 DEF SumOver
    <3> QED BY <3>5, <3>6, Zenon DEF before
  <2>6. (page - machine.ram[i].physicaddr) \div PAGE_SIZE \in Int
    BY <2>3, RegionPages, PageAssumption
  <2>7. physic_addr_to_ppn(page) \in Int
    BY <2>4, <2>5, <2>6
  <2> QED BY <2>7, UintAssumption
<1> QED BY <1>1, <1>2

(* The words of the bitmap are given an address of RAM or none. *)
LEMMA PlaceType ==
  ASSUME machine \in Machines
  PROVE  slots_for_bitmap \in Addresses
<1> DEFINE found == {i \in 1 .. total_memory_regions : BitmapPlacesIn(i) # {}}
<1>1. CASE found = {}
  BY <1>1, UintAssumption DEF slots_for_bitmap, NULL, Addresses
<1>2. CASE found # {}
  <2> DEFINE i == Min(found)
  <2>1. found \in SUBSET Nat
    BY RegionsFinite
  <2>2. i \in found
    BY <1>2, <2>1, MinIsLeast
  <2>3. slots_for_bitmap \in BitmapPlacesIn(i)
    BY <1>2, <2>2 DEF slots_for_bitmap
  <2>4. i \in DOMAIN machine.ram
    BY <2>2, RegionsFinite
  <2> HIDE DEF i, found
  <2>5. machine.ram[i].physicaddr \in Addresses
    BY <2>4, RegionPages, UintAssumption DEF Addresses
  <2>6. machine.end < (machine.ram[i].physicaddr + machine.ram[i].space_size) % UINT_RANGE
          => machine.end \in Addresses
    <3>1. \A z \in Nat : z % UINT_RANGE \in 0 .. UINT_RANGE - 1
      BY UintAssumption
    <3>2. (machine.ram[i].physicaddr + machine.ram[i].space_size) % UINT_RANGE \in 0 .. UINT_RANGE - 1
      BY <2>4, <3>1, RegionPages
    <3> QED BY <3>2, KernelType, UintAssumption DEF Addresses
  <2> QED BY <2>3, <2>5, <2>6 DEF BitmapPlacesIn, pmm_get_region
<1> QED BY <1>1, <1>2

-----------------------------------------------------------------------------
(* The inductive invariant.  The struct as init_phys_allocator leaves it ... *)
Prepared ==
  AfterBorrow(AfterBorrow(InitializedBitmap(BitmapSize), machine.start, get_kernel_size),
              slots_for_bitmap, BitmapBorrowSize)

(* ... and the pages behind the bits that were set since.                  *)
PagesSince ==
  {find_physical_addr_of_page(s) : s \in Used(physical_bitmap_) \ Used(Prepared)} \ {NULL}

States == {"boot", "ready", "panic: not enough RAM",
           "panic: no continuous space for bitmap",
           "halt: total_memory_regions() > 0", "halt: ppn != -1"}

(* The words are where the search put them, as many as RAM needs. *)
Placed ==
  /\ state = "boot" => physical_bitmap_ = ZeroBitmap
  /\ state = "ready" => slots_ptr # NULL
  /\ slots_ptr # NULL => /\ slots_ptr = slots_for_bitmap
                         /\ physical_bitmap_.slots_size = BitmapSize

(* The bits set at initialisation stay set, and the pages handed out are   *)
(* exactly those of the bits set since.                                    *)
Tracked ==
  /\ state # "ready" => handed = {}
  /\ state = "ready" => /\ Used(Prepared) \subseteq Used(physical_bitmap_)
                        /\ handed = PagesSince

IInv ==
  /\ machine \in Machines
  /\ state \in States
  /\ ret \in Addresses
  /\ BitmapType(physical_bitmap_)
  /\ Placed
  /\ Tracked
  /\ state = "panic: not enough RAM" => ShortOfRam

(* The machine is fixed, and with it everything computed from it. *)
LEMMA Fixed ==
  ASSUME machine' = machine
  PROVE  /\ BitmapSize' = BitmapSize
         /\ slots_for_bitmap' = slots_for_bitmap
         /\ Prepared' = Prepared
         /\ ShortOfRam' = ShortOfRam
         /\ \A s : find_physical_addr_of_page(s)' = find_physical_addr_of_page(s)
<1>1. get_total_mem' = get_total_mem /\ get_kernel_size' = get_kernel_size
  <2> DEFINE Total(m) ==
        FoldFunction(+, 0, [i \in DOMAIN m.ram |-> m.ram[i].space_size]) % UINT_RANGE
  <2>1. get_total_mem = Total(machine) /\ get_total_mem' = Total(machine')
    BY Zenon DEF get_total_mem, FoldFunction, FoldFunctionOnSet, MapThenFoldSet
  <2> HIDE DEF Total
  <2>2. get_total_mem' = get_total_mem
    BY <2>1, Zenon
  <2> QED BY <2>2 DEF get_kernel_size
<1>2. /\ total_memory_regions' = total_memory_regions
      /\ \A i : pmm_get_region(i)' = pmm_get_region(i) /\ PagesIn(i)' = PagesIn(i)
  BY DEF total_memory_regions, pmm_get_region, PagesIn
<1>3. BitmapSize' = BitmapSize /\ BitmapBytes' = BitmapBytes
  BY <1>1 DEF BitmapSize, BitmapBytes, udiv_and_ceil
<1>4. ShortOfRam' = ShortOfRam
  BY <1>1 DEF ShortOfRam, AsLong
<1>5. \A i : BitmapPlacesIn(i)' = BitmapPlacesIn(i)
  BY <1>2, <1>3 DEF BitmapPlacesIn
<1>6. slots_for_bitmap' = slots_for_bitmap
  <2> DEFINE found == {i \in 1 .. total_memory_regions : BitmapPlacesIn(i) # {}}
             place(B) == CHOOSE a \in B : TRUE
  <2>1. found' = found
    BY <1>2, <1>5
  <2>2. slots_for_bitmap = IF found = {} THEN NULL ELSE place(BitmapPlacesIn(Min(found)))
    BY Zenon DEF slots_for_bitmap
  <2>3. slots_for_bitmap' = IF found' = {} THEN NULL ELSE place(BitmapPlacesIn(Min(found))')
    BY Zenon DEF slots_for_bitmap
  <2> HIDE DEF place
  <2>4. BitmapPlacesIn(Min(found))' = BitmapPlacesIn(Min(found))
    BY <1>2, <1>3, <2>1 DEF BitmapPlacesIn
  <2> HIDE DEF found
  <2> QED BY <2>1, <2>2, <2>3, <2>4, Zenon
<1>7. \A s : find_physical_addr_of_page(s)' = find_physical_addr_of_page(s)
  BY <1>2 DEF find_physical_addr_of_page, RegionsReaching
<1>8. \A a : physic_addr_to_ppn(a)' = physic_addr_to_ppn(a)
  <2> DEFINE Holding(m, page) ==
        {i \in 1 .. Len(m.ram) :
           LET r == m.ram[i]
           IN  page >= r.physicaddr /\ page <= (r.physicaddr + r.space_size) % UINT_RANGE}
             Ppn(m, page) ==
        IF Holding(m, page) = {}
        THEN -1
        ELSE LET i == Min(Holding(m, page))
             IN  FoldFunction(+, 0, [j \in 1 .. i - 1 |-> m.ram[j].space_size \div PAGE_SIZE])
                   + ((page - m.ram[i].physicaddr) \div PAGE_SIZE)
  <2>1. \A a : physic_addr_to_ppn(a) = Ppn(machine, a) /\ physic_addr_to_ppn(a)' = Ppn(machine', a)
    BY Zenon DEF physic_addr_to_ppn, RegionsHolding, PagesIn, pmm_get_region, total_memory_regions,
                 FoldFunction, FoldFunctionOnSet, MapThenFoldSet
  <2> HIDE DEF Ppn
  <2> QED BY <2>1, Zenon
<1>9. Prepared' = Prepared
  BY <1>1, <1>3, <1>6, <1>8 DEF Prepared, AfterBorrow, BitmapBorrowSize
<1> QED BY <1>3, <1>4, <1>6, <1>7, <1>9

(* pmm_borrow_pages marks a range of the bitmap and leaves the rest. *)
LEMMA BorrowMarks ==
  ASSUME machine \in Machines, NEW b, BitmapType(b), NEW a \in Nat, NEW n \in Nat
  PROVE  LET c == AfterBorrow(b, a, n)
             first == physic_addr_to_ppn(a) % UINT_RANGE
             last == (first + udiv_and_ceil(n, PAGE_SIZE)) % UINT_RANGE
         IN  /\ BitmapType(c)
             /\ c.slots_size = b.slots_size
             /\ Used(c) = Used(b) \cup {s \in Slots(b) : first <= s /\ s < last}
<1>1. PAGE_SIZE \in Nat \ {0}
  BY PageAssumption
<1>2. physic_addr_to_ppn(a) % UINT_RANGE \in Nat /\ udiv_and_ceil(n, PAGE_SIZE) \in Nat
  BY <1>1, PpnType, CeilType
<1> DEFINE first == physic_addr_to_ppn(a) % UINT_RANGE
           pages == udiv_and_ceil(n, PAGE_SIZE)
<1>3. AfterBorrow(b, a, n) = AfterMark(b, first, pages)
  BY Zenon DEF AfterBorrow
<1> HIDE DEF first, pages
<1>4. first \in Nat /\ pages \in Nat
  BY <1>2 DEF first, pages
<1>5. LET c == AfterMark(b, first, pages)
          last == (first + pages) % UINT_RANGE
      IN  /\ BitmapType(c) /\ c.slots_size = b.slots_size
          /\ Used(c) = Used(b) \cup {s \in Slots(b) : first <= s /\ s < last}
  BY <1>4, MarkAdds
<1> QED BY <1>3, <1>5, Zenon DEF first, pages

(* What init_phys_allocator writes at each of its stages. *)
LEMMA Stages ==
  ASSUME machine \in Machines
  PROVE  LET cleared == InitializedBitmap(BitmapSize)
             kernel_borrowed == AfterBorrow(cleared, machine.start, get_kernel_size)
         IN  /\ BitmapType(cleared) /\ cleared.slots_size = BitmapSize /\ Used(cleared) = {}
             /\ BitmapType(kernel_borrowed) /\ kernel_borrowed.slots_size = BitmapSize
             /\ BitmapType(Prepared) /\ Prepared.slots_size = BitmapSize
<1> DEFINE cleared == InitializedBitmap(BitmapSize)
           kernel_borrowed == AfterBorrow(cleared, machine.start, get_kernel_size)
<1>1. BitmapSize \in Nat
  BY BitmapSizeType
<1>2. BitmapType(cleared) /\ cleared.slots_size = BitmapSize /\ Used(cleared) = {}
  BY <1>1, InitClears
<1>3. machine.start \in Nat /\ get_kernel_size \in Nat
  BY KernelType
<1> HIDE DEF cleared
<1>4. BitmapType(kernel_borrowed) /\ kernel_borrowed.slots_size = BitmapSize
  BY <1>2, <1>3, BorrowMarks
<1>5. slots_for_bitmap \in Nat
  BY PlaceType, UintAssumption DEF Addresses
<1>6. Prepared = AfterBorrow(kernel_borrowed, slots_for_bitmap, BitmapSize)
  BY Zenon DEF Prepared, BitmapBorrowSize, cleared
<1> HIDE DEF kernel_borrowed
<1>7. BitmapType(Prepared) /\ Prepared.slots_size = BitmapSize
  BY <1>1, <1>4, <1>5, <1>6, BorrowMarks
<1> QED BY <1>2, <1>4, <1>7 DEF cleared, kernel_borrowed

LEMMA InitialInvariant == Init => IInv
<1> SUFFICES ASSUME Init PROVE IInv
  OBVIOUS
<1>1. machine \in Machines /\ state = "boot" /\ slots_ptr = NULL /\ ret = NULL /\ handed = {}
      /\ physical_bitmap_ = ZeroBitmap
  BY DEF Init
<1>2. NULL \in Addresses
  BY UintAssumption DEF NULL, Addresses
<1>3. BitmapType(physical_bitmap_)
  BY <1>1, ZeroHasNoSlots
<1>4. Placed /\ Tracked
  BY <1>1 DEF Placed, Tracked
<1> QED BY <1>1, <1>2, <1>3, <1>4 DEF IInv, States

(* init_phys_allocator either stops before it writes, or writes one of the  *)
(* three stages.                                                           *)
LEMMA InitKeepsInvariant ==
  ASSUME IInv, init_phys_allocator
  PROVE  IInv'
<1> DEFINE cleared == InitializedBitmap(BitmapSize)
           kernel_borrowed == AfterBorrow(cleared, machine.start, get_kernel_size)
<1>1. /\ state = "boot" /\ machine \in Machines /\ ret \in Addresses /\ handed = {}
      /\ physical_bitmap_ = ZeroBitmap /\ BitmapType(physical_bitmap_)
      /\ slots_ptr # NULL => slots_ptr = slots_for_bitmap /\ physical_bitmap_.slots_size = BitmapSize
  BY DEF init_phys_allocator, IInv, Placed, Tracked
<1>2. machine' = machine /\ ret' = ret /\ handed' = handed /\ state' \in States \ {"boot"}
  BY DEF init_phys_allocator, Stop, States
<1>3. /\ BitmapSize' = BitmapSize /\ slots_for_bitmap' = slots_for_bitmap
      /\ Prepared' = Prepared /\ ShortOfRam' = ShortOfRam
  BY <1>2, Fixed
<1>4. CASE slots_ptr' = slots_ptr /\ physical_bitmap_' = physical_bitmap_
           /\ state' # "ready" /\ (state' = "panic: not enough RAM" => ShortOfRam)
  <2>1. Placed' /\ Tracked'
    BY <1>1, <1>2, <1>3, <1>4 DEF Placed, Tracked
  <2> QED BY <1>1, <1>2, <1>3, <1>4, <2>1 DEF IInv
<1>5. CASE /\ slots_ptr' = slots_for_bitmap /\ slots_for_bitmap # NULL
           /\ state' # "panic: not enough RAM"
           /\ \/ state' # "ready" /\ physical_bitmap_' = cleared
              \/ state' # "ready" /\ physical_bitmap_' = kernel_borrowed
              \/ state' = "ready" /\ physical_bitmap_' = Prepared
  <2>1. /\ BitmapType(cleared) /\ cleared.slots_size = BitmapSize
        /\ BitmapType(kernel_borrowed) /\ kernel_borrowed.slots_size = BitmapSize
        /\ BitmapType(Prepared) /\ Prepared.slots_size = BitmapSize
    BY <1>1, Stages
  <2> HIDE DEF cleared, kernel_borrowed
  <2>2. BitmapType(physical_bitmap_') /\ physical_bitmap_'.slots_size = BitmapSize
    BY <1>5, <2>1, Zenon
  <2>3. BitmapType(physical_bitmap_)'
    BY <2>2 DEF BitmapType
  <2>4. Placed'
    BY <1>2, <1>3, <1>5, <2>2 DEF Placed
  <2>5. Tracked'
    <3>1. CASE state' # "ready"
      BY <1>1, <1>2, <3>1 DEF Tracked
    <3>2. CASE state' = "ready"
      <4>1. physical_bitmap_' = Prepared
        BY <1>5, <3>2
      <4>2. Used(physical_bitmap_)' = Used(Prepared)'
        BY <1>3, <4>1 DEF Used, Slots, Capacity, bitmap_is_used
      <4>3. PagesSince' = {}
        BY <4>2 DEF PagesSince
      <4> QED BY <1>1, <1>2, <3>2, <4>2, <4>3 DEF Tracked
    <3> QED BY <3>1, <3>2
  <2> QED BY <1>1, <1>2, <1>5, <2>3, <2>4, <2>5 DEF IInv
<1> QED BY <1>4, <1>5 DEF init_phys_allocator, Stop, Prepared

(* What pmm_allocate_page does once the allocator is ready: it takes a clear *)
(* bit s, with every bit below s set, or finds every bit set.              *)
LEMMA AllocateStep ==
  ASSUME IInv, pmm_allocate_page
  PROVE  /\ machine' = machine /\ state' = state /\ slots_ptr' = slots_ptr
         /\ BitmapType(physical_bitmap_')
         /\ physical_bitmap_'.slots_size = physical_bitmap_.slots_size
         /\ \/ /\ ret' = NULL /\ handed' = handed /\ physical_bitmap_' = physical_bitmap_
               /\ Used(physical_bitmap_) = Slots(physical_bitmap_)
            \/ /\ state = "ready"
               /\ \E s \in Slots(physical_bitmap_) \ Used(physical_bitmap_) :
                    /\ s \in Nat
                    /\ 0 .. s - 1 \subseteq Used(physical_bitmap_)
                    /\ ret' = find_physical_addr_of_page(s)
                    /\ handed' = handed \cup ({ret'} \ {NULL})
                    /\ Used(physical_bitmap_') = Used(physical_bitmap_) \cup {s}
<1> DEFINE b == physical_bitmap_
           s == AllocatedSlot(b)
<1>1. /\ machine' = machine /\ state' = state /\ slots_ptr' = slots_ptr
      /\ state \in {"boot", "ready"}
      /\ ret' = IF s = -1 THEN NULL ELSE find_physical_addr_of_page(s)
      /\ physical_bitmap_' = AfterAllocate(b)
      /\ handed' = handed \cup ({ret'} \ {NULL})
  BY DEF pmm_allocate_page
<1>2. BitmapType(b) /\ (state = "boot" => b = ZeroBitmap)
  BY DEF IInv, Placed
<1> HIDE DEF s
<1>3. CASE NotFull(b) = {}
  <2>1. s = -1 /\ AfterAllocate(b) = b /\ Used(b) = Slots(b)
    BY <1>2, <1>3, FullMeansUsed DEF s
  <2> QED BY <1>1, <1>2, <2>1
<1>4. CASE NotFull(b) # {}
  <2>1. state = "ready"
    BY <1>1, <1>2, <1>4, ZeroHasNoSlots
  <2>2. /\ s \in Slots(b) \ Used(b)
        /\ 0 .. s - 1 \subseteq Used(b)
        /\ BitmapType(AfterAllocate(b))
        /\ AfterAllocate(b).slots_size = b.slots_size
        /\ Used(AfterAllocate(b)) = Used(b) \cup {s}
    BY <1>2, <1>4, AllocateTakesLowest DEF s
  <2>3. s \in Nat /\ s # -1
    BY <1>2, <2>2, SlotInWord
  <2> QED BY <1>1, <2>1, <2>2, <2>3
<1> QED BY <1>3, <1>4

LEMMA AllocateKeepsInvariant ==
  ASSUME IInv, pmm_allocate_page
  PROVE  IInv'
<1>1. /\ machine \in Machines /\ state \in States /\ ret \in Addresses
      /\ BitmapType(physical_bitmap_) /\ Placed /\ Tracked
      /\ state = "panic: not enough RAM" => ShortOfRam
  BY DEF IInv
<1>2. /\ machine' = machine /\ state' = state /\ slots_ptr' = slots_ptr
      /\ BitmapType(physical_bitmap_')
      /\ physical_bitmap_'.slots_size = physical_bitmap_.slots_size
  BY AllocateStep
<1>3. /\ BitmapSize' = BitmapSize /\ slots_for_bitmap' = slots_for_bitmap
      /\ Prepared' = Prepared /\ ShortOfRam' = ShortOfRam
      /\ \A s : find_physical_addr_of_page(s)' = find_physical_addr_of_page(s)
  BY <1>2, Fixed
<1>4. Used(physical_bitmap_)' = Used(physical_bitmap_') /\ Used(Prepared)' = Used(Prepared)
  BY <1>3 DEF Used, Slots, Capacity, bitmap_is_used
<1>5. BitmapType(physical_bitmap_)'
  BY <1>2 DEF BitmapType
<1>6. NULL \in Addresses
  BY UintAssumption DEF NULL, Addresses
<1>7. CASE ret' = NULL /\ handed' = handed /\ physical_bitmap_' = physical_bitmap_
  <2>1. Placed'
    BY <1>1, <1>2, <1>3, <1>7 DEF Placed
  <2>2. PagesSince' = PagesSince
    BY <1>3, <1>4, <1>7 DEF PagesSince
  <2>3. Tracked'
    BY <1>1, <1>2, <1>4, <1>7, <2>2 DEF Tracked
  <2> QED BY <1>1, <1>2, <1>3, <1>5, <1>6, <1>7, <2>1, <2>3 DEF IInv
<1>8. ASSUME state = "ready",
             NEW s \in Slots(physical_bitmap_) \ Used(physical_bitmap_),
             s \in Nat, ret' = find_physical_addr_of_page(s),
             handed' = handed \cup ({ret'} \ {NULL}),
             Used(physical_bitmap_') = Used(physical_bitmap_) \cup {s}
      PROVE  IInv'
  <2>1. Placed'
    BY <1>1, <1>2, <1>3, <1>8 DEF Placed
  <2>2. Used(Prepared) \subseteq Used(physical_bitmap_) /\ handed = PagesSince
    BY <1>1, <1>8 DEF Tracked
  <2>3. Used(physical_bitmap_') \ Used(Prepared) = (Used(physical_bitmap_) \ Used(Prepared)) \cup {s}
    BY <1>8, <2>2
  <2>4. PagesSince' = PagesSince \cup ({find_physical_addr_of_page(s)} \ {NULL})
    BY <1>3, <1>4, <2>3 DEF PagesSince
  <2>5. Tracked'
    BY <1>2, <1>4, <1>8, <2>2, <2>4 DEF Tracked
  <2>6. ret' \in Addresses
    <3>1. CASE RegionsReaching(s) = {}
      BY <1>6, <1>8, <3>1 DEF find_physical_addr_of_page
    <3>2. CASE RegionsReaching(s) # {}
      BY <1>1, <1>8, <3>2, FoundPage
    <3> QED BY <3>1, <3>2
  <2> QED BY <1>1, <1>2, <1>3, <1>5, <1>8, <2>1, <2>5, <2>6 DEF IInv
<1> QED BY <1>7, <1>8, AllocateStep

LEMMA StutterKeepsInvariant ==
  ASSUME IInv, UNCHANGED vars
  PROVE  IInv'
<1>1. /\ machine' = machine /\ state' = state /\ slots_ptr' = slots_ptr /\ ret' = ret
      /\ handed' = handed /\ physical_bitmap_' = physical_bitmap_
  BY DEF vars
<1>2. /\ BitmapSize' = BitmapSize /\ slots_for_bitmap' = slots_for_bitmap
      /\ Prepared' = Prepared /\ ShortOfRam' = ShortOfRam
      /\ \A s : find_physical_addr_of_page(s)' = find_physical_addr_of_page(s)
  BY <1>1, Fixed
<1>3. Used(physical_bitmap_)' = Used(physical_bitmap_) /\ Used(Prepared)' = Used(Prepared)
  BY <1>1, <1>2 DEF Used, Slots, Capacity, bitmap_is_used
<1>4. BitmapType(physical_bitmap_)' <=> BitmapType(physical_bitmap_)
  BY <1>1 DEF BitmapType
<1>5. PagesSince' = PagesSince
  BY <1>2, <1>3 DEF PagesSince
<1> QED BY <1>1, <1>2, <1>3, <1>4, <1>5 DEF IInv, Placed, Tracked

LEMMA Inductive == Spec => []IInv
<1>1. Init => IInv
  BY InitialInvariant
<1>2. IInv /\ [Next]_vars => IInv'
  BY InitKeepsInvariant, AllocateKeepsInvariant, StutterKeepsInvariant DEF Next
<1> QED BY <1>1, <1>2, PTL DEF Spec

-----------------------------------------------------------------------------
(* Theorems about every machine. *)
LEMMA HandedPage ==
  ASSUME IInv, NEW a \in handed
  PROVE  /\ state = "ready"
         /\ \E s \in Used(physical_bitmap_) \ Used(Prepared) :
              /\ s \in Slots(physical_bitmap_) /\ s \in Nat
              /\ a = find_physical_addr_of_page(s) /\ RegionsReaching(s) # {}
<1>1. state = "ready" /\ handed = PagesSince /\ BitmapType(physical_bitmap_)
  BY DEF IInv, Tracked
<1>2. PICK s \in Used(physical_bitmap_) \ Used(Prepared) :
        a = find_physical_addr_of_page(s) /\ a # NULL
  BY <1>1 DEF PagesSince
<1>3. s \in Slots(physical_bitmap_)
  BY DEF Used
<1>4. s \in Nat
  BY <1>1, <1>3, SlotInWord
<1>5. RegionsReaching(s) # {}
  BY <1>2 DEF find_physical_addr_of_page
<1> QED BY <1>1, <1>2, <1>3, <1>4, <1>5

(* The struct, the address of its words, the results and the pages handed   *)
(* out by phys_alloc.c have their types.                                   *)
THEOREM PhysAllocTypes == Spec => []TypeOK
<1>1. ASSUME IInv PROVE TypeOK
  <2>1. slots_ptr \in Addresses
    <3>1. NULL \in Addresses
      BY UintAssumption DEF NULL, Addresses
    <3>2. slots_ptr = NULL \/ slots_ptr = slots_for_bitmap
      BY <1>1 DEF IInv, Placed
    <3> QED BY <1>1, <3>1, <3>2, PlaceType DEF IInv
  <2>2. handed \subseteq PageAligned
    <3> SUFFICES ASSUME NEW a \in handed PROVE a \in PageAligned
      OBVIOUS
    <3>1. PICK s \in Nat : a = find_physical_addr_of_page(s) /\ RegionsReaching(s) # {}
      BY <1>1, HandedPage
    <3> QED BY <1>1, <3>1, FoundPage DEF IInv
  <2>3. /\ physical_bitmap_.free_slots_count \in 0 .. UINT_RANGE - 1
        /\ physical_bitmap_.words \in [0 .. physical_bitmap_.slots_size - 1 -> SUBSET Bits]
    BY <1>1 DEF IInv, BitmapType
  <2> QED BY <1>1, <2>1, <2>2, <2>3 DEF IInv, TypeOK, States
<1> QED BY <1>1, Inductive, PTL

(* Whatever pmm_allocate_page hands out is RAM from its first byte to its   *)
(* last, on every machine.                                                 *)
THEOREM PagesAreRam == Spec => []HandedOutIsRam
<1>1. ASSUME IInv PROVE HandedOutIsRam
  <2> SUFFICES ASSUME NEW a \in handed PROVE PageExtent(a) \subseteq RamExtent
    BY DEF HandedOutIsRam
  <2>1. PICK s \in Nat : a = find_physical_addr_of_page(s) /\ RegionsReaching(s) # {}
    BY <1>1, HandedPage
  <2>2. PICK i \in DOMAIN machine.ram : PageExtent(a) \subseteq RegionExtent(machine.ram[i])
    BY <1>1, <2>1, FoundPage DEF IInv
  <2> QED BY <2>2 DEF RamExtent
<1> QED BY <1>1, Inductive, PTL

(* pmm_allocate_page never hands out a page again, on every machine.       *)
THEOREM EveryPageOnce == Spec => NeverTwice
<1>1. ASSUME IInv, pmm_allocate_page, ret' # NULL PROVE ret' \notin handed
  <2> SUFFICES ASSUME ret' \in handed PROVE FALSE
    OBVIOUS
  <2>1. PICK s \in Slots(physical_bitmap_) \ Used(physical_bitmap_) :
          s \in Nat /\ ret' = find_physical_addr_of_page(s)
    BY <1>1, AllocateStep
  <2>2. RegionsReaching(s) # {}
    BY <1>1, <2>1 DEF find_physical_addr_of_page
  <2>3. PICK t \in Used(physical_bitmap_) :
          /\ t \in Nat /\ ret' = find_physical_addr_of_page(t)
          /\ RegionsReaching(t) # {}
    BY <1>1, HandedPage
  <2>4. s = t
    BY <1>1, <2>1, <2>2, <2>3, FoundOnce DEF IInv
  <2> QED BY <2>1, <2>3, <2>4
<1>2. ASSUME IInv, [Next]_vars
      PROVE  [pmm_allocate_page /\ ret' # NULL => ret' \notin handed]_vars
  BY <1>1, <1>2
<1> QED BY <1>2, Inductive, PTL DEF Spec, NeverTwice

(* init_phys_allocator panics for want of RAM only when less than a page is *)
(* free besides the kernel, or half of the address space: the wrapping     *)
(* 32-bit arithmetic and the signed comparison err nowhere else.           *)
THEOREM PanicsOnlyWhenShort == Spec => []PanicOnlyWhenShort
<1>1. ASSUME IInv PROVE PanicOnlyWhenShort
  <2> DEFINE C == Cardinality(RamExtent)
             K == get_kernel_size
             T == get_total_mem
             H == UINT_RANGE \div 2
             D == (T - K) % UINT_RANGE
  <2> SUFFICES ASSUME ShortOfRam, ~ (C - K < PAGE_SIZE), ~ (C - K >= H) PROVE FALSE
    BY <1>1 DEF PanicOnlyWhenShort, IInv
  <2>1. C \in 0 .. UINT_RANGE /\ T = C % UINT_RANGE /\ K \in 1 .. UINT_RANGE
    BY <1>1, TotalType, KernelType DEF IInv
  <2>2. UINT_RANGE \in Nat \ {0} /\ PAGE_SIZE \in Nat \ {0}
    BY UintAssumption, PageAssumption
  <2>3. H \in Nat
    BY <2>2
  <2>4. (IF D >= H THEN D - UINT_RANGE ELSE D) < PAGE_SIZE
    BY DEF ShortOfRam, AsLong
  <2> HIDE DEF C, K, T, H
  <2>5. C - K \in 1 .. UINT_RANGE - 1
    BY <2>1, <2>2, <2>3
  <2>6. D = C - K
    <3>1. CASE C = UINT_RANGE
      <4>1. T = 0
        BY <2>1, <2>2, <3>1
      <4> QED BY <2>1, <2>2, <2>5, <3>1, <4>1
    <3>2. CASE C # UINT_RANGE
      <4>1. T = C
        BY <2>1, <2>2, <3>2
      <4> QED BY <2>1, <2>2, <2>5, <4>1
    <3> QED BY <3>1, <3>2
  <2> HIDE DEF D
  <2> QED BY <2>1, <2>2, <2>3, <2>4, <2>5, <2>6
<1> QED BY <1>1, Inductive, PTL

-----------------------------------------------------------------------------
(* Plain machines.  A machine with one region, in pages: the region starts  *)
(* at page p and has n pages, of which the l pages from its k-th hold the  *)
(* kernel.                                                                 *)
Laid(p, n, k, l) ==
  /\ p \in Nat \ {0} /\ n \in Nat \ {0} /\ k \in Nat /\ l \in Nat \ {0} /\ k + l <= n
  /\ total_memory_regions = 1
  /\ machine.ram[1].physicaddr = p * PAGE_SIZE
  /\ machine.ram[1].space_size = n * PAGE_SIZE
  /\ machine.start = (p + k) * PAGE_SIZE
  /\ machine.end = (p + k + l) * PAGE_SIZE
  /\ (p + n) * PAGE_SIZE < UINT_RANGE
  /\ n <= (PAGE_SIZE \div WORD_BYTES) * WORD_SIZE

LEMMA PageOrder ==
  ASSUME NEW i \in Nat, NEW j \in Nat
  PROVE  /\ i * PAGE_SIZE <= j * PAGE_SIZE <=> i <= j
         /\ i * PAGE_SIZE < j * PAGE_SIZE <=> i < j
         /\ (i + j) * PAGE_SIZE = i * PAGE_SIZE + j * PAGE_SIZE
         /\ i * PAGE_SIZE \in Nat /\ i <= i * PAGE_SIZE
<1>1. PAGE_SIZE \in Nat \ {0}
  BY PageAssumption
<1>2. ASSUME NEW a \in Nat, NEW b \in Nat, a < b PROVE a * PAGE_SIZE < b * PAGE_SIZE
  <2>1. (a + 1) * PAGE_SIZE <= b * PAGE_SIZE
    BY <1>2, PageMonotone
  <2>2. (a + 1) * PAGE_SIZE = a * PAGE_SIZE + PAGE_SIZE /\ a * PAGE_SIZE \in Nat /\ b * PAGE_SIZE \in Nat
    BY <1>1
  <2> QED BY <1>1, <2>1, <2>2
<1>3. i * PAGE_SIZE \in Nat /\ j * PAGE_SIZE \in Nat
  BY <1>1
<1>4. (i + j) * PAGE_SIZE = i * PAGE_SIZE + j * PAGE_SIZE /\ i <= i * PAGE_SIZE
  BY <1>1
<1>5. (i < j => i * PAGE_SIZE < j * PAGE_SIZE) /\ (j < i => j * PAGE_SIZE < i * PAGE_SIZE)
  BY <1>2
<1> QED BY <1>3, <1>4, <1>5

LEMMA CeilBounds ==
  ASSUME NEW a \in Nat, NEW b \in Nat \ {0}, NEW m \in Nat
  PROVE  /\ udiv_and_ceil(a, b) \in Nat
         /\ a <= b * udiv_and_ceil(a, b)
         /\ a > 0 => udiv_and_ceil(a, b) > 0
         /\ a <= m * b => udiv_and_ceil(a, b) <= m
<1> DEFINE q == a \div b
           r == a % b
           c == udiv_and_ceil(a, b)
<1>1. q \in Nat /\ r \in 0 .. b - 1 /\ a = b * q + r
  BY DivMod
<1>2. c = q + IF r # 0 THEN 1 ELSE 0
  BY DEF udiv_and_ceil
<1> HIDE DEF q, r, c
<1>3. c \in Nat
  BY <1>1, <1>2
<1>4. b * (q + 1) = b * q + b /\ b * q \in Nat
  BY <1>1
<1>5. a <= b * c
  <2>1. CASE r = 0
    BY <1>1, <1>2, <2>1
  <2>2. CASE r # 0
    <3>1. c = q + 1
      BY <1>2, <2>2
    <3> QED BY <1>1, <1>4, <3>1
  <2> QED BY <2>1, <2>2
<1>6. a > 0 => c > 0
  <2>1. c = 0 => b * c = 0
    OBVIOUS
  <2> QED BY <1>3, <1>5, <2>1
<1>7. ASSUME a <= m * b PROVE c <= m
  <2> SUFFICES ASSUME m + 1 <= c PROVE FALSE
    BY <1>3
  <2>1. CASE r = 0
    <3>1. m + 1 <= q
      BY <1>1, <1>2, <2>1
    <3>2. b * (m + 1) <= b * q /\ b * (m + 1) = m * b + b /\ m * b \in Nat
      BY <1>1, <3>1
    <3> QED BY <1>1, <1>4, <1>7, <2>1, <3>2
  <2>2. CASE r # 0
    <3>1. m <= q
      BY <1>1, <1>2, <2>2
    <3>2. m * b <= b * q /\ m * b \in Nat
      BY <1>1, <3>1
    <3> QED BY <1>1, <1>4, <1>7, <2>2, <3>2
  <2> QED BY <2>1, <2>2
<1> QED BY <1>3, <1>5, <1>6, <1>7 DEF c

LEMMA PlainIsLaid ==
  ASSUME machine \in Machines, PlainMachine, total_memory_regions # 0
  PROVE  \E p, n, k, l : Laid(p, n, k, l)
<1>1. total_memory_regions = 1 /\ DOMAIN machine.ram = {1}
  <2>1. total_memory_regions \in Nat /\ total_memory_regions <= 1
        /\ DOMAIN machine.ram = 1 .. total_memory_regions
    BY RegionsFinite DEF PlainMachine, total_memory_regions
  <2> QED BY <2>1
<1> DEFINE r == machine.ram[1]
<1>2. /\ r.physicaddr \in PageAligned /\ r.physicaddr \in Nat
      /\ PagesIn(1) \in Nat \ {0} /\ r.space_size = PagesIn(1) * PAGE_SIZE
  BY <1>1, RegionPages
<1>3. /\ r.physicaddr > 0 /\ r.physicaddr + r.space_size < UINT_RANGE
      /\ PagesIn(1) <= (PAGE_SIZE \div WORD_BYTES) * WORD_SIZE
  BY <1>1 DEF PlainMachine, PagesIn, pmm_get_region
<1>4. machine.start \in PageAligned /\ machine.end \in PageAligned /\ machine.start < machine.end
      /\ machine.start .. machine.end - 1 \subseteq RegionExtent(r)
  <2>1. IsMachine(machine) /\ machine.ram # <<>>
    BY <1>1, MachinesAssumption DEF total_memory_regions
  <2> QED BY <1>1, <2>1 DEF IsMachine
<1>5. PICK p \in Nat : r.physicaddr = p * PAGE_SIZE
  BY <1>2, AlignedPages
<1>6. PICK a \in Nat : machine.start = a * PAGE_SIZE
  BY <1>4, AlignedPages
<1>7. PICK z \in Nat : machine.end = z * PAGE_SIZE
  BY <1>4, AlignedPages
<1> DEFINE n == PagesIn(1)
<1> HIDE DEF r, n
<1>8. n \in Nat \ {0} /\ r.space_size = n * PAGE_SIZE
  BY <1>2 DEF n
<1>9. /\ p * PAGE_SIZE \in Nat /\ n * PAGE_SIZE \in Nat /\ a * PAGE_SIZE \in Nat
      /\ z * PAGE_SIZE \in Nat /\ (p + n) * PAGE_SIZE = p * PAGE_SIZE + n * PAGE_SIZE
  BY <1>8, PageOrder
<1>10. r.physicaddr <= machine.start /\ machine.end <= r.physicaddr + r.space_size
  BY <1>4, <1>5, <1>6, <1>7, <1>8, <1>9 DEF RegionExtent, Extent
<1>11. p * PAGE_SIZE <= a * PAGE_SIZE /\ a * PAGE_SIZE < z * PAGE_SIZE
       /\ z * PAGE_SIZE <= (p + n) * PAGE_SIZE
  BY <1>4, <1>5, <1>6, <1>7, <1>8, <1>9, <1>10
<1>12. p <= a /\ a < z /\ z <= p + n
  BY <1>8, <1>11, PageOrder
<1>13. p # 0
  BY <1>3, <1>5, PageAssumption
<1> DEFINE k == a - p
           l == z - a
<1>14. k \in Nat /\ l \in Nat \ {0} /\ k + l <= n /\ p + k = a /\ p + k + l = z
  BY <1>8, <1>12
<1>15. (p + n) * PAGE_SIZE < UINT_RANGE /\ n <= (PAGE_SIZE \div WORD_BYTES) * WORD_SIZE
  BY <1>3, <1>5, <1>8, <1>9 DEF n, r
<1> HIDE DEF k, l
<1>16. Laid(p, n, k, l)
  BY <1>1, <1>5, <1>6, <1>7, <1>8, <1>13, <1>14, <1>15 DEF Laid, r
<1> QED BY <1>16

(* Page numbers of a plain machine count from the start of its region. *)
LEMMA PlainFound ==
  ASSUME machine \in Machines, NEW p, NEW n, NEW k, NEW l, Laid(p, n, k, l), NEW s \in Nat
  PROVE  /\ s < n => /\ RegionsReaching(s) # {}
                     /\ find_physical_addr_of_page(s) = (p + s) * PAGE_SIZE
         /\ s >= n => RegionsReaching(s) = {} /\ find_physical_addr_of_page(s) = NULL
<1>1. p \in Nat /\ n \in Nat /\ total_memory_regions = 1
      /\ machine.ram[1].physicaddr = p * PAGE_SIZE /\ machine.ram[1].space_size = n * PAGE_SIZE
  BY DEF Laid
<1>2. PAGE_SIZE \in Nat \ {0}
  BY PageAssumption
<1>3. PagesIn(1) = n
  BY <1>1, <1>2, DivExact DEF PagesIn, pmm_get_region
<1>4. CASE s < n
  <2>1. RegionsReaching(s) = {1}
    BY <1>1, <1>3, <1>4 DEF RegionsReaching
  <2>2. Min(RegionsReaching(s)) = 1
    BY <2>1, MinIsLeast
  <2>3. find_physical_addr_of_page(s) = machine.ram[1].physicaddr + s * PAGE_SIZE
    BY <2>1, <2>2, FoundPage
  <2>4. (p + s) * PAGE_SIZE = p * PAGE_SIZE + s * PAGE_SIZE
    BY <1>1, PageOrder
  <2> QED BY <1>1, <1>4, <2>1, <2>3, <2>4
<1>5. CASE s >= n
  <2>1. RegionsReaching(s) = {}
    BY <1>1, <1>3, <1>5 DEF RegionsReaching
  <2> QED BY <1>1, <1>5, <2>1 DEF find_physical_addr_of_page
<1> QED BY <1>1, <1>4, <1>5

LEMMA PlainPpn ==
  ASSUME machine \in Machines, NEW p, NEW n, NEW k, NEW l, Laid(p, n, k, l),
         NEW j \in Nat, j <= n
  PROVE  physic_addr_to_ppn((p + j) * PAGE_SIZE) = j
<1> DEFINE a == (p + j) * PAGE_SIZE
           f == [x \in 1 .. 1 - 1 |-> PagesIn(x)]
           before == FoldFunction(+, 0, f)
<1>1. p \in Nat /\ n \in Nat /\ total_memory_regions = 1 /\ (p + n) * PAGE_SIZE < UINT_RANGE
      /\ machine.ram[1].physicaddr = p * PAGE_SIZE /\ machine.ram[1].space_size = n * PAGE_SIZE
  BY DEF Laid
<1>2. PAGE_SIZE \in Nat \ {0}
  BY PageAssumption
<1>3. /\ a = p * PAGE_SIZE + j * PAGE_SIZE /\ p * PAGE_SIZE \in Nat /\ j * PAGE_SIZE \in Nat
      /\ (p + n) * PAGE_SIZE = p * PAGE_SIZE + n * PAGE_SIZE /\ n * PAGE_SIZE \in Nat
      /\ j * PAGE_SIZE <= n * PAGE_SIZE
  BY <1>1, PageOrder
<1> HIDE DEF a
<1>4. (p * PAGE_SIZE + n * PAGE_SIZE) % UINT_RANGE = p * PAGE_SIZE + n * PAGE_SIZE
  BY <1>1, <1>3, UintAssumption
<1>5. RegionsHolding(a) = {1}
  BY <1>1, <1>3, <1>4 DEF RegionsHolding, pmm_get_region
<1>6. Min(RegionsHolding(a)) = 1
  BY <1>5, MinIsLeast
<1>7. physic_addr_to_ppn(a) = before + ((a - machine.ram[1].physicaddr) \div PAGE_SIZE)
  <2> DEFINE ppn(i) == FoldFunction(+, 0, [x \in 1 .. i - 1 |-> PagesIn(x)])
                         + ((a - machine.ram[i].physicaddr) \div PAGE_SIZE)
  <2>1. RegionsHolding(a) # {}
    BY <1>5
  <2>2. physic_addr_to_ppn(a) = ppn(Min(RegionsHolding(a)))
    BY <2>1, Zenon DEF physic_addr_to_ppn, pmm_get_region
  <2>3. before + ((a - machine.ram[1].physicaddr) \div PAGE_SIZE) = ppn(1)
    BY Zenon
  <2> HIDE DEF ppn
  <2> QED BY <1>6, <2>2, <2>3, Zenon
<1>8. before = 0
  <2>1. DOMAIN f = {} /\ f \in [DOMAIN f -> Nat]
    OBVIOUS
  <2>2. IsFiniteSet(DOMAIN f)
    BY <2>1, FS_EmptySet
  <2> HIDE DEF f
  <2>3. PICK sum : SumOver(f, DOMAIN f, sum) /\ FoldFunction(+, 0, f) = sum[DOMAIN f]
    BY <2>1, <2>2, FoldIsSum
  <2>4. sum[DOMAIN f] = 0
    BY <2>1, <2>3 DEF SumOver
  <2> QED BY <2>3, <2>4, Zenon DEF before
<1> HIDE DEF before
<1>9. a - machine.ram[1].physicaddr = j * PAGE_SIZE
  BY <1>1, <1>3
<1>10. (j * PAGE_SIZE) \div PAGE_SIZE = j
  BY <1>2, DivExact
<1>11. physic_addr_to_ppn(a) = j
  BY <1>7, <1>8, <1>9, <1>10
<1> QED BY <1>11 DEF a

(* The bitmap of a plain machine has a bit for every page and fits in one.  *)
LEMMA PlainSize ==
  ASSUME machine \in Machines, NEW p, NEW n, NEW k, NEW l, Laid(p, n, k, l)
  PROVE  /\ BitmapSize \in Nat \ {0}
         /\ n <= WORD_SIZE * BitmapSize
         /\ BitmapSize * WORD_BYTES \in 1 .. PAGE_SIZE
         /\ BitmapBytes = BitmapSize * WORD_BYTES
         /\ udiv_and_ceil(BitmapBorrowSize, PAGE_SIZE) = 1
<1>1. /\ p \in Nat \ {0} /\ n \in Nat \ {0} /\ total_memory_regions = 1
      /\ machine.ram[1].physicaddr = p * PAGE_SIZE /\ machine.ram[1].space_size = n * PAGE_SIZE
      /\ (p + n) * PAGE_SIZE < UINT_RANGE
      /\ n <= (PAGE_SIZE \div WORD_BYTES) * WORD_SIZE
  BY DEF Laid
<1>2. PAGE_SIZE \in Nat \ {0} /\ WORD_BYTES \in Nat \ {0} /\ WORD_SIZE \in Nat \ {0}
  BY PageAssumption, WordBytesAssumption, WordSizeAssumption
<1>3. /\ p * PAGE_SIZE \in Nat /\ n * PAGE_SIZE \in Nat /\ p * PAGE_SIZE >= p
      /\ (p + n) * PAGE_SIZE = p * PAGE_SIZE + n * PAGE_SIZE
      /\ PAGE_SIZE <= n * PAGE_SIZE
  <2>1. 1 * PAGE_SIZE <= n * PAGE_SIZE
    BY <1>1, PageMonotone
  <2> QED BY <1>1, <1>2, <2>1, PageOrder
<1>4. get_total_mem = n * PAGE_SIZE
  <2>1. DOMAIN machine.ram = {1}
    BY <1>1, RegionsFinite
  <2>2. RamExtent = Extent(p * PAGE_SIZE, n * PAGE_SIZE)
    BY <1>1, <2>1 DEF RamExtent, RegionExtent
  <2>3. Cardinality(RamExtent) = n * PAGE_SIZE
    BY <1>3, <2>2, ExtentSize
  <2>4. get_total_mem = Cardinality(RamExtent) % UINT_RANGE
    BY TotalType
  <2>5. (n * PAGE_SIZE) % UINT_RANGE = n * PAGE_SIZE
    BY <1>1, <1>3, UintAssumption
  <2> QED BY <2>3, <2>4, <2>5
<1>5. BitmapSize = udiv_and_ceil(n, WORD_SIZE)
  BY <1>1, <1>2, <1>4, DivExact DEF BitmapSize
<1> DEFINE w == udiv_and_ceil(n, WORD_SIZE)
           m == PAGE_SIZE \div WORD_BYTES
<1>6. m \in Nat /\ m * WORD_BYTES <= PAGE_SIZE
  BY <1>2, DivMod
<1>7. w \in Nat /\ n <= WORD_SIZE * w /\ w > 0 /\ w <= m
  <2> HIDE DEF m
  <2>1. n <= m * WORD_SIZE
    BY <1>1 DEF m
  <2>2. n \in Nat /\ WORD_SIZE \in Nat \ {0} /\ m \in Nat
    BY <1>1, <1>2, <1>6
  <2>3. w \in Nat /\ n <= WORD_SIZE * w /\ (n > 0 => w > 0) /\ (n <= m * WORD_SIZE => w <= m)
    BY <2>2, CeilBounds, Zenon
  <2>4. n > 0
    BY <1>1
  <2> QED BY <2>1, <2>3, <2>4
<1> HIDE DEF w, m
<1>8. w * WORD_BYTES <= m * WORD_BYTES /\ w * WORD_BYTES \in Nat /\ w <= w * WORD_BYTES
      /\ m * WORD_BYTES \in Nat
  BY <1>2, <1>6, <1>7
<1>9. w * WORD_BYTES \in 1 .. PAGE_SIZE /\ w <= PAGE_SIZE
  BY <1>2, <1>6, <1>7, <1>8
<1>10. BitmapSize = w
  BY <1>5 DEF w
<1>11. BitmapBytes = w * WORD_BYTES
  <2>1. w * WORD_BYTES \in 0 .. UINT_RANGE - 1
    BY <1>1, <1>2, <1>3, <1>9, UintAssumption
  <2>2. (w * WORD_BYTES) % UINT_RANGE = w * WORD_BYTES
    BY <2>1, UintAssumption
  <2> QED BY <1>10, <2>2 DEF BitmapBytes
<1>12. udiv_and_ceil(w, PAGE_SIZE) = 1
  <2>1. w <= 1 * PAGE_SIZE
    BY <1>2, <1>9
  <2>2. udiv_and_ceil(w, PAGE_SIZE) \in Nat /\ udiv_and_ceil(w, PAGE_SIZE) > 0
        /\ udiv_and_ceil(w, PAGE_SIZE) <= 1
    BY <1>2, <1>7, <2>1, CeilBounds
  <2> QED BY <2>2
<1> QED BY <1>7, <1>9, <1>10, <1>11, <1>12 DEF BitmapBorrowSize

(* The search of init_phys_allocator finds a page of its own for the words, *)
(* before or behind the kernel.                                            *)
LEMMA PlainPlace ==
  ASSUME machine \in Machines, NEW p, NEW n, NEW k, NEW l, Laid(p, n, k, l),
         slots_for_bitmap # NULL
  PROVE  \E e \in 0 .. n - 1 : /\ slots_for_bitmap = (p + e) * PAGE_SIZE
                               /\ e < k \/ k + l <= e
<1>1. /\ p \in Nat \ {0} /\ n \in Nat \ {0} /\ k \in Nat /\ l \in Nat \ {0} /\ k + l <= n
      /\ total_memory_regions = 1
      /\ machine.ram[1].physicaddr = p * PAGE_SIZE
      /\ machine.ram[1].space_size = n * PAGE_SIZE
      /\ machine.start = (p + k) * PAGE_SIZE
      /\ machine.end = (p + k + l) * PAGE_SIZE
      /\ (p + n) * PAGE_SIZE < UINT_RANGE
  BY DEF Laid
<1> DEFINE found == {i \in 1 .. total_memory_regions : BitmapPlacesIn(i) # {}}
<1>2. found # {}
  BY DEF slots_for_bitmap
<1>3. found = {1}
  BY <1>1, <1>2
<1>4. Min(found) = 1
  BY <1>3, MinIsLeast
<1>5. BitmapPlacesIn(1) # {}
  BY <1>3
<1>6. slots_for_bitmap \in BitmapPlacesIn(1)
  <2>1. slots_for_bitmap = CHOOSE a \in BitmapPlacesIn(Min(found)) : TRUE
    BY <1>2, Zenon DEF slots_for_bitmap
  <2> HIDE DEF found
  <2> QED BY <1>4, <1>5, <2>1
<1> HIDE DEF found
<1>7. BitmapBytes \in 1 .. PAGE_SIZE
  BY PlainSize
<1>8. /\ p * PAGE_SIZE \in Nat /\ n * PAGE_SIZE \in Nat /\ k * PAGE_SIZE \in Nat
      /\ (p + n) * PAGE_SIZE = p * PAGE_SIZE + n * PAGE_SIZE
      /\ (p + k) * PAGE_SIZE = p * PAGE_SIZE + k * PAGE_SIZE
      /\ (p + k) * PAGE_SIZE < (p + n) * PAGE_SIZE
  BY <1>1, PageOrder
<1>9. (machine.ram[1].physicaddr + machine.ram[1].space_size) % UINT_RANGE = (p + n) * PAGE_SIZE
  BY <1>1, <1>8, UintAssumption
<1>10. (machine.start - machine.ram[1].physicaddr) % UINT_RANGE = k * PAGE_SIZE
  BY <1>1, <1>8, UintAssumption
<1>11. machine.start >= machine.ram[1].physicaddr /\ machine.start < (p + n) * PAGE_SIZE
  BY <1>1, <1>8
<1>12. \/ /\ slots_for_bitmap = p * PAGE_SIZE /\ k * PAGE_SIZE >= BitmapBytes
       \/ /\ slots_for_bitmap = (p + k + l) * PAGE_SIZE
          /\ (p + k + l) * PAGE_SIZE < (p + n) * PAGE_SIZE
  BY <1>1, <1>6, <1>9, <1>10, <1>11 DEF BitmapPlacesIn, pmm_get_region
<1>13. CASE slots_for_bitmap = p * PAGE_SIZE /\ k * PAGE_SIZE >= BitmapBytes
  <2>1. k # 0
    BY <1>7, <1>13, PageAssumption
  <2>2. 0 \in 0 .. n - 1 /\ 0 < k /\ p + 0 = p
    BY <1>1, <2>1
  <2> QED BY <1>13, <2>2
<1>14. CASE /\ slots_for_bitmap = (p + k + l) * PAGE_SIZE
            /\ (p + k + l) * PAGE_SIZE < (p + n) * PAGE_SIZE
  <2>1. p + k + l < p + n
    BY <1>1, <1>14, PageOrder
  <2>2. k + l \in 0 .. n - 1 /\ p + (k + l) = p + k + l
    BY <1>1, <2>1
  <2> QED BY <1>1, <1>14, <2>2
<1> QED BY <1>12, <1>13, <1>14

(* The bits that initialisation sets among those of the n pages: the        *)
(* kernel's and that of the page the words lie in.                         *)
LEMMA PlainPrepared ==
  ASSUME machine \in Machines, NEW p, NEW n, NEW k, NEW l, Laid(p, n, k, l),
         NEW e \in 0 .. n - 1, slots_for_bitmap = (p + e) * PAGE_SIZE
  PROVE  \A s \in 0 .. n - 1 : s \in Used(Prepared) <=> (k <= s /\ s < k + l) \/ s = e
<1> DEFINE cleared == InitializedBitmap(BitmapSize)
           borrowed == AfterBorrow(cleared, machine.start, get_kernel_size)
<1>1. /\ p \in Nat \ {0} /\ n \in Nat \ {0} /\ k \in Nat /\ l \in Nat \ {0} /\ k + l <= n
      /\ machine.start = (p + k) * PAGE_SIZE
      /\ machine.end = (p + k + l) * PAGE_SIZE
      /\ (p + n) * PAGE_SIZE < UINT_RANGE
  BY DEF Laid
<1>2. /\ BitmapType(cleared) /\ cleared.slots_size = BitmapSize /\ Used(cleared) = {}
      /\ BitmapType(borrowed) /\ borrowed.slots_size = BitmapSize
  BY Stages
<1>3. n < UINT_RANGE
  <2> DEFINE top == (p + n) * PAGE_SIZE
  <2>1. n \in Nat /\ p \in Nat /\ top \in Nat /\ p + n <= top /\ top < UINT_RANGE
    BY <1>1, PageOrder
  <2> HIDE DEF top
  <2> QED BY <2>1, UintAssumption
<1>4. physic_addr_to_ppn(machine.start) = k /\ physic_addr_to_ppn(slots_for_bitmap) = e
  BY <1>1, PlainPpn
<1>5. get_kernel_size = l * PAGE_SIZE /\ udiv_and_ceil(get_kernel_size, PAGE_SIZE) = l
  <2>1. (p + k + l) * PAGE_SIZE = (p + k) * PAGE_SIZE + l * PAGE_SIZE
        /\ (p + k) * PAGE_SIZE \in Nat /\ l * PAGE_SIZE \in Nat
    BY <1>1, PageOrder
  <2>2. get_kernel_size = l * PAGE_SIZE
    BY <1>1, <2>1 DEF get_kernel_size
  <2>3. PAGE_SIZE \in Nat \ {0}
    BY PageAssumption
  <2> QED BY <1>1, <2>2, <2>3, DivExact DEF udiv_and_ceil
<1>6. udiv_and_ceil(BitmapBorrowSize, PAGE_SIZE) = 1
  BY PlainSize
<1>7. /\ k % UINT_RANGE = k /\ (k + l) % UINT_RANGE = k + l
      /\ e % UINT_RANGE = e /\ (e + 1) % UINT_RANGE = e + 1
  BY <1>1, <1>3, UintAssumption
<1>8. machine.start \in Nat /\ get_kernel_size \in Nat /\ slots_for_bitmap \in Nat
      /\ BitmapBorrowSize \in Nat
  <2>1. BitmapBorrowSize \in Nat
    BY BitmapSizeType DEF BitmapBorrowSize
  <2> QED BY <2>1, KernelType, PlaceType, UintAssumption DEF Addresses
<1> DEFINE start == machine.start
           size == get_kernel_size
<1>9. borrowed = AfterBorrow(cleared, start, size)
  OBVIOUS
<1> HIDE DEF cleared, borrowed, start, size
<1>10. Used(borrowed) = {s \in Slots(cleared) : k <= s /\ s < k + l}
  <2>1. start \in Nat /\ size \in Nat /\ physic_addr_to_ppn(start) = k
        /\ udiv_and_ceil(size, PAGE_SIZE) = l
    BY <1>4, <1>5, <1>8 DEF start, size
  <2>2. LET first == physic_addr_to_ppn(start) % UINT_RANGE
            last == (first + udiv_and_ceil(size, PAGE_SIZE)) % UINT_RANGE
        IN  Used(borrowed) = Used(cleared) \cup {s \in Slots(cleared) : first <= s /\ s < last}
    BY <1>2, <1>9, <2>1, BorrowMarks
  <2> QED BY <1>2, <1>7, <2>1, <2>2
<1>11. Prepared = AfterBorrow(borrowed, slots_for_bitmap, BitmapBorrowSize)
  BY Zenon DEF Prepared, cleared, borrowed
<1>12. Used(Prepared) = Used(borrowed) \cup {s \in Slots(borrowed) : e <= s /\ s < e + 1}
  <2>1. LET first == physic_addr_to_ppn(slots_for_bitmap) % UINT_RANGE
            last == (first + udiv_and_ceil(BitmapBorrowSize, PAGE_SIZE)) % UINT_RANGE
        IN  Used(Prepared) = Used(borrowed) \cup {s \in Slots(borrowed) : first <= s /\ s < last}
    BY <1>2, <1>8, <1>11, BorrowMarks
  <2> QED BY <1>4, <1>6, <1>7, <2>1
<1>13. 0 .. n - 1 \subseteq Slots(cleared) /\ Slots(borrowed) = Slots(cleared)
  <2>1. n <= WORD_SIZE * BitmapSize /\ WORD_SIZE * BitmapSize \in Nat
    BY PlainSize, WordSizeAssumption
  <2> QED BY <1>1, <1>2, <2>1 DEF Slots, Capacity
<1> QED BY <1>1, <1>10, <1>12, <1>13

(* Pages of a plain machine are disjoint, and the kernel's are its own. *)
LEMMA PlainPages ==
  ASSUME NEW p, NEW n, NEW k, NEW l, Laid(p, n, k, l), NEW s \in 0 .. n - 1
  PROVE  /\ (k <= s /\ s < k + l) => (p + s) * PAGE_SIZE \in KernelExtent
         /\ (s < k \/ k + l <= s) => PageExtent((p + s) * PAGE_SIZE) \cap KernelExtent = {}
         /\ \A e \in 0 .. n - 1 : e # s =>
              PageExtent((p + s) * PAGE_SIZE) \cap PageExtent((p + e) * PAGE_SIZE) = {}
         /\ PageExtent((p + s) * PAGE_SIZE) \subseteq RegionExtent(machine.ram[1])
         /\ (p + s) * PAGE_SIZE \in PageExtent((p + s) * PAGE_SIZE)
         /\ (p + s) * PAGE_SIZE \in Nat \ {0}
<1>1. /\ p \in Nat \ {0} /\ n \in Nat \ {0} /\ k \in Nat /\ l \in Nat \ {0} /\ k + l <= n
      /\ machine.ram[1].physicaddr = p * PAGE_SIZE
      /\ machine.ram[1].space_size = n * PAGE_SIZE
      /\ machine.start = (p + k) * PAGE_SIZE
      /\ machine.end = (p + k + l) * PAGE_SIZE
  BY DEF Laid
<1>2. PAGE_SIZE \in Nat \ {0}
  BY PageAssumption
<1> DEFINE at(i) == i * PAGE_SIZE
<1>3. \A i \in Nat : at(i) \in Nat /\ at(i + 1) = at(i) + PAGE_SIZE /\ i <= at(i)
  BY <1>2, PageOrder
<1>4. \A i, j \in Nat : i <= j => at(i) <= at(j)
  BY PageOrder
<1>5. \A i, j \in Nat : i < j => at(i) + PAGE_SIZE <= at(j)
  <2> SUFFICES ASSUME NEW i \in Nat, NEW j \in Nat, i < j PROVE at(i) + PAGE_SIZE <= at(j)
    OBVIOUS
  <2>1. i + 1 \in Nat /\ i + 1 <= j
    OBVIOUS
  <2>2. at(i + 1) <= at(j)
    BY <1>4, <2>1
  <2> QED BY <1>3, <2>2
<1>6. at(p + n) = p * PAGE_SIZE + n * PAGE_SIZE
  BY <1>1, PageOrder
<1>7. p * PAGE_SIZE = at(p) /\ machine.start = at(p + k) /\ machine.end = at(p + k + l)
  BY <1>1
<1>8. /\ machine.ram[1].physicaddr = at(p)
      /\ machine.ram[1].physicaddr + machine.ram[1].space_size = at(p + n)
  BY <1>1, <1>6
<1> HIDE DEF at
<1>9. /\ p + s \in Nat /\ p + k \in Nat /\ p + k + l \in Nat /\ p + n \in Nat
      /\ p <= p + s /\ p + s < p + n
  BY <1>1
<1>10. ASSUME k <= s, s < k + l PROVE at(p + s) \in KernelExtent
  <2>1. p + k <= p + s /\ p + s < p + k + l
    BY <1>1, <1>10
  <2>2. at(p + k) <= at(p + s) /\ at(p + s) + PAGE_SIZE <= at(p + k + l)
    BY <1>4, <1>5, <1>9, <2>1
  <2> QED BY <1>2, <1>3, <1>7, <1>9, <2>2 DEF KernelExtent
<1>11. ASSUME s < k \/ k + l <= s PROVE PageExtent(at(p + s)) \cap KernelExtent = {}
  <2>1. CASE s < k
    <3>1. at(p + s) + PAGE_SIZE <= at(p + k)
      BY <1>1, <1>5, <1>9, <2>1
    <3> QED BY <1>2, <1>3, <1>7, <1>9, <3>1 DEF KernelExtent, PageExtent, Extent
  <2>2. CASE k + l <= s
    <3>1. at(p + k + l) <= at(p + s)
      BY <1>1, <1>4, <1>9, <2>2
    <3> QED BY <1>2, <1>3, <1>7, <1>9, <3>1 DEF KernelExtent, PageExtent, Extent
  <2> QED BY <1>11, <2>1, <2>2
<1>12. ASSUME NEW e \in 0 .. n - 1, e # s
       PROVE  PageExtent(at(p + s)) \cap PageExtent(at(p + e)) = {}
  <2>1. p + e \in Nat /\ (p + s < p + e \/ p + e < p + s)
    BY <1>1, <1>12
  <2>2. at(p + s) + PAGE_SIZE <= at(p + e) \/ at(p + e) + PAGE_SIZE <= at(p + s)
    BY <1>5, <1>9, <2>1
  <2>3. at(p + s) \in Nat /\ at(p + e) \in Nat
    BY <1>3, <1>9, <2>1
  <2> QED BY <1>2, <2>2, <2>3 DEF PageExtent, Extent
<1>13. PageExtent(at(p + s)) \subseteq RegionExtent(machine.ram[1])
       /\ at(p + s) \in PageExtent(at(p + s)) /\ at(p + s) \in Nat \ {0}
  <2>1. at(p) <= at(p + s) /\ at(p + s) + PAGE_SIZE <= at(p + n) /\ p + s <= at(p + s)
        /\ at(p) \in Nat /\ at(p + s) \in Nat /\ at(p + n) \in Nat
    BY <1>1, <1>3, <1>4, <1>5, <1>9
  <2>2. PageExtent(at(p + s)) \subseteq RegionExtent(machine.ram[1])
    <3>1. RegionExtent(machine.ram[1]) = at(p) .. at(p + n) - 1
      <4> DEFINE first == machine.ram[1].physicaddr
                 size == machine.ram[1].space_size
      <4>1. first = at(p) /\ first + size = at(p + n) /\ first \in Nat /\ size \in Nat
        BY <1>1, <1>8, <2>1, PageOrder
      <4>2. RegionExtent(machine.ram[1]) = first .. first + size - 1
        BY DEF RegionExtent, Extent
      <4> HIDE DEF first, size
      <4> QED BY <4>1, <4>2
    <3> QED BY <1>2, <2>1, <3>1 DEF PageExtent, Extent
  <2>3. at(p + s) \in PageExtent(at(p + s))
    BY <1>2, <2>1 DEF PageExtent, Extent
  <2> QED BY <1>1, <2>1, <2>2, <2>3
<1> QED BY <1>10, <1>11, <1>12, <1>13, Zenon DEF at

(* What a plain machine with words for its bitmap looks like: the words lie *)
(* at the start of page e, which is not the kernel's, and the bits of that *)
(* page and of the kernel are the ones set at initialisation.              *)
Settled(p, n, k, l, e) ==
  /\ Laid(p, n, k, l)
  /\ n \in Nat /\ e \in 0 .. n - 1 /\ (e < k \/ k + l <= e)
  /\ slots_ptr = (p + e) * PAGE_SIZE
  /\ slots_ptr \in BitmapExtent /\ BitmapExtent \subseteq PageExtent(slots_ptr)
  /\ 0 .. n - 1 \subseteq Slots(physical_bitmap_)
  /\ \A s \in 0 .. n - 1 : s \in Used(Prepared) <=> (k <= s /\ s < k + l) \/ s = e

LEMMA PlainSettled ==
  ASSUME IInv, PlainMachine, slots_ptr # NULL
  PROVE  DOMAIN machine.ram = {1} /\ \E p, n, k, l, e : Settled(p, n, k, l, e)
<1>1. machine \in Machines /\ slots_ptr = slots_for_bitmap /\ physical_bitmap_.slots_size = BitmapSize
  BY DEF IInv, Placed
<1>2. total_memory_regions # 0
  <2> SUFFICES ASSUME total_memory_regions = 0 PROVE slots_for_bitmap = NULL
    BY <1>1
  <2>1. {i \in 1 .. total_memory_regions : BitmapPlacesIn(i) # {}} = {}
    OBVIOUS
  <2> QED BY <2>1 DEF slots_for_bitmap
<1>3. PICK p, n, k, l : Laid(p, n, k, l)
  BY <1>1, <1>2, PlainIsLaid
<1>4. n \in Nat \ {0} /\ total_memory_regions = 1
  BY <1>3 DEF Laid
<1>5. DOMAIN machine.ram = {1}
  BY <1>1, <1>4, RegionsFinite
<1>6. PICK e \in 0 .. n - 1 : slots_for_bitmap = (p + e) * PAGE_SIZE /\ (e < k \/ k + l <= e)
  BY <1>1, <1>3, PlainPlace
<1>7. \A s \in 0 .. n - 1 : s \in Used(Prepared) <=> (k <= s /\ s < k + l) \/ s = e
  BY <1>1, <1>3, <1>6, PlainPrepared
<1>8. n <= WORD_SIZE * BitmapSize /\ BitmapSize * WORD_BYTES \in 1 .. PAGE_SIZE /\ BitmapSize \in Nat
  BY <1>1, <1>3, PlainSize
<1>9. 0 .. n - 1 \subseteq Slots(physical_bitmap_)
  BY <1>1, <1>4, <1>8, WordSizeAssumption DEF Slots, Capacity
<1>10. slots_ptr \in BitmapExtent /\ BitmapExtent \subseteq PageExtent(slots_ptr)
  <2> DEFINE bytes == BitmapSize * WORD_BYTES
  <2>1. BitmapExtent = Extent(slots_ptr, bytes)
    BY <1>1 DEF BitmapExtent
  <2>2. bytes \in 1 .. PAGE_SIZE /\ slots_ptr \in Nat
    BY <1>1, <1>8, PlaceType, UintAssumption DEF Addresses
  <2> HIDE DEF bytes
  <2> QED BY <2>1, <2>2, PageAssumption DEF PageExtent, Extent
<1>11. Settled(p, n, k, l, e)
  BY <1>1, <1>3, <1>4, <1>6, <1>7, <1>9, <1>10 DEF Settled
<1> QED BY <1>5, <1>11

-----------------------------------------------------------------------------
(* On a plain machine init_phys_allocator puts the words of the bitmap in   *)
(* RAM and outside the kernel image, whatever the sizes of RAM and kernel. *)
THEOREM BitmapPlacedInFreeRam == Spec => []BitmapInFreeRam
<1>1. ASSUME IInv PROVE BitmapInFreeRam
  <2> SUFFICES ASSUME PlainMachine, slots_ptr # NULL
               PROVE  BitmapExtent \subseteq RamExtent /\ BitmapExtent \cap KernelExtent = {}
    BY DEF BitmapInFreeRam
  <2>1. DOMAIN machine.ram = {1} /\ \E p, n, k, l, e : Settled(p, n, k, l, e)
    BY <1>1, PlainSettled
  <2>2. PICK p, n, k, l, e : Settled(p, n, k, l, e)
    BY <2>1
  <2>3. /\ Laid(p, n, k, l) /\ e \in 0 .. n - 1 /\ (e < k \/ k + l <= e)
        /\ slots_ptr = (p + e) * PAGE_SIZE /\ BitmapExtent \subseteq PageExtent(slots_ptr)
    BY <2>2 DEF Settled
  <2>4. PageExtent(slots_ptr) \cap KernelExtent = {}
        /\ PageExtent(slots_ptr) \subseteq RegionExtent(machine.ram[1])
    BY <2>3, PlainPages
  <2>5. RegionExtent(machine.ram[1]) \subseteq RamExtent
    BY <2>1 DEF RamExtent
  <2> QED BY <2>3, <2>4, <2>5
<1> QED BY <1>1, Inductive, PTL

(* On a plain machine pmm_allocate_page hands out neither a page of the     *)
(* kernel image nor the page of the allocator's own bitmap.                *)
THEOREM KernelAndBitmapKept == Spec => []KernelAndBitmapStay
<1>1. ASSUME IInv PROVE KernelAndBitmapStay
  <2> SUFFICES ASSUME PlainMachine, NEW a \in handed
               PROVE  PageExtent(a) \cap (KernelExtent \cup BitmapExtent) = {}
    BY DEF KernelAndBitmapStay
  <2>1. state = "ready"
    BY <1>1, HandedPage
  <2>2. machine \in Machines /\ slots_ptr # NULL
    BY <1>1, <2>1 DEF IInv, Placed
  <2>3. PICK s \in Nat : s \notin Used(Prepared) /\ a = find_physical_addr_of_page(s)
                         /\ RegionsReaching(s) # {}
    BY <1>1, HandedPage
  <2>4. PICK p, n, k, l, e : Settled(p, n, k, l, e)
    BY <1>1, <2>2, PlainSettled
  <2>5. /\ Laid(p, n, k, l) /\ n \in Nat /\ k \in Nat /\ l \in Nat /\ e \in 0 .. n - 1
        /\ slots_ptr = (p + e) * PAGE_SIZE /\ BitmapExtent \subseteq PageExtent(slots_ptr)
        /\ \A t \in 0 .. n - 1 : t \in Used(Prepared) <=> (k <= t /\ t < k + l) \/ t = e
    BY <2>4 DEF Settled, Laid
  <2>6. s < n /\ a = (p + s) * PAGE_SIZE
    BY <2>2, <2>3, <2>5, PlainFound
  <2>7. s \in 0 .. n - 1 /\ (s < k \/ k + l <= s) /\ s # e
    BY <2>3, <2>5, <2>6
  <2>8. PageExtent(a) \cap KernelExtent = {} /\ PageExtent(a) \cap PageExtent(slots_ptr) = {}
    BY <2>5, <2>6, <2>7, PlainPages
  <2> QED BY <2>5, <2>8
<1> QED BY <1>1, Inductive, PTL

(* On a plain machine pmm_allocate_page returns NULL only when no page of   *)
(* RAM is left: the bitmap has a bit for each, and first fit reaches the   *)
(* bits beyond the last page only when all pages are taken.                *)
THEOREM NullOnlyWhenExhausted == Spec => NullMeansExhausted
<1> DEFINE Exhausted == \A a \in RamExtent : (a % PAGE_SIZE) = 0 =>
             a \in handed \/ PageExtent(a) \cap (KernelExtent \cup BitmapExtent) # {}
<1>1. ASSUME IInv, pmm_allocate_page, PlainMachine, state = "ready", ret' = NULL
      PROVE  Exhausted
  <2> SUFFICES ASSUME NEW a \in RamExtent, (a % PAGE_SIZE) = 0
               PROVE  a \in handed \/ PageExtent(a) \cap (KernelExtent \cup BitmapExtent) # {}
    OBVIOUS
  <2>1. machine \in Machines /\ slots_ptr # NULL /\ handed = PagesSince
    BY <1>1 DEF IInv, Placed, Tracked
  <2>2. DOMAIN machine.ram = {1} /\ \E p, n, k, l, e : Settled(p, n, k, l, e)
    BY <1>1, <2>1, PlainSettled
  <2>3. PICK p, n, k, l, e : Settled(p, n, k, l, e)
    BY <2>2
  <2>4. /\ Laid(p, n, k, l) /\ n \in Nat /\ k \in Nat /\ l \in Nat /\ p \in Nat /\ e \in 0 .. n - 1
        /\ slots_ptr = (p + e) * PAGE_SIZE /\ slots_ptr \in BitmapExtent
        /\ 0 .. n - 1 \subseteq Slots(physical_bitmap_)
        /\ \A t \in 0 .. n - 1 : t \in Used(Prepared) <=> (k <= t /\ t < k + l) \/ t = e
        /\ machine.ram[1].physicaddr = p * PAGE_SIZE /\ machine.ram[1].space_size = n * PAGE_SIZE
    BY <2>3 DEF Settled, Laid
  <2>5. PICK s \in 0 .. n - 1 : a = (p + s) * PAGE_SIZE
    <3>1. a \in RegionExtent(machine.ram[1])
      BY <2>2 DEF RamExtent
    <3>2. p * PAGE_SIZE \in Nat /\ n * PAGE_SIZE \in Nat
          /\ (p + n) * PAGE_SIZE = p * PAGE_SIZE + n * PAGE_SIZE
      BY <2>4, PageOrder
    <3>3. a \in Nat /\ p * PAGE_SIZE <= a /\ a < (p + n) * PAGE_SIZE
      BY <2>4, <3>1, <3>2 DEF RegionExtent, Extent
    <3>4. a \in PageAligned
      <4>1. (p + n) * PAGE_SIZE < UINT_RANGE /\ (p + n) * PAGE_SIZE \in Nat
        BY <2>4, <3>2 DEF Laid
      <4> HIDE DEF Exhausted
      <4>2. a \in 0 .. UINT_RANGE
        BY <3>3, <4>1, UintAssumption
      <4> QED BY <4>2 DEF PageAligned
    <3>5. PICK j \in Nat : a = j * PAGE_SIZE
      BY <3>4, AlignedPages
    <3>6. p <= j /\ j < p + n
      BY <2>4, <3>3, <3>5, PageOrder
    <3>7. j - p \in 0 .. n - 1 /\ p + (j - p) = j
      BY <2>4, <3>6
    <3> QED BY <3>5, <3>7
  <2>6. a # NULL /\ a = find_physical_addr_of_page(s) /\ a \in PageExtent(a)
    <3>1. s \in Nat /\ s < n
      BY <2>4
    <3>2. a \in Nat \ {0} /\ a \in PageExtent(a)
      BY <2>4, <2>5, PlainPages
    <3> QED BY <2>1, <2>4, <2>5, <3>1, <3>2, PlainFound DEF NULL
  <2>7. s \in Used(physical_bitmap_)
    <3>1. CASE Used(physical_bitmap_) = Slots(physical_bitmap_)
      BY <2>4, <3>1
    <3>2. CASE \E t \in Nat : ret' = find_physical_addr_of_page(t)
                              /\ 0 .. t - 1 \subseteq Used(physical_bitmap_)
      <4>1. PICK t \in Nat : find_physical_addr_of_page(t) = NULL
                             /\ 0 .. t - 1 \subseteq Used(physical_bitmap_)
        BY <1>1, <3>2
      <4>2. ASSUME t < n PROVE FALSE
        <5>1. t \in 0 .. n - 1 /\ find_physical_addr_of_page(t) = (p + t) * PAGE_SIZE
          BY <2>1, <2>4, <4>2, PlainFound
        <5>2. (p + t) * PAGE_SIZE \in Nat \ {0}
          BY <2>4, <5>1, PlainPages
        <5> QED BY <4>1, <5>1, <5>2 DEF NULL
      <4>3. s \in 0 .. t - 1
        BY <2>4, <4>2
      <4> QED BY <4>1, <4>3
    <3> QED BY <1>1, <3>1, <3>2, AllocateStep
  <2>8. CASE s \in Used(Prepared)
    <3>1. CASE k <= s /\ s < k + l
      <4>1. a \in KernelExtent
        BY <2>4, <2>5, <3>1, PlainPages
      <4> QED BY <2>6, <4>1
    <3>2. CASE s = e
      BY <2>4, <2>5, <2>6, <3>2
    <3> QED BY <2>4, <2>8, <3>1, <3>2
  <2>9. CASE s \notin Used(Prepared)
    BY <2>1, <2>6, <2>7, <2>9 DEF PagesSince
  <2> QED BY <2>8, <2>9
<1>2. ASSUME IInv, [Next]_vars
      PROVE  [pmm_allocate_page /\ PlainMachine /\ state = "ready" /\ ret' = NULL => Exhausted]_vars
  BY <1>1, <1>2
<1> QED BY <1>2, Inductive, PTL DEF Spec, NullMeansExhausted
=============================================================================

------------------------------ MODULE PhysAlloc ------------------------------
(***************************************************************************)
(* The physical page allocator, src/src/mem/phys_alloc.c, on top of the    *)
(* RAM regions that src/src/mem/memory.c has recorded and of the bitmap of *)
(* BitmapOps.  Addresses are bytes and wrap at UINT_RANGE, as uintptr_t    *)
(* and size_t do on rv32.                                                  *)
(***************************************************************************)
EXTENDS BitmapOps, Sequences

CONSTANTS
  PAGE_SIZE,    \* bytes in a page
  WORD_BYTES,   \* sizeof(word_t)
  Machines      \* the machines to boot on: RAM regions and place of the kernel image

NULL == 0

Addresses == 0 .. UINT_RANGE - 1
PageAligned == {a \in 0 .. UINT_RANGE : a % PAGE_SIZE = 0}

(* Bytes [first, last) of memory. *)
Extent(first, size) == first .. first + size - 1

RegionExtent(r) == Extent(r.physicaddr, r.space_size)

(* RAM regions are page-aligned, do not overlap and end at the top of the   *)
(* address space at the latest; the kernel image (linker.ld aligns both    *)
(* its ends) was loaded into one of them.                                  *)
IsMachine(m) ==
  /\ m.ram \in Seq([physicaddr : Nat, space_size : Nat])
  /\ \A i \in DOMAIN m.ram :
       /\ m.ram[i].physicaddr \in PageAligned /\ m.ram[i].space_size \in PageAligned \ {0}
       /\ m.ram[i].physicaddr + m.ram[i].space_size <= UINT_RANGE
       /\ \A j \in DOMAIN m.ram \ {i} :
            RegionExtent(m.ram[i]) \cap RegionExtent(m.ram[j]) = {}
  /\ {m.start, m.end} \subseteq PageAligned /\ m.start < m.end
  /\ m.ram # <<>> => \E i \in DOMAIN m.ram : m.start .. m.end - 1 \subseteq RegionExtent(m.ram[i])

ASSUME PageAssumption == PAGE_SIZE \in Nat \ {0} /\ UINT_RANGE % PAGE_SIZE = 0
ASSUME WordBytesAssumption == WORD_BYTES \in Nat \ {0}
ASSUME MachinesAssumption == \A m \in Machines : IsMachine(m)

VARIABLES
  machine,            \* ram_regions[0 .. ram_regions_index-1], _kernel_physical_start/_end
  debug,              \* build type: TRUE without NDEBUG, fixed for a run
  state,              \* "boot", "ready", "panic: ...", "halt: ..."
  physical_bitmap_,   \* struct bitmap
  slots_ptr,          \* address of the words of physical_bitmap_
  ret,                \* what the last pmm_allocate_page returned
  handed              \* history: pages handed out so far

vars == <<machine, debug, state, physical_bitmap_, slots_ptr, ret, handed>>

Init ==
  /\ machine \in Machines
  /\ debug \in BOOLEAN
  /\ state = "boot"
  /\ physical_bitmap_ = ZeroBitmap
  /\ slots_ptr = NULL
  /\ ret = NULL
  /\ handed = {}

-----------------------------------------------------------------------------
total_memory_regions == Len(machine.ram)
pmm_get_region(i) == machine.ram[i]

get_total_mem ==
  FoldFunction(+, 0, [i \in DOMAIN machine.ram |-> machine.ram[i].space_size]) % UINT_RANGE

get_kernel_size == machine.end - machine.start

(* Mutant of udiv_and_ceil: rounds down. *)
udiv_and_floor(a, b) == a \div b

(* Ceiling of a division of unsigned numbers. *)
udiv_and_ceil(a, b) == (a \div b) + IF a % b # 0 THEN 1 ELSE 0

(* A 32-bit pattern read as the signed type `long`. *)
AsLong(u) == IF u >= UINT_RANGE \div 2 THEN u - UINT_RANGE ELSE u

PagesIn(i) == pmm_get_region(i).space_size \div PAGE_SIZE

(* The regions the loop of physic_addr_to_ppn stops at; the end of a region *)
(* wraps, and is itself accepted.                                          *)
RegionsHolding(page) ==
  {i \in 1 .. total_memory_regions :
     LET r == pmm_get_region(i)
     IN  page >= r.physicaddr /\ page <= (r.physicaddr + r.space_size) % UINT_RANGE}

(* Page number in the bitmap of a page-aligned address, -1 if it is not RAM. *)
physic_addr_to_ppn(page) ==
  IF RegionsHolding(page) = {}
  THEN -1
  ELSE LET i == Min(RegionsHolding(page))
       IN  FoldFunction(+, 0, [j \in 1 .. i - 1 |-> PagesIn(j)])
             + ((page - pmm_get_region(i).physicaddr) \div PAGE_SIZE)

(* Mutant of RegionsReaching: accepts the number one past the region. *)
RegionsReachingTooFar(ppn) == {i \in 1 .. total_memory_regions : ppn <= PagesIn(i)}

(* The regions the loop of find_physical_addr_of_page stops at.  The page  *)
(* number is not reduced by the pages of the regions passed over.          *)
RegionsReaching(ppn) == {i \in 1 .. total_memory_regions : ppn < PagesIn(i)}

(* Mutant of find_physical_addr_of_page: the page number is not shifted. *)
UnshiftedAddress(ppn) ==
  IF RegionsReaching(ppn) = {}
  THEN NULL
  ELSE pmm_get_region(Min(RegionsReaching(ppn))).physicaddr + ppn

find_physical_addr_of_page(ppn) ==
  IF RegionsReaching(ppn) = {}
  THEN NULL
  ELSE (pmm_get_region(Min(RegionsReaching(ppn))).physicaddr + ppn * PAGE_SIZE) % UINT_RANGE

-----------------------------------------------------------------------------
BitmapSize == udiv_and_ceil(get_total_mem \div PAGE_SIZE, WORD_SIZE)
BitmapBytes == (BitmapSize * WORD_BYTES) % UINT_RANGE

(* Mutant of ShortOfRam: the last page does not count. *)
ShortByOne == AsLong((get_total_mem - get_kernel_size) % UINT_RANGE) <= PAGE_SIZE

(* Too little RAM besides the kernel, computed as a signed number. *)
ShortOfRam == AsLong((get_total_mem - get_kernel_size) % UINT_RANGE) < PAGE_SIZE

(* Mutant of BitmapPlacesIn: the kernel is no boundary. *)
PlacesOverKernel(i) ==
  LET r == pmm_get_region(i)
  IN  IF r.space_size >= BitmapBytes THEN {r.physicaddr} ELSE {}

(* One iteration of the search for the bitmap's words: the start of the    *)
(* region if there is room before the kernel or the region's end, else the *)
(* end of the kernel if there is room behind it, else nothing.             *)
BitmapPlacesIn(i) ==
  LET r == pmm_get_region(i)
      region_end == (r.physicaddr + r.space_size) % UINT_RANGE
      next_boundary == IF machine.start >= r.physicaddr /\ machine.start < region_end
                       THEN machine.start
                       ELSE region_end
  IN  IF (next_boundary - r.physicaddr) % UINT_RANGE >= BitmapBytes
      THEN {r.physicaddr}
      ELSE IF machine.end < region_end /\ region_end - machine.end >= BitmapBytes
           THEN {machine.end}
           ELSE {}

(* slots_for_bitmap after the search; address 0 reads as not found. *)
slots_for_bitmap ==
  LET found == {i \in 1 .. total_memory_regions : BitmapPlacesIn(i) # {}}
  IN  IF found = {} THEN NULL ELSE CHOOSE a \in BitmapPlacesIn(Min(found)) : TRUE

(* Mutant of AfterBorrow: an incomplete last page is not borrowed. *)
BorrowWholePages(b, page_phys_addr, total_bytes) ==
  AfterMark(b, physic_addr_to_ppn(page_phys_addr) % UINT_RANGE, total_bytes \div PAGE_SIZE)

(* pmm_borrow_pages past its assertion. *)
AfterBorrow(b, page_phys_addr, total_bytes) ==
  AfterMark(b, physic_addr_to_ppn(page_phys_addr) % UINT_RANGE,
            udiv_and_ceil(total_bytes, PAGE_SIZE))

(* The second borrow is given the bitmap's size in words. *)
BitmapBorrowSize == BitmapSize

Stop(how) == state' = how /\ UNCHANGED <<machine, debug, ret, handed>>

init_phys_allocator ==
  /\ state = "boot"
  /\ \/ /\ debug /\ total_memory_regions = 0
        /\ Stop("halt: total_memory_regions() > 0")
        /\ UNCHANGED <<physical_bitmap_, slots_ptr>>
     \/ /\ debug => total_memory_regions > 0
        /\ ShortOfRam
        /\ Stop("panic: not enough RAM")
        /\ UNCHANGED <<physical_bitmap_, slots_ptr>>
     \/ /\ (debug => total_memory_regions > 0) /\ ~ShortOfRam
        /\ slots_for_bitmap = NULL
        /\ Stop("panic: no continuous space for bitmap")
        /\ UNCHANGED <<physical_bitmap_, slots_ptr>>
     \/ /\ (debug => total_memory_regions > 0) /\ ~ShortOfRam
        /\ slots_for_bitmap # NULL
        /\ slots_ptr' = slots_for_bitmap
        /\ LET cleared == InitializedBitmap(BitmapSize)
               kernel_borrowed == AfterBorrow(cleared, machine.start, get_kernel_size)
           IN  IF debug /\ physic_addr_to_ppn(machine.start) = -1
               THEN physical_bitmap_' = cleared /\ Stop("halt: ppn != -1")
               ELSE IF debug /\ physic_addr_to_ppn(slots_for_bitmap) = -1
               THEN physical_bitmap_' = kernel_borrowed /\ Stop("halt: ppn != -1")
               ELSE /\ physical_bitmap_' =
                         AfterBorrow(kernel_borrowed, slots_for_bitmap, BitmapBorrowSize)
                    /\ Stop("ready")

(* Before init_phys_allocator the bitmap has no words: NULL. *)
pmm_allocate_page ==
  /\ state \in {"boot", "ready"}
  /\ LET slot == AllocatedSlot(physical_bitmap_)
     IN  ret' = IF slot = -1 THEN NULL ELSE find_physical_addr_of_page(slot)
  /\ physical_bitmap_' = AfterAllocate(physical_bitmap_)
  /\ handed' = handed \cup ({ret'} \ {NULL})
  /\ UNCHANGED <<machine, debug, state, slots_ptr>>

Next == init_phys_allocator \/ pmm_allocate_page

Spec == Init /\ [][Next]_vars

-----------------------------------------------------------------------------
RamExtent == UNION {RegionExtent(machine.ram[i]) : i \in DOMAIN machine.ram}
KernelExtent == machine.start .. machine.end - 1
BitmapExtent == Extent(slots_ptr, physical_bitmap_.slots_size * WORD_BYTES)
PageExtent(a) == Extent(a, PAGE_SIZE)

TypeOK ==
  /\ state \in {"boot", "ready", "panic: not enough RAM",
                "panic: no continuous space for bitmap",
                "halt: total_memory_regions() > 0", "halt: ppn != -1"}
  /\ slots_ptr \in Addresses
  /\ physical_bitmap_.free_slots_count \in 0 .. UINT_RANGE - 1
  /\ physical_bitmap_.words \in [0 .. physical_bitmap_.slots_size - 1 -> SUBSET Bits]
  /\ ret \in Addresses
  /\ handed \subseteq PageAligned

(* No page is handed out twice, on any machine: distinct page numbers mean  *)
(* distinct pages although find_physical_addr_of_page does not count the   *)
(* pages of the regions it passes over.                                    *)
NeverTwice == [][pmm_allocate_page /\ ret' # NULL => ret' \notin handed]_vars

(* Every page handed out is RAM from its first byte to its last, on any    *)
(* machine: neither the padding bits of the last word nor the holes        *)
(* between regions become pages.                                           *)
HandedOutIsRam == \A a \in handed : PageExtent(a) \subseteq RamExtent

(* At most one region of RAM, clear of both ends of the address space, that *)
(* a page of bitmap covers: the machines the allocator is written for.     *)
PlainMachine ==
  /\ Len(machine.ram) <= 1
  /\ \A i \in DOMAIN machine.ram :
       /\ machine.ram[i].physicaddr > 0
       /\ machine.ram[i].physicaddr + machine.ram[i].space_size < UINT_RANGE
       /\ machine.ram[i].space_size \div PAGE_SIZE <= (PAGE_SIZE \div WORD_BYTES) * WORD_SIZE

(* Neither the kernel image nor the allocator's own bitmap is ever handed   *)
(* out, on a plain machine.                                                *)
KernelAndBitmapStay ==
  PlainMachine =>
    \A a \in handed : PageExtent(a) \cap (KernelExtent \cup BitmapExtent) = {}

(* On a plain machine the words of the bitmap lie in RAM and outside the    *)
(* kernel image, so that clearing them destroys nothing.                   *)
BitmapInFreeRam ==
  PlainMachine /\ slots_ptr # NULL => /\ BitmapExtent \subseteq RamExtent
                      /\ BitmapExtent \cap KernelExtent = {}

(* Once the allocator of a plain machine is initialised pmm_allocate_page   *)
(* returns NULL only when every page of RAM is the kernel's, the bitmap's  *)
(* or handed out.                                                          *)
NullMeansExhausted ==
  [][pmm_allocate_page /\ PlainMachine /\ state = "ready" /\ ret' = NULL
     => \A a \in RamExtent : (a % PAGE_SIZE) = 0 =>
          a \in handed \/ PageExtent(a) \cap (KernelExtent \cup BitmapExtent) # {}]_vars

(* Every page of RAM besides the kernel counts: "not enough RAM available"  *)
(* is said only when not even one is left, if less than half of the        *)
(* address space is free RAM (the amount is compared as a signed number).  *)
PanicOnlyWhenShort ==
  state = "panic: not enough RAM" =>
    LET free == Cardinality(RamExtent) - get_kernel_size
    IN  free < PAGE_SIZE \/ free >= UINT_RANGE \div 2

(* The comment on pmm_borrow_pages: it marks the pages that the region      *)
(* covers.  The pages of the bitmap are therefore used.                    *)
BitmapPagesBorrowed ==
  state = "ready" =>
    \A a \in BitmapExtent : bitmap_is_used(physical_bitmap_, physic_addr_to_ppn(a - (a % PAGE_SIZE)))
=============================================================================

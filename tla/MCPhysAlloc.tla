----------------------------- MODULE MCPhysAlloc -----------------------------
(***************************************************************************)
(* Machines to boot the page allocator on: an address space of 64 bytes,   *)
(* pages of 4 bytes, words of 2 bytes that hold 4 bits, so that one page   *)
(* of bitmap covers 8 pages (32768 on rv32).                               *)
(***************************************************************************)
EXTENDS PhysAlloc

Region(first, pages) == [physicaddr |-> first * PAGE_SIZE, space_size |-> pages * PAGE_SIZE]

Machine(ram, start, pages) ==
  [ram |-> ram, start |-> start * PAGE_SIZE, end |-> (start + pages) * PAGE_SIZE]

\* Bounds, in pages.
TOP == 16
MAX_REGION == 8
MAX_KERNEL == 3

NoRam == {Machine(<<>>, 8, 1)}

(* One region that a page of bitmap covers, clear of both ends of the      *)
(* address space, the kernel anywhere in it.                               *)
OneRegion ==
  {Machine(<<Region(f, n)>>, f + k, l) :
     <<f, n, k, l>> \in {t \in (1 .. TOP - 2) \X (1 .. MAX_REGION) \X (0 .. MAX_REGION - 1)
                               \X (1 .. MAX_KERNEL) :
                         t[1] + t[2] < TOP /\ t[3] + t[4] <= t[2]}}

(* Two regions in either order, up to the last page and down to address 0. *)
TwoRegions ==
  {Machine(<<Region(t[1], t[2]), Region(t[3], t[4])>>, t[5], t[6]) :
     t \in {u \in (0 .. 6) \X (1 .. 4) \X (0 .. TOP - 1) \X (1 .. 4) \X (0 .. TOP - 1) \X (1 .. 2) :
              /\ u[3] + u[4] <= TOP
              /\ u[1] + u[2] <= u[3] \/ u[3] + u[4] <= u[1]
              /\ \/ u[1] <= u[5] /\ u[5] + u[6] <= u[1] + u[2]
                 \/ u[3] <= u[5] /\ u[5] + u[6] <= u[3] + u[4]}}

GoodMachines == OneRegion \cup NoRam
AllMachines == GoodMachines \cup TwoRegions

\* RAM that needs more than a page of bitmap.
LargeMachines == {Machine(<<Region(2, 10)>>, 2, k) : k \in 3 .. 4}
=============================================================================

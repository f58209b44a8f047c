# A formal model of my-riscv-os

The repository holds a small bare-metal RV32 kernel (`src/src`), a vendored
copy of libfdt (`src/libfdt`) and a vendored printf. The kernel is entered in
machine mode on a hart, verifies the device tree, finds the CLINT and the RAM,
sets up a bitmap-based page allocator, and switches to supervisor mode, where it
executes one illegal instruction. There is no scheduler, no paging and no user
mode yet (`src/ROADMAP.md`).

## Inventory

| Component | State | Operations | What is hard about it | What makes it correct |
|---|---|---|---|---|
| bitmap (`klibc/bitmap.c`) | words, `free_slots_count` | init, allocate, free, mark as used | long mixed call sequences, double frees, full words, word boundaries | a slot has one owner, the counter is right, first fit |
| page allocator (`mem/phys_alloc.c`) | the page bitmap, its place in RAM | `init_phys_allocator`, `pmm_allocate_page` | several regions, address wrap at 2^32, rounding, exhaustion | never hands out the kernel, itself, a page twice or no RAM |
| RAM detection (`mem/memory.c`) | `ram_regions`, index | `detect_memory` | nodes that parse only in part, more nodes than slots | regions are those of the tree |
| device tree reading (`init_devices.c`) | none | `parse_reg`, `fetch_lowest_` | byte order, numbers of cells, libfdt errors | the value in the tree is the value read |
| timer (`riscv/timer.c`) | `mtimecmp` | `timer_sleep` | 64-bit registers accessed by halves while the clock runs | the deadline is right whenever the clock carries |
| boot (`boot/kmain.c`, CLINT, power, extensions) | globals of the drivers | the calls of `kmain` | each step may stop the hart; an ignored result | supervisor code runs only after all of it |
| traps (`riscv/interrupts`, `switch_to_supervisor.c`) | CSRs | handler setup, delegation, privilege switch | enabling before a vector is installed, delegation masks | a trap reaches a handler |
| string functions (`boot/crt0.c`) | none | C string and memory functions | loops and boundaries | agree with the C standard |
| libfdt readers (`fdt_ro.c`, `fdt_check.c`) | the flattened tree | checker, searches, paths, phandles, string lists | offsets into untyped memory; every search scans the tree with its own loop | stays within the block it checked, finds what is there |
| libfdt writers (`fdt_sw.c`, `fdt_rw.c`, `fdt_wip.c`) | header, three blocks in one buffer | build, edit, move, pack | each insertion moves what is behind it; two blocks grow towards each other; buffers overlap; errors after half of a call | the bytes stand for the tree the calls describe; a failed call changes nothing |
| libfdt overlays (`fdt_overlay.c`) | two trees | `fdt_overlay_apply` | seven phases on two trees without a way back; phandles renumbered twice; nodes that move while their paths are used | all of the overlay with the right references, or no tree |
| printf (`klibc/printf.c`) | none | the printf family | combined flags, widths and precisions, buffers at their limits | prints what the standard says, stays in its buffer, ends |
| UART, context switch, page-table layouts | - | - | no logic, no caller, or data layouts only | - |

How they interact: `kmain` calls the others once, in a fixed order, on one hart.
`detect_memory` fills `ram_regions`, which the page allocator reads through
`total_memory_regions`, `pmm_get_region` and `get_total_mem`; the page allocator
owns one bitmap. `init_interrupt_controller` and `detect_memory` both read the
tree with `parse_reg`. `timer_sleep` uses the pointers that CLINT discovery set.
`KERNEL_PANIC` and failed assertions end in `halt()`.

## Modules

* **BitmapOps** - the functions of `klibc/bitmap.c` as operators on the struct.
  A word is the set of its 1 bits; `uint` arithmetic is modulo `UINT_RANGE`. The map
  is never NULL: its only user passes the address of a variable.
* **Bitmap** - those functions as actions of a state machine with clients. Both
  build types are covered: in a debug build a failed assertion halts the hart.
  `owned` is a history variable: what clients hold. A client frees a slot it
  holds or, as a double free, a slot that is clear.
* **SlotPool** - the abstract promise of `klibc/bitmap.h`: a set of slots, some
  used. `Bitmap` implements it under the mapping `pool <- Slots(bm)`,
  `used <- Used(bm)`.
* **PhysAlloc** (with **MCPhysAlloc**) - `mem/phys_alloc.c`, over the operators
  of BitmapOps. Addresses are bytes modulo `UINT_RANGE`; NULL is address 0. A
  machine is a sequence of RAM regions and a place for the kernel image;
  `IsMachine` states what the linker script and the platform guarantee.
  `init_phys_allocator` is one action with all its stops; where an assertion
  fails after the bitmap was cleared, the clearing is in the state.
* **DeviceTree** - `parse_reg` and `fetch_lowest_` as operators. A cell is the
  number it stands for; a load reverses its bytes, so the conversion is not the
  identity. libfdt is represented by its answers about a node; Fdt computes them
  from the bytes (`NodeAt`). Cells behind the
  end of a short `reg` are part of the node, because the code reads them.
* **Memory** - `detect_memory`, one step per memory node, which finds
  no slot (`NoSlotLeft`) or fills one (`FillSlot`); of the errors of `parse_reg` only the one
  that equals -1 ends the loop (`EndsLoop`). Its formulas have names of their own (`MemoryInit`, `MemoryNext`), because
  Boot extends it; TLC checks it as a part of Boot.
* **KString** - the functions of `boot/crt0.c` that libfdt calls, over memory as
  a function from addresses to bytes.
* **FdtTag** - how libfdt looks at a flattened tree, the fields of its header and its
  bytes, tag by tag: header, `fdt_next_tag`, strings, names, properties, reservations.
  A cell has two bytes, and `unsigned int` wraps at the range of a cell, so that the
  sums of offsets and lengths wrap where they do in C. Nothing in it is RECURSIVE: the
  loops over the characters of a name are the least position of their NUL.
* **FdtCheck** - `check_device_tree` with `fdt_check_header` and `fdt_check_full`, which
  takes one step per tag. `tags` is a history variable: the tags seen. `Trees` are
  arbitrary headers and bytes (`IsTree`).
* **FdtRead**, **FdtRo** - the other readers of libfdt as operators. FdtRead has what the
  kernel calls and all that this calls, FdtRo the rest: subnodes, paths, aliases,
  symbols, phandles, reservations, string lists.
  Loops over the tree are recursive operators (the modules are for TLC only). Names are
  short byte strings. `With(v, Op)`, of FdtTag, is `Op(v)`; it makes TLC evaluate `v`
  once.
* **Fdt** (with **MCFdt**) - FdtCheck, and behind it the searches of
  `discover_clint` and `detect_memory` on the same tree, the latter up to a node whose
  "reg" cannot be read (`RegError`). The reference
  definitions (parents, properties, memory nodes) are computed from `tags`. `written` is
  not part of a tree: it is what the tree was flattened from, if it was.
* **FdtWrite** - the writers of libfdt as operators from a tree and arguments to a
  result and a tree. The memory around a tree is part of it (`bytes` is defined from
  `-address` on), so that moves to buffers that overlap and writes outside of a
  buffer are seen. The header's fields are kept as numbers beside the bytes.
  `memmove` of `crt0.c` is a call of itself. It is modelled by what a memmove of the C
  standard leaves, together with the note that it was called (`moved`); FdtEdit and
  Overlay decide by it whether the caller ever goes on.
* **TreeStore** - the abstract promise of `libfdt.h`: nodes with properties and a
  list of reservations, changed by calls; a call that fails changes nothing.
* **FdtTree** - a reader of trees written without libfdt, over the bytes: the
  reference for FdtEdit and Overlay.
* **FdtEdit** (with **MCFdtEdit**) - a client that calls the writers, one action per
  function, in any order. `call` is the last call that has returned, with its arguments
  and result. `crt0` says whether the program is linked with the memmove of `crt0.c`, as
  this repository is, or with one that works; with the first a call that comes to
  `memmove` never returns and is then in `hung`. FdtEdit implements TreeStore under the mapping `nodes <- Read(fdt)`. Conditions of an
  action that are not in the code are what `libfdt.h` leaves to the client: begin and
  end are balanced, siblings have different names, properties come before subnodes,
  a tree is finished before it is edited, names end where their length says,
  reservations have a size, the root is neither deleted nor renamed.
* **FdtOverlay** - the functions of `fdt_overlay.c`; **Overlay** (with **MCOverlay**) -
  `fdt_overlay_apply`, one action per phase, and a client that calls it again. The
  inputs say what each reference was written for, so that the result is compared
  with the meaning of the overlay and not with its phandles. Overlays are as the
  compiler writes them: fixups lie within properties, symbols are of nodes that
  exist. An input also says whose memmove is linked (`crt0`); with the one of `crt0.c` a
  phase that comes to it never ends (`pc = "memmove"`). `strtoul` is external: the kernel
  has none.
* **Printf** (with **MCPrintf**) - `_vsnprintf` of `klibc/printf.c` as the kernel
  compiles it, without floating point and long long. One step per literal, field
  of a conversion, and stage of `_ntoa_format`, whose buffer is `buf`. `text` is
  all that was passed to the output function and `asked` the format behind the `%` with the
  arguments left there; both are history variables. The number of an argument is its
  bits; `Signed` and `%` cut it to its type. `idx` is a `size_t` and wraps, and what is
  returned is `idx` as an `int`. The property `AsStandardSays` compares with
  `StandardText`, which takes fields, argument and type from `asked` (`Fields`) by the C
  standard and not by the code. What a caller owes
  is in `IsCall`: the arguments that its format asks for (`Asked`, from the fields that
  the standard gives a conversion), or more.
* **Timer** - `timer_sleep` on rv32, one action per register access, with the
  clock ticking in between. `Tick`, `Deadline` and `Pending` model the CLINT.
* **Boot** (with **MCBoot**) - `kmain` with the CSRs that decide where traps go.
  One hart: the QEMU flags in `CMakeLists.txt` start one. The hart number is an
  input, so the parking branch is covered. Boot extends Memory: its stage
  `detect_memory` takes the steps of that module, on one of its trees, until
  `detect_memory` returns, whose result `kmain` ignores. `check_device_tree` appears by its
  three outcomes: the tree is accepted, the kernel panics, or the hart spins in it
  (`pc = "spinning"`, old trees only, as in FdtCheck). The allocator
  appears by what it can leave behind; CLINT discovery uses DeviceTree.
  Output on the UART is left out. `satp` is zero from `entry.S` on.
* **BitmapProofs**, **PhysAllocProofs**, **MemoryProofs**, **BootProofs**,
  **FdtCheckProofs**, **TimerProofs**, **PrintfProofs** - the theorems about the
  specification each is named after; **BitmapOpsProofs** - lemmas about the operators
  of BitmapOps. The lemmas about `parse_reg` are in MemoryProofs.

Operators introduced by a comment "Mutant of X" are wrong variants of X, kept to
show that each property notices a mistake in the code it is about. No
specification uses them.

## Runs

| Run | Expected | What it shows |
|---|---|---|
| `bitmap` | pass | All orders of calls on buffers of 0 to 3 words of 2 bits, every argument including a mark range that wraps: held slots stay used, the counter does not wrap and is never below the number of clear slots, allocation is first fit, and every step is a step of SlotPool. |
| `bitmap_free_assertion` | violation | `bitmap_free_slot` asserts `slots_size > slot`, words against slots: freeing a held slot halts a debug build. |
| `phys_alloc` | pass | One region of 1 to 8 pages clear of both ends of the address space, two regions in both orders that may touch address 0 or the top, or no RAM; the kernel of 1 to 3 pages anywhere in a region. Every page handed out is RAM and none is handed out twice. On a plain machine (one region, `PlainMachine`) kernel and bitmap are never handed out, the bitmap lies in free RAM and NULL means that RAM is used up. "Not enough RAM" is said only if it is true. |
| `phys_alloc_bitmap_pages` | violation | The bitmap's pages are borrowed by its size in words, not bytes. |
| `fdt` | pass | Whole trees of up to four nodes, the same with an item left out, replaced or added, arbitrary sequences of up to 3 items, and headers with edge values, in versions 3, 16 and 17; trees with phandles, aliases, string lists and names with unit addresses. What is accepted is a tree, a flattened tree is accepted and read as written, and in any accepted tree the searches find exactly what is there: nodes, parents, paths and back, phandles, strings. |
| `fdt_string_lists` | violation | `fdt_stringlist_count` accepts a list without a NUL at its end, because `strnlen` of `crt0.c` returns one less than its limit. |
| `fdt_edit` | pass | Trees built from nothing, in buffers that are too small at every point, and loaded trees of versions 16 and 17 with their blocks in three orders and 0, 9 or 20 spare bytes; every writer with every argument, buffers that overlap on either side. The bytes stand for the tree of TreeStore (`ImplementsTree`); a call that returns has failed exactly if it has a reason to, a failed one leaves the blocks as they were, and none writes outside its buffers. With the memmove of `crt0.c` only calls that move bytes fail to return, and none of them succeeds (`CallsJustified`). |
| `overlay` | pass | Overlays of one or two fragments that add nodes, meet nodes the tree has, have phandles in both forms, target each other's new nodes or nothing, with and without symbols; trees with phandles up to the largest, symbols first, last or missing, and 0 to 130 spare bytes; a second call after each. Some of them with the memmove of `crt0.c`: nothing is ever merged then, and an overlay that adds something and has no error before never returns. |
| `printf` | pass | Every integer conversion with ten combinations of flags, five widths, six precisions and the numbers at the ends of their types, the length modifiers, strings, characters and pointers; formats of up to three parts with every kind of output and counts 0 to 6. Integers come out as the C standard says (exceptions below), nothing is stored behind `count`, what fits is stored and terminated, the length of the whole text is returned, the UART gets the text of `printf_` in order, no conversion fetches an argument that was not passed, and every call ends. Some texts are longer than a `size_t` of the model counts. |
| `timer` | pass | Registers of 2 times 2 bits, any `mtimecmp` at reset: the interrupt is never early after the call, and it comes. |
| `timer_torn` | violation | A carry between the two reads of `mtime` makes the deadline a low-half period too late. |
| `boot` | pass | All platforms, with and without each device, with a few trees, and on a working platform trees of up to 3 memory nodes for 2 slots, with one or two cells, one or two entries, cut-off `reg`, and each libfdt error. The recorded regions are those of their nodes, `detect_memory` reports success only when it has recorded all of them, and stops early only for a reason in the tree, at the first it meets (`StopsForReason`). Every stage of `kmain` ends, in `halt()` or with supervisor code, unless the tree is an old one (`BootSettles`); supervisor code runs only when everything is set up and the recorded regions are those of the tree, however `detect_memory` ended, and no interrupt can be taken while `mtvec` is not written. |

Deadlock checking is off, except in `fdt`, because a halted, parked or finished hart does stop, and a client makes
a bounded number of calls.

**Bounds and why they are enough.** Words of 2 bits and 3 words have first, inner
and last words and bits, full and mixed words. In PhysAlloc a page of bitmap
covers 8 pages (32768 on rv32): regions of up to 8 pages have one or two words,
with and without padding bits. The machines of `phys_alloc_bitmap_pages` need
two pages of bitmap. Cells of two bytes with two values distinguish a value from
its reversal. In `fdt_edit` calls that succeed follow each other, three on a blank buffer, three or four
on a half-built tree and two on a loaded one, with any number that
fail in between: enough for a failed call to leave something behind that a later one
trips over, and for a move or a splice after another. The `VIEW` leaves out `call`, on which
no action depends. In `overlay` two fragments are enough for
one to depend on the other, and the spare bytes let each phase that needs room be the
first to fail. The trees of `fdt` include lengths at which a sum of offsets exceeds
`INT_MAX` or wraps back to the same tag, names that are suffixes and prefixes of
each other, and strings and blocks that end exactly where the tree ends. In Timer the low half rolls over three times and every call can
straddle a roll-over at every access; `MAX_CALL_TIME` bounds how long a call may
take and `MAX_TIME` is past the latest deadline a call can set, so that the
liveness property is not helped or hurt by the end of time. In Printf `long` has 8
bits and the conversion buffer 8 characters (32 and 32 in the kernel): widths and
precisions lie on both sides of it, and texts on both sides of every `count`; a `size_t`
counts to 256, and there are texts of up to 600 characters.

**Fairness.** Timer assumes that the clock ticks and that the hart executes the
accesses of a call it has begun: the CLINT clock is free-running and interrupts
are masked. Boot and Printf assume that the hart executes. Calls of `timer_sleep` are not
fair.

Overlay and FdtEdit state none: their actions are whole functions, and a call that never
returns is a state of its own (`hung`, `pc = "memmove"`).
Fdt states no fairness: that its walks end is the action property `WalksAdvance`
together with the absence of deadlock.

**Other disagreements met.** `find_physical_addr_of_page` compares the whole page
number with the pages of each region in turn; its comment says that with two regions
"PPN 11 ... will mean the page at 0x35,000". `physic_addr_to_ppn` does count the
pages of the regions before, so number and address of a page in a second region do
not match, and the properties about the kernel's and the bitmap's pages are stated
for one region.
Exceptions in Printf's `AsStandardSays` (`Excepted`): what exceeds the conversion buffer is
dropped, the sign too; a negative precision from an asterisk counts as 0; with `-` a
precision prints no zeros; `%hhd` prints a negative number as a positive one, because
`char` is unsigned on RISC-V (`printf.c:773`, in the branch commented "signed");
and with `#` for `x`, `X`, `b` and `o`, because the prefix is made to fit by taking away
characters that are in the buffer: a number whose digits fill the width exactly, or
with zero padding all but one place of it (`x`, `X`), `b` with zero padding and a width of
two more than its digits or wider, `o` with a precision that adds zeros, and `%#.0o` of 0.
`long long` prints nothing and fetches no argument. A `%` at the end of
a format is read on behind its NUL (`pc = "overrun"`).
`bitmap_mark_as_used` leaves `free_slots_count` alone, which `bitmap.h:10` calls "Total
zeroed bits": `CountsClearSlots` says that the field has this value precisely while every
used slot is held by a client, and a higher one otherwise.
`strrchr` of `crt0.c` never advances, so that `check_device_tree` does not return for a tree
older than version 16 whose root has a name that starts with another character than `/`
(`pc = "spinning"` in FdtCheck and Boot), although `libfdt.h:16` supports versions from 2 on;
`BootSettles` excepts old trees.
`medeleg` is given the mask of the interrupt sources, which lacks the illegal instruction,
and `mtvec` is never written: the `unimp` of `test()` traps to the reset vector
(`pc = "reset"` in Boot), although `ROADMAP.md:14` lists trap diagnostics.
`fdt_check_full` accepts a structure block without a root, and one with
`FDT_NOP`s before the root, for which `fdt_parent_offset` then fails;
`PathsLeadBack` is about trees that start with their root. `fetch_lowest_` returns values of
one cell with their bytes reversed, against its comment; `RegionsFromTree`
excepts them. With 2 GiB or more free RAM the signed `unborrowed` makes
`init_phys_allocator` panic; `PanicOnlyWhenShort` excepts that. "[OK] Enabled
all interrupts" is printed after `mie` is set to 0.
With RAM up to the top of the address space `region.physicaddr + region.space_size`
(`phys_alloc.c:120`) wraps to 0, so that the kernel is no boundary and the bitmap is
placed over it. A value of two cells above the range of a
register becomes `UINTPTR_MAX`, which no caller checks; `RegionsFromTree` and
`SupervisorReady` except such values.

In libfdt, where the properties name or except them:
* `memmove` of `crt0.c` is a call of itself, so that `fdt_move`, `fdt_finish`, `fdt_open_into`
  and every call that inserts or removes bytes never return, against `libfdt.h:330` ("should
  always succeed"); `CallsJustified` and `AppliedIfPossible` state which. `strncmp` never
  advances. No kernel code calls them or the writers.
* `strnlen` of `crt0.c` returns one less than its limit when there is no NUL (run
  `fdt_string_lists`); `LookupsAgree` is about lists that end with one.
* `fdt_generate_phandle` returns 0 when the tree has a phandle of `~0`.
* `fdt_add_subnode` fails with `EXISTS` for a name without a unit address if a sibling
  differs in its unit address only.
* The rollback of a property's name (`fdt_rw.c:103`) takes back `strlen(name) + 1` bytes
  although `namelen + 1` were added; the two are equal for every caller in libfdt.
* `fdt_open_into` that reorders in place reads `boot_cpuid_phys` of the old header after
  it was overwritten (`fdt_rw.c:519`); the field is not modelled.
* A name longer than the whole buffer makes the unsigned offset in `fdt_sw.c:259` wrap;
  `fdt_create_empty_tree` leaves an unfinished tree when it fails.
* With a base tree without `__symbols__` `fdt_overlay_apply` fails with `BADOFFSET`
  (`fdt_getprop` is called with a negative offset), and the check in
  `overlay_fixup_one_phandle` is not reached; offsets in `__local_fixups__` are not
  compared with the length of the property; the symbol of a target itself gets a path
  with a slash at its end; two fragments that give one new node different phandles leave
  references to one of them.

## Proofs

All for every value of the constants, from the named assumptions on them. Each
proof has the same shape: an inductive invariant, a lemma per action that keeps it,
and the properties from it.

* **BitmapProofs** (`TypeCorrect`, `SingleOwner`, `CounterBounds`): the inductive
  invariant is `TypeOK /\ OwnedStayUsed /\ CountTracksOwned`, the last of which says that
  the counter is the capacity less the held slots. `CountsClearSlots` is not inductive: how far the
  counter is above the number of clear slots depends on the slots that were reserved. That a free
  is counted exactly when a held slot is given back needs that held slots are set bits,
  and that a decrement does not wrap needs that the held slots are a subset of the slots.
  The lemmas of BitmapOpsProofs
  (`AllocateTakesLowest`, `FreeClears`, `MarkAdds`, `InitClears`) translate bit
  operations into sets of slots, through the unique decomposition of a slot into
  word and bit. `FirstFit` is the action property, from the same lemmas;
  `Refinement` is `Spec => ImplementsSlotPool`, one step per action.
* **PhysAllocProofs**, for every machine: `PhysAllocTypes`, `PagesAreRam`,
  `EveryPageOnce`, `PanicsOnlyWhenShort`. The invariant says where the words of the
  bitmap are (`Placed`) and, in `Tracked`, that the bits set by
  `init_phys_allocator` (`Prepared`) stay set and the pages handed out are exactly
  those of the bits set since. That is needed because the properties are about
  pages and the state is about bits. `FoundPage` shows that
  `find_physical_addr_of_page` returns a page of the region it stops at without
  wrapping, and `FoundOnce` that it is injective, although it does not subtract the
  pages of the regions it passes over: regions do not overlap. `TotalIsRam` shows
  that the sum of the sizes is the number of bytes of RAM. The fold of
  `get_total_mem` is a recursive function; that it is a sum is shown by a least
  counterexample (`SumExists`, `FoldIsSum`).
* **PhysAllocProofs**, for a plain machine of any size (`BitmapPlacedInFreeRam`,
  `KernelAndBitmapKept`, `NullOnlyWhenExhausted`): addresses are rewritten as pages
  (`Laid`: RAM at page p with n pages, the kernel in l of them from the k-th). The
  search finds a page e that is RAM and not the kernel's (`PlainPlace`), and the
  bits set at initialisation are those of the kernel and e (`PlainPrepared`, with
  them `Settled`). No other page can then be kept back, and none of these handed out.
* **MemoryProofs** (`MemoryTypes`, `RegionsAreTheTrees`, `NoNodeForgotten`,
  `GivesUpForReason`): the properties are inductive together with
  `visited = ram_regions_index`, by which the region of index i is that of node
  i + 1. What `parse_reg` leaves in its buffers is in lemmas:
  two byte reversals cancel, a value that fits has zeros in its upper cells
  (`ValueFits`), and the words read are the first entry of `reg`.
* **BootProofs** (`BootTypes`, `NoTrapWithoutVector`, `ReadyBeforeSupervisor`):
  the invariant `Staged` says what `kmain` has established at each of its calls. In
  machine mode interrupts are masked by `mstatus.MIE`, but in supervisor mode by `mie` alone,
  so that `mie` has to be empty from `setup_interrupt_handler` on. The invariant holds
  the one of MemoryProofs (`RamInv`), so that supervisor code is shown to find the regions
  of the tree; `BootRunsMemory` is `Spec => MemorySpec`: every step of `kmain` is a step of
  Memory or leaves its variables alone (`RamSteps`).
* **FdtCheckProofs** (`AcceptedTrees`, `TagsAdvance`): for any header and any bytes. The
  invariant `CheckInv` says of the tags seen that they tile (`Tiled`), that `depth` is the
  number of open nodes (`Balanced`), that a node at depth 1 is the only one (`OneRoot`:
  once `depth` is back at 0, `expect_end` keeps a second one out), and that property
  names end in the strings block (`Named`). It needs two parts that no property
  mentions. Offsets are aligned: `fdt_next_tag` checks the end of a tag before it rounds it
  up, and only at an aligned offset is the end of `FDT_END` not moved out of the tree. The header has been
  accepted: only then are `off_dt_struct` and `totalsize` so small that the 32-bit sums
  of `fdt_offset_ptr` are true sums or are recognised as wrapped. The lemmas are about one
  tag (`NextTag`: it lies in the tree and leads on), one name (`SkipNameAdvances`), one property
  (`SkipPropEnds`), the header (`HeaderAccepted`) and a string (`GetString`). In Fdt every step is
  a step of `CheckNext` or leaves `checkVars` alone, by the form of its `Next`, so that
  the theorems hold of what its run checks; they cannot be stated there, because Fdt
  reaches RECURSIVE operators.
* **TimerProofs** (`TimerTypes`, `SleepNeverEarly`): the invariant says what a call
  has established at each access. The core is `TornReadIsLate`: halves read at
  times t <= u combine to no less than the sum at t, because the high half never
  goes back. The assumption that the 64-bit clock does not run out is needed.
* **PrintfProofs** (`FetchesArePassed`, `PrintfTypes`, `TextFitsBuffer`): what `va_arg`
  yields for an argument that was not passed is undefined, so everything rests on
  `FetchesPassed`. It is not inductive. `Owed` is: what is left of the format is an end
  of it, and the arguments left are at least those that it asks for, counted
  (`Debt`) from the field that is looked at next. That `Asked`, a recursive function over the
  format, is defined for every format is shown by a least counterexample (`ChainSum`,
  `AskedSums`). For the buffer the invariant says that
  while the call runs each place of the buffer below `maxlen` holds the character of
  the text with its index, or is untouched (`Written`); `EmitKeeps` shows this of the one step
  that all output goes through. A text so long that `idx` wraps writes over its own
  beginning: of that only is shown that nothing is stored from `count` on. `StoresWhatFits` is not inductive without it, because it says
  nothing of the text before the end. The lemmas show that
  digits, zeros, prefix and sign stay within the conversion buffer (`Fits`), and
  that `_atoi`, a recursive function, returns an `unsigned int` for any number of digits
  (again by a least counterexample).

Assumptions on the constants: positive sizes and ranges; the bounds are naturals; the bitmap's
counter can count every slot (`CapacityAssumption`); pages divide the address space
(`PageAssumption`); machines are as `IsMachine` says: regions page-aligned, disjoint
and within the address space, the kernel in one of them (`MachinesAssumption`); the answers of
libfdt about a node have the types of `IsNode`, with enough cells behind a
"reg" for what the code reads (`TreesAssumption` of Memory, `ClintAssumption`); the fields of a header are cells and the
bytes that an acceptable header counts are in memory (`TreesAssumption` of FdtCheck), and the
tags are cells (`TagAssumption`); calls of
printf have the types of `IsCall` and pass the arguments their format asks for, and `UINT_RANGE` is a natural above `LONG_BITS`
(`RangeAssumption`, which the provers do not derive from 2^n). TLC evaluates all of them
in the runs.

Only model-checked:
* `FlattenedIsRead`, `FindsNodes`, `PathsLeadBack` and `LookupsAgree` of Fdt, and FdtEdit and
  Overlay: their operators are RECURSIVE, because the walks of libfdt go as far as the
  bytes of the tree say, and what a walk over all of the tree computes needs induction over
  data.
* In Printf `AsStandardSays`, which compares with powers of the base: the provers know
  nothing of the value of `b^n`.
* Liveness: `Returns` of Printf, `SleepEnds` of Timer, `BootSettles` of Boot.

## Not modelled

* Several harts. All harts share one stack, so an unoptimised build races on
  `hart_id`; see the plan.
* The bodies of `m_mode_handle` and `s_mode_handle`, which the present code does
  not reach, and `enable_interrupts`, which has no caller.
* `free_physical_page`, declared but not defined.
* In libfdt `fdt_strerror.c` and the inline wrappers of `libfdt.h` for numbers of a
  fixed size, the field `boot_cpuid_phys`, structure blocks without a root in the
  writers, and calls against the obligations of a client listed above.
* The UART, the context switch (no caller), page-table
  layouts (no operation).
* The rv64 variants: the build sets `-march=rv32`.

## Plan

1. BitmapOps, Bitmap, SlotPool; PhysAlloc; Timer; DeviceTree, Memory; Boot; KString,
   FdtTag, FdtCheck, FdtRead, FdtRo, Fdt; Printf; FdtWrite, TreeStore, FdtEdit; FdtOverlay,
   Overlay - done.
2. Proofs of the invariants of Bitmap, PhysAlloc, Memory, Boot, FdtCheck, Timer and Printf,
   that Bitmap implements SlotPool and that Boot implements Memory - done.
3. PhysAlloc composed with Boot as well, so that what is handed out is compared with the
   tree - left.
4. Harts: entry, the shared stack and the `hart_id` branch for several harts - left.

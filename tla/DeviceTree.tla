----------------------------- MODULE DeviceTree ------------------------------
(***************************************************************************)
(* How src/src/init_devices.c reads the "reg" property of a device tree    *)
(* node on rv32, where a register holds one cell.                          *)
(*                                                                         *)
(* A cell is given by the number it stands for; the tree stores it with    *)
(* its bytes in big-endian order and the hart loads words in little-endian *)
(* order.  A node is what libfdt answers about it:                         *)
(*   cells          the cells in memory from the start of "reg" on; "reg"  *)
(*                  may end before them                                    *)
(*   len            number of cells of "reg", or a negative libfdt error   *)
(*   parent         offset of the parent, or a negative libfdt error       *)
(*   address_cells, size_cells   of the parent, or a negative libfdt error *)
(***************************************************************************)
EXTENDS Integers, Sequences

CONSTANT BYTE_RANGE   \* values of a byte; a cell is modelled with two of them

ASSUME ByteAssumption == BYTE_RANGE \in Nat \ {0}

CELL_RANGE == BYTE_RANGE * BYTE_RANGE
Cell == 0 .. CELL_RANGE - 1

\* UINTPTR_MAX
WORD_MAX == CELL_RANGE - 1

\* enum parsing_error, and the libfdt error that is compared with somewhere.
SUCCESS == 0
CALL_AGAIN == 4
FDT_ERR_NOTFOUND == 1

(* What libfdt may answer about a node; the cells that parse_reg reads lie  *)
(* in memory, within "reg" or behind it.                                   *)
IsNode(node) ==
  /\ node.cells \in Seq(Cell) /\ node.cells # <<>>
  /\ {node.len, node.parent, node.address_cells, node.size_cells} \subseteq Int
  /\ node.address_cells <= Len(node.cells)
  /\ node.size_cells >= 0 => /\ node.address_cells < Len(node.cells)
                            /\ node.address_cells + node.size_cells <= Len(node.cells)

(* CPU_TO_FDT32: reverses the bytes of a word. *)
ByteSwap(x) == ((x % BYTE_RANGE) * BYTE_RANGE) + (x \div BYTE_RANGE)

(* A load of a cell from the tree, and its conversion to a number. *)
Load(cell) == ByteSwap(cell)

(* Mutant of fdt32_to_cpu: no conversion. *)
fdt32_as_loaded(x) == x

fdt32_to_cpu(x) == ByteSwap(x)

(* The number in the first cells_count cells.  What fits into a register by *)
(* its size is returned as loaded; otherwise the upper cells must be zero. *)
fetch_lowest_(cells, cells_count) ==
  IF cells_count <= 1
  THEN Load(cells[1])
  ELSE IF \E i \in 1 .. cells_count - 1 : Load(cells[i]) # 0
       THEN WORD_MAX
       ELSE fdt32_to_cpu(Load(cells[cells_count]))

(* parse_reg: its result, and the two buffers after it; addr and size are  *)
(* what the buffers held before.                                           *)
parse_reg(node, addr, size) ==
  LET fail(err) == [res |-> err, addr |-> addr, size |-> size]
      from(n) == SubSeq(node.cells, n + 1, Len(node.cells))
      begin == fetch_lowest_(node.cells, node.address_cells)
  IN  IF node.len < 0 THEN fail(node.len)
      ELSE IF node.parent < 0 THEN fail(node.parent)
      ELSE IF node.address_cells < 0 THEN fail(node.address_cells)
      ELSE IF node.size_cells < 0
      THEN [res |-> node.size_cells, addr |-> begin, size |-> size]
      ELSE [res |-> IF node.len > node.address_cells + node.size_cells
                    THEN CALL_AGAIN ELSE SUCCESS,
            addr |-> begin,
            size |-> fetch_lowest_(from(node.address_cells), node.size_cells)]

-----------------------------------------------------------------------------
(* The number that `count` cells from cell `first` on stand for. *)
Value(node, first, count) ==
  LET weight == [i \in 1 .. count |-> node.cells[first + i - 1]]
  IN  IF \A i \in 1 .. count - 1 : weight[i] = 0 THEN weight[count] ELSE CELL_RANGE

(* A node whose "reg" holds at least one whole entry and reads without a   *)
(* libfdt error, with an address and a size that fit into a register.      *)
Readable(node) ==
  /\ node.parent >= 0 /\ node.address_cells >= 1 /\ node.size_cells >= 1
  /\ node.len >= node.address_cells + node.size_cells
  /\ Value(node, 1, node.address_cells) < CELL_RANGE
  /\ Value(node, node.address_cells + 1, node.size_cells) < CELL_RANGE

FirstEntry(node) ==
  [physicaddr |-> Value(node, 1, node.address_cells),
   space_size |-> Value(node, node.address_cells + 1, node.size_cells)]
=============================================================================

---------------------------- MODULE MemoryProofs -----------------------------
(***************************************************************************)
(* What init_devices.c reads from a node, for every number of cells and    *)
(* every width of a byte; and proofs about detect_memory of mem/memory.c   *)
(* for every table size and every set of device trees.                     *)
(***************************************************************************)
EXTENDS Memory, SequenceTheorems, TLAPS

LEMMA CellBytes ==
  ASSUME NEW x \in Cell
  PROVE  \E h \in 0 .. BYTE_RANGE - 1, l \in 0 .. BYTE_RANGE - 1 :
           x = h * BYTE_RANGE + l /\ x \div BYTE_RANGE = h /\ x % BYTE_RANGE = l
<1> DEFINE h == x \div BYTE_RANGE
           l == x % BYTE_RANGE
<1>1. x \in Nat /\ x < BYTE_RANGE * BYTE_RANGE
  BY ByteAssumption DEF Cell, CELL_RANGE
<1>2. h \in Nat /\ l \in 0 .. BYTE_RANGE - 1 /\ x = h * BYTE_RANGE + l
  BY <1>1, ByteAssumption
<1> HIDE DEF h, l
<1>3. h < BYTE_RANGE
  <2> SUFFICES ASSUME h >= BYTE_RANGE PROVE FALSE
    BY <1>2, ByteAssumption
  <2>1. h * BYTE_RANGE >= BYTE_RANGE * BYTE_RANGE
    BY <1>2, ByteAssumption
  <2> QED BY <1>1, <1>2, <2>1, ByteAssumption
<1> QED BY <1>2, <1>3, ByteAssumption DEF h, l

LEMMA JoinBytes ==
  ASSUME NEW h \in 0 .. BYTE_RANGE - 1, NEW l \in 0 .. BYTE_RANGE - 1
  PROVE  /\ h * BYTE_RANGE + l \in Cell
         /\ (h * BYTE_RANGE + l) \div BYTE_RANGE = h
         /\ (h * BYTE_RANGE + l) % BYTE_RANGE = l
<1> DEFINE x == h * BYTE_RANGE + l
<1>1. x \in Nat
  BY ByteAssumption
<1>2. x < BYTE_RANGE * BYTE_RANGE
  <2>1. (h + 1) * BYTE_RANGE <= BYTE_RANGE * BYTE_RANGE
    BY ByteAssumption
  <2> QED BY <2>1, ByteAssumption
<1>3. x \in Cell
  BY <1>1, <1>2, ByteAssumption DEF Cell, CELL_RANGE
<1>4. PICK g \in 0 .. BYTE_RANGE - 1, k \in 0 .. BYTE_RANGE - 1 :
        x = g * BYTE_RANGE + k /\ x \div BYTE_RANGE = g /\ x % BYTE_RANGE = k
  BY <1>3, CellBytes
<1>5. g = h
  <2>1. ASSUME g < h PROVE FALSE
    <3>1. (g + 1) * BYTE_RANGE <= h * BYTE_RANGE
      BY <2>1, ByteAssumption
    <3> QED BY <1>4, <3>1, ByteAssumption
  <2>2. ASSUME h < g PROVE FALSE
    <3>1. (h + 1) * BYTE_RANGE <= g * BYTE_RANGE
      BY <2>2, ByteAssumption
    <3> QED BY <1>4, <3>1, ByteAssumption
  <2> QED BY <2>1, <2>2, ByteAssumption
<1> QED BY <1>3, <1>4, <1>5, ByteAssumption

(* Reversing the bytes of a cell twice gives the cell: a load followed by   *)
(* fdt32_to_cpu is the number in the tree.                                 *)
LEMMA SwapTwice ==
  ASSUME NEW x \in Cell
  PROVE  ByteSwap(x) \in Cell /\ ByteSwap(ByteSwap(x)) = x
<1>1. PICK h \in 0 .. BYTE_RANGE - 1, l \in 0 .. BYTE_RANGE - 1 :
        x = h * BYTE_RANGE + l /\ x \div BYTE_RANGE = h /\ x % BYTE_RANGE = l
  BY CellBytes
<1>2. ByteSwap(x) = l * BYTE_RANGE + h
  BY <1>1 DEF ByteSwap
<1>3. ByteSwap(x) \in Cell
  BY <1>2, JoinBytes
<1>4. ByteSwap(x) \div BYTE_RANGE = l /\ ByteSwap(x) % BYTE_RANGE = h
  BY <1>2, JoinBytes
<1>5. ByteSwap(ByteSwap(x)) = x
  BY <1>1, <1>4 DEF ByteSwap
<1> QED BY <1>3, <1>5

LEMMA ZeroIsACell == 0 \in Cell /\ ByteSwap(0) = 0 /\ WORD_MAX \in Cell
<1>1. BYTE_RANGE * BYTE_RANGE >= 1
  BY ByteAssumption
<1>2. 0 \in Cell /\ WORD_MAX \in Cell
  BY <1>1, ByteAssumption DEF Cell, CELL_RANGE, WORD_MAX
<1>3. ByteSwap(0) = 0
  BY ByteAssumption DEF ByteSwap
<1> QED BY <1>2, <1>3

(* A loaded word is zero only if the cell is. *)
LEMMA ZeroLoad ==
  ASSUME NEW x \in Cell
  PROVE  Load(x) = 0 <=> x = 0
BY SwapTwice, ZeroIsACell DEF Load

(* fetch_lowest_ returns what a register can hold ... *)
LEMMA FetchFits ==
  ASSUME NEW cells \in Seq(Cell), NEW n \in Int, cells # <<>>, n <= Len(cells)
  PROVE  fetch_lowest_(cells, n) \in Cell
<1>1. cells[1] \in Cell
  OBVIOUS
<1>2. n > 1 => cells[n] \in Cell
  OBVIOUS
<1> QED BY <1>1, <1>2, SwapTwice, ZeroIsACell DEF fetch_lowest_, Load, fdt32_to_cpu

(* ... and for more than one cell the number they stand for, if it fits.   *)
LEMMA FetchReads ==
  ASSUME NEW cells \in Seq(Cell), NEW n \in Int, 1 < n, n <= Len(cells),
         \A i \in 1 .. n - 1 : cells[i] = 0
  PROVE  fetch_lowest_(cells, n) = cells[n]
<1>1. \A i \in 1 .. n : cells[i] \in Cell
  OBVIOUS
<1>2. \A i \in 1 .. n - 1 : Load(cells[i]) = 0
  BY <1>1, ZeroLoad, ZeroIsACell
<1> QED BY <1>1, <1>2, SwapTwice DEF fetch_lowest_, Load, fdt32_to_cpu

(* The cells behind the first a ones. *)
LEMMA CellsBehind ==
  ASSUME NEW cells \in Seq(Cell), NEW a \in Int, 0 <= a, a <= Len(cells)
  PROVE  LET rest == SubSeq(cells, a + 1, Len(cells))
         IN  /\ rest \in Seq(Cell) /\ Len(rest) = Len(cells) - a
             /\ \A i \in 1 .. Len(cells) - a : rest[i] = cells[a + i]
<1>1. a + 1 \in Int /\ Len(cells) \in Int /\ \A i \in a + 1 .. Len(cells) : cells[i] \in Cell
  OBVIOUS
<1> DEFINE rest == SubSeq(cells, a + 1, Len(cells))
<1>2. /\ rest \in Seq(Cell)
      /\ Len(rest) = IF a + 1 <= Len(cells) THEN Len(cells) - (a + 1) + 1 ELSE 0
      /\ \A i \in 1 .. Len(cells) - (a + 1) + 1 : rest[i] = cells[(a + 1) + i - 1]
  BY <1>1, SubSeqProperties
<1>3. Len(cells) - (a + 1) + 1 = Len(cells) - a /\ \A i \in Int : (a + 1) + i - 1 = a + i
  BY <1>1
<1> HIDE DEF rest
<1>4. Len(rest) = Len(cells) - a
  BY <1>1, <1>2
<1>5. \A i \in 1 .. Len(cells) - a : rest[i] = cells[a + i]
  <2>1. 1 .. Len(cells) - a \subseteq Int
    OBVIOUS
  <2> QED BY <1>2, <1>3, <2>1, Zenon
<1> QED BY <1>2, <1>4, <1>5 DEF rest

(* The number of several cells fits into a register only if the upper ones  *)
(* are zero.                                                               *)
LEMMA ValueFits ==
  ASSUME NEW node, NEW f \in Nat, NEW c \in Nat, c >= 1, Value(node, f, c) < CELL_RANGE
  PROVE  /\ \A i \in 1 .. c - 1 : node.cells[f + i - 1] = 0
         /\ Value(node, f, c) = node.cells[f + c - 1]
<1> DEFINE weight == [i \in 1 .. c |-> node.cells[f + i - 1]]
<1>1. ~ (CELL_RANGE < CELL_RANGE)
  BY ByteAssumption DEF CELL_RANGE
<1>2. Value(node, f, c) = IF \A i \in 1 .. c - 1 : weight[i] = 0 THEN weight[c] ELSE CELL_RANGE
  BY DEF Value
<1>3. \A i \in 1 .. c : weight[i] = node.cells[f + i - 1]
  OBVIOUS
<1>4. (\A i \in 1 .. c - 1 : weight[i] = 0) /\ Value(node, f, c) = weight[c]
  <2> HIDE DEF weight
  <2> QED BY <1>1, <1>2
<1>5. c \in 1 .. c /\ \A i \in 1 .. c - 1 : i \in 1 .. c
  OBVIOUS
<1> HIDE DEF weight
<1> QED BY <1>3, <1>4, <1>5, Zenon

(* Whatever the node is, parse_reg leaves a word in both of its buffers. *)
LEMMA ParseFits ==
  ASSUME NEW node, IsNode(node), NEW addr \in Cell, NEW size \in Cell
  PROVE  LET p == parse_reg(node, addr, size)
         IN  p.res \in Int /\ p.addr \in Cell /\ p.size \in Cell
<1> DEFINE a == node.address_cells
           n == node.size_cells
           rest == SubSeq(node.cells, a + 1, Len(node.cells))
<1>1. fetch_lowest_(node.cells, a) \in Cell
  BY FetchFits DEF IsNode
<1>2. ASSUME a >= 0, n >= 0 PROVE fetch_lowest_(rest, n) \in Cell
  <2>1. rest \in Seq(Cell) /\ Len(rest) = Len(node.cells) - a
    BY <1>2, CellsBehind DEF IsNode
  <2>2. n <= Len(rest) /\ n \in Int /\ Len(rest) > 0
    BY <1>2, <2>1 DEF IsNode
  <2> HIDE DEF rest, n
  <2>3. rest # <<>>
    BY <2>2
  <2> QED BY <2>1, <2>2, <2>3, FetchFits
<1> QED BY <1>1, <1>2 DEF parse_reg, IsNode, CALL_AGAIN, SUCCESS

(* Where parse_reg reads a "reg" with more than one cell for each number,   *)
(* the buffers get the first entry of the tree.                            *)
LEMMA ParseReads ==
  ASSUME NEW node, IsNode(node), Readable(node), NEW addr \in Cell, NEW size \in Cell
  PROVE  LET p == parse_reg(node, addr, size)
         IN  /\ node.address_cells > 1 => p.addr = FirstEntry(node).physicaddr
             /\ node.size_cells > 1 => p.size = FirstEntry(node).space_size
<1> DEFINE a == node.address_cells
           n == node.size_cells
           rest == SubSeq(node.cells, a + 1, Len(node.cells))
           p == parse_reg(node, addr, size)
<1>1. node.cells \in Seq(Cell) /\ Len(node.cells) \in Nat
  BY DEF IsNode
<1>2. a \in Nat /\ n \in Nat /\ a >= 1 /\ n >= 1 /\ a + n <= Len(node.cells)
      /\ node.len >= 0 /\ node.parent >= 0 /\ node.len \in Int /\ node.parent \in Int
  BY DEF Readable, IsNode
<1>3. p.addr = fetch_lowest_(node.cells, a) /\ p.size = fetch_lowest_(rest, n)
  BY <1>2 DEF parse_reg
<1>4. /\ FirstEntry(node).physicaddr = Value(node, 1, a)
      /\ FirstEntry(node).space_size = Value(node, a + 1, n)
  BY DEF FirstEntry
<1>5. Value(node, 1, a) < CELL_RANGE /\ Value(node, a + 1, n) < CELL_RANGE
  BY DEF Readable
<1> HIDE DEF p
<1>6. ASSUME a > 1 PROVE p.addr = FirstEntry(node).physicaddr
  <2> HIDE DEF a
  <2>1. /\ \A i \in 1 .. a - 1 : node.cells[1 + i - 1] = 0
        /\ Value(node, 1, a) = node.cells[1 + a - 1]
    BY <1>2, <1>5, ValueFits
  <2>2. (\A i \in 1 .. a - 1 : node.cells[i] = 0) /\ Value(node, 1, a) = node.cells[a]
    BY <1>2, <2>1
  <2>3. a \in Int /\ 1 < a /\ a <= Len(node.cells)
    BY <1>1, <1>2, <1>6
  <2>4. fetch_lowest_(node.cells, a) = node.cells[a]
    BY <1>1, <2>2, <2>3, FetchReads, Zenon
  <2> QED BY <1>3, <1>4, <2>2, <2>4
<1>7. ASSUME n > 1 PROVE p.size = FirstEntry(node).space_size
  <2>1. /\ rest \in Seq(Cell) /\ Len(rest) = Len(node.cells) - a
        /\ \A i \in 1 .. Len(node.cells) - a : rest[i] = node.cells[a + i]
    <3>1. a \in Int /\ 0 <= a /\ a <= Len(node.cells)
      BY <1>1, <1>2
    <3> QED BY <1>1, <3>1, CellsBehind, Zenon
  <2> HIDE DEF a, n, rest
  <2>2. /\ \A i \in 1 .. n - 1 : node.cells[(a + 1) + i - 1] = 0
        /\ Value(node, a + 1, n) = node.cells[(a + 1) + n - 1]
    <3>1. a + 1 \in Nat
      BY <1>2
    <3> QED BY <1>2, <1>5, <3>1, ValueFits, Zenon
  <2>3. (a + 1) + n - 1 = a + n /\ \A i \in 1 .. n - 1 : (a + 1) + i - 1 = a + i
    BY <1>2
  <2>4. n <= Len(rest) /\ 1 .. n \subseteq 1 .. Len(node.cells) - a
    BY <1>1, <1>2, <2>1
  <2>5. (\A i \in 1 .. n - 1 : rest[i] = 0) /\ Value(node, a + 1, n) = rest[n]
    <3>1. n \in 1 .. n /\ 1 .. n - 1 \subseteq 1 .. n
      BY <1>2
    <3> QED BY <2>1, <2>2, <2>3, <2>4, <3>1, Zenon
  <2>6. n \in Int /\ 1 < n
    BY <1>2, <1>7
  <2>7. fetch_lowest_(rest, n) = rest[n]
    BY <2>1, <2>4, <2>5, <2>6, FetchReads, Zenon
  <2> QED BY <1>3, <1>4, <2>5, <2>7
<1> QED BY <1>6, <1>7 DEF p

(* The size that parse_reg reads is zero only if the tree says so. *)
LEMMA ParseZero ==
  ASSUME NEW node, IsNode(node), Readable(node), NEW addr \in Cell, NEW size \in Cell
  PROVE  parse_reg(node, addr, size).size = 0 <=> FirstEntry(node).space_size = 0
<1> DEFINE a == node.address_cells
           n == node.size_cells
           rest == SubSeq(node.cells, a + 1, Len(node.cells))
           p == parse_reg(node, addr, size)
<1>1. CASE n > 1
  BY <1>1, ParseReads
<1>2. CASE n = 1
  <2>1. node.cells \in Seq(Cell) /\ Len(node.cells) \in Nat /\ a \in Int /\ 1 <= a
        /\ a + 1 <= Len(node.cells) /\ node.len >= 0 /\ node.parent >= 0
        /\ node.len \in Int /\ node.parent \in Int
    BY <1>2 DEF Readable, IsNode
  <2>2. p.size = fetch_lowest_(rest, n)
    BY <1>2, <2>1 DEF parse_reg
  <2>3. rest[1] = node.cells[a + 1]
    <3>1. 0 <= a /\ a <= Len(node.cells)
      BY <2>1
    <3>2. \A i \in 1 .. Len(node.cells) - a : rest[i] = node.cells[a + i]
      BY <2>1, <3>1, CellsBehind, Zenon
    <3> QED BY <2>1, <3>2
  <2>4. node.cells[a + 1] \in Cell
    BY <2>1
  <2>5. fetch_lowest_(rest, n) = Load(rest[1])
    BY <1>2 DEF fetch_lowest_
  <2>6. FirstEntry(node).space_size = node.cells[a + 1]
    <3>1. Value(node, a + 1, 1) < CELL_RANGE
      BY <1>2 DEF Readable
    <3>2. Value(node, a + 1, 1) = node.cells[(a + 1) + 1 - 1]
      <4>1. a + 1 \in Nat /\ 1 \in Nat /\ 1 >= 1
        BY <2>1
      <4> QED BY <3>1, <4>1, ValueFits, Zenon
    <3> QED BY <1>2, <2>1, <3>2 DEF FirstEntry
  <2> HIDE DEF p, rest
  <2> QED BY <2>2, <2>3, <2>4, <2>5, <2>6, ZeroLoad DEF p
<1>3. n \in Int /\ n >= 1
  BY DEF Readable, IsNode
<1> QED BY <1>1, <1>2, <1>3

(* Where libfdt leaves a question open, parse_reg does not write the size. *)
LEMMA ParseUnanswered ==
  ASSUME NEW node, IsNode(node), NEW addr, NEW size
  PROVE  /\ Unanswered(node) => parse_reg(node, addr, size).size = size
         /\ parse_reg(node, addr, size).res = -FDT_ERR_NOTFOUND => Unanswered(node)
         /\ node.len = -FDT_ERR_NOTFOUND => parse_reg(node, addr, size).res = -FDT_ERR_NOTFOUND
BY DEF parse_reg, Unanswered, IsNode, FDT_ERR_NOTFOUND, CALL_AGAIN, SUCCESS

-----------------------------------------------------------------------------
(* The inductive invariant.  A slot is counted with each node visited, so   *)
(* that region i belongs to node i + 1, and slots are used once, so that    *)
(* what parse_reg does not write stays zero; the conjuncts about success,   *)
(* about regions and about errors rest on these two.                       *)
RamInv ==
  /\ MemoryTypeOK
  /\ tree \in Trees /\ debug \in BOOLEAN
  /\ visited = ram_regions_index
  /\ \A i \in ram_regions_index .. MAX_MEM_REGIONS - 1 : ram_regions[i] = NoRegion
  /\ RegionsFromTree
  /\ SuccessIsComplete
  /\ debug /\ result # "halt" => CountedHaveBytes
  /\ StopsForReason

LEMMA TreeNodes ==
  ASSUME tree \in Trees, NEW k \in 1 .. Len(tree)
  PROVE  IsNode(tree[k])
BY TreesAssumption

LEMMA RamInit == MemoryInit => RamInv
<1> SUFFICES ASSUME MemoryInit PROVE RamInv
  OBVIOUS
<1>1. Counted = {}
  BY DEF MemoryInit, Counted
<1>2. NoRegion \in [physicaddr : Cell, space_size : Cell]
  BY ZeroIsACell DEF NoRegion
<1>3. MemoryTypeOK
  BY <1>2, RegionsAssumption, TreesAssumption DEF MemoryInit, MemoryTypeOK
<1>4. StopsForReason
  BY DEF MemoryInit, StopsForReason
<1>5. \A i \in ram_regions_index .. MAX_MEM_REGIONS - 1 : ram_regions[i] = NoRegion
  BY DEF MemoryInit
<1> QED BY <1>1, <1>3, <1>4, <1>5
        DEF MemoryInit, RamInv, RegionsFromTree, SuccessIsComplete, CountedHaveBytes

(* A node that is given a slot: region visited gets what parse_reg leaves. *)
LEMMA RecordPreserves ==
  ASSUME RamInv, extract_ram_region_info, ~OutOfSlots
  PROVE  RamInv'
<1> DEFINE k == ram_regions_index
           node == tree[visited + 1]
           buf == ram_regions[k]
           p == parse_reg(node, buf.physicaddr, buf.space_size)
           r == [physicaddr |-> p.addr, space_size |-> p.size]
<1>1. k \in Nat /\ k < MAX_MEM_REGIONS /\ k \in 0 .. MAX_MEM_REGIONS - 1 /\ visited = k
      /\ k < Len(tree) /\ Len(tree) \in Nat
  BY RegionsAssumption, TreesAssumption DEF RamInv, MemoryTypeOK, OutOfSlots, extract_ram_region_info
<1>2. /\ ram_regions' = [ram_regions EXCEPT ![k] = r]
      /\ ram_regions_index' = k + 1 /\ visited' = k + 1
      /\ result' = IF debug /\ ~SizeAssertion(p.size) THEN "halt"
                   ELSE IF EndsLoop(p.res) THEN "failed" ELSE "running"
      /\ tree' = tree /\ debug' = debug /\ result = "running"
  BY <1>1 DEF extract_ram_region_info, NoSlotLeft, FillSlot
<1>3. IsNode(node)
  BY <1>1, TreeNodes DEF RamInv
<1>4. buf.physicaddr \in Cell /\ buf.space_size \in Cell
  BY <1>1 DEF RamInv, MemoryTypeOK
<1>5. p.addr \in Cell /\ p.size \in Cell
  BY <1>3, <1>4, ParseFits
<1>z. /\ Unanswered(node) => p.size = 0
      /\ p.res = -FDT_ERR_NOTFOUND => Unanswered(node)
      /\ node.len = -FDT_ERR_NOTFOUND => p.res = -FDT_ERR_NOTFOUND
      /\ Readable(node) => (p.size = 0 <=> FirstEntry(node).space_size = 0)
  <2>1. buf = NoRegion
    BY <1>1 DEF RamInv
  <2>2. buf.space_size = 0
    BY <2>1 DEF NoRegion
  <2> QED BY <1>3, <1>4, <2>2, ParseUnanswered, ParseZero
<1>6. Readable(node) /\ node.address_cells > 1 /\ node.size_cells > 1 => r = FirstEntry(node)
  <2> SUFFICES ASSUME Readable(node), node.address_cells > 1, node.size_cells > 1
               PROVE  r = FirstEntry(node)
    OBVIOUS
  <2>1. p.addr = FirstEntry(node).physicaddr /\ p.size = FirstEntry(node).space_size
    BY <1>3, <1>4, ParseReads
  <2> QED BY <2>1 DEF FirstEntry
<1> HIDE DEF p, r
<1>7. r \in [physicaddr : Cell, space_size : Cell] /\ r.space_size = p.size
  BY <1>5 DEF r
<1> HIDE DEF node, k, buf
<1>8. /\ ram_regions'[k] = r
      /\ \A i \in 0 .. k - 1 : ram_regions'[i] = ram_regions[i]
  BY <1>1, <1>2 DEF RamInv, MemoryTypeOK
<1>9. MemoryTypeOK'
  <2>1. visited' \in 0 .. Len(tree') /\ ram_regions_index' \in 0 .. MAX_MEM_REGIONS
    BY <1>1, <1>2, RegionsAssumption
  <2>2. ram_regions' \in [0 .. MAX_MEM_REGIONS - 1 -> [physicaddr : Cell, space_size : Cell]]
    BY <1>1, <1>2, <1>7 DEF RamInv, MemoryTypeOK
  <2> QED BY <1>2, <2>1, <2>2 DEF MemoryTypeOK
<1>10. Counted' = 0 .. k /\ Counted = 0 .. k - 1
  BY <1>1, <1>2 DEF Counted, k
<1>11. RegionsFromTree'
  <2> SUFFICES ASSUME NEW i \in 0 .. k,
                      Readable(tree[i + 1]), tree[i + 1].address_cells > 1,
                      tree[i + 1].size_cells > 1
               PROVE  ram_regions'[i] = FirstEntry(tree[i + 1])
    BY <1>2, <1>10 DEF RegionsFromTree
  <2>1. CASE i = k
    BY <1>1, <1>6, <1>8, <2>1 DEF node
  <2>2. CASE i \in 0 .. k - 1
    <3>1. ram_regions[i] = FirstEntry(tree[i + 1])
      BY <1>10, <2>2 DEF RamInv, RegionsFromTree
    <3> QED BY <1>8, <2>2, <3>1
  <2> QED BY <1>1, <2>1, <2>2
<1>12. debug' /\ result' # "halt" => CountedHaveBytes'
  <2> SUFFICES ASSUME debug, result' # "halt", NEW i \in 0 .. k
               PROVE  ram_regions'[i].space_size # 0
    BY <1>2, <1>10 DEF CountedHaveBytes
  <2>1. p.size # 0
    BY <1>2 DEF SizeAssertion
  <2>2. CASE i = k
    BY <1>7, <1>8, <2>1, <2>2
  <2>3. CASE i \in 0 .. k - 1
    BY <1>2, <1>8, <1>10, <2>3 DEF RamInv, CountedHaveBytes
  <2> QED BY <1>1, <2>2, <2>3
<1>13. SuccessIsComplete'
  BY <1>2 DEF SuccessIsComplete
<1>14. \A i \in ram_regions_index' .. MAX_MEM_REGIONS' - 1 : ram_regions'[i] = NoRegion'
  <2> SUFFICES ASSUME NEW i \in k + 1 .. MAX_MEM_REGIONS - 1
               PROVE  ram_regions'[i] = NoRegion
    BY <1>2 DEF NoRegion
  <2>1. ram_regions'[i] = ram_regions[i]
    BY <1>1, <1>2, RegionsAssumption DEF RamInv, MemoryTypeOK
  <2>2. i \in ram_regions_index .. MAX_MEM_REGIONS - 1
    BY <1>1, RegionsAssumption DEF k
  <2> QED BY <2>1, <2>2 DEF RamInv
<1>15. StopsForReason'
  <2>1. visited' = k + 1 /\ tree'[visited'] = node
    BY <1>1, <1>2 DEF node
  <2>2. result' = "failed" => ~debug /\ Unanswered(node)
    BY <1>2, <1>z DEF EndsLoop, SizeAssertion
  <2>3. result' = "halt" => debug /\ ~ (Readable(node) /\ FirstEntry(node).space_size # 0)
    BY <1>2, <1>z DEF SizeAssertion
  <2>4. ASSUME node.len = -FDT_ERR_NOTFOUND \/ (debug /\ Lacking(node))
        PROVE  result' \in {"failed", "halt"}
    BY <1>2, <1>z, <2>4 DEF EndsLoop, SizeAssertion, Lacking
  <2>5. ASSUME NEW i \in 1 .. k
        PROVE  ~ (tree[i].len = -FDT_ERR_NOTFOUND \/ (debug /\ Lacking(tree[i])))
    BY <1>1, <1>2, <2>5 DEF RamInv, StopsForReason
  <2>6. ASSUME NEW i \in 1 .. k + 1,
               tree[i].len = -FDT_ERR_NOTFOUND \/ (debug /\ Lacking(tree[i]))
        PROVE  i = k + 1 /\ result' \in {"failed", "halt"}
    <3>1. i = k + 1
      BY <1>1, <2>5, <2>6
    <3>2. tree[i] = node
      BY <1>1, <3>1 DEF node
    <3> QED BY <2>4, <2>6, <3>1, <3>2
  <2>7. visited' > 0
    BY <1>1, <2>1
  <2> QED BY <1>2, <2>1, <2>2, <2>3, <2>6, <2>7 DEF StopsForReason, Unanswered, Lacking
<1> QED BY <1>2, <1>9, <1>11, <1>12, <1>13, <1>14, <1>15 DEF RamInv

(* The other steps write no region. *)
LEMMA OtherPreserves ==
  ASSUME RamInv, UNCHANGED <<tree, debug, visited, ram_regions, ram_regions_index>>,
         \/ result' = result
         \/ /\ result' = "failed" /\ result = "running"
            /\ visited = MAX_MEM_REGIONS /\ visited < Len(tree)
         \/ result' = "done" /\ result = "running" /\ visited = Len(tree)
  PROVE  RamInv'
<1>1. MemoryTypeOK'
  BY DEF RamInv, MemoryTypeOK
<1>2. Counted' = Counted
  BY DEF Counted
<1>3. RegionsFromTree'
  BY <1>2 DEF RamInv, RegionsFromTree
<1>4. SuccessIsComplete'
  BY DEF RamInv, SuccessIsComplete
<1>5. debug' /\ result' # "halt" => CountedHaveBytes'
  BY <1>2 DEF RamInv, CountedHaveBytes
<1>6. StopsForReason'
  BY DEF RamInv, StopsForReason
<1>7. \A i \in ram_regions_index' .. MAX_MEM_REGIONS' - 1 : ram_regions'[i] = NoRegion'
  BY DEF RamInv
<1> QED BY <1>1, <1>3, <1>4, <1>5, <1>6, <1>7 DEF RamInv

LEMMA RamStep == RamInv /\ [MemoryNext]_memoryVars => RamInv'
<1> SUFFICES ASSUME RamInv, [MemoryNext]_memoryVars PROVE RamInv'
  OBVIOUS
<1>1. CASE extract_ram_region_info
  <2>1. CASE OutOfSlots
    <3>1. visited = MAX_MEM_REGIONS /\ visited < Len(tree)
      BY <1>1, <2>1, RegionsAssumption DEF extract_ram_region_info, OutOfSlots, RamInv, MemoryTypeOK
    <3> QED BY <1>1, <2>1, <3>1, OtherPreserves DEF extract_ram_region_info, NoSlotLeft, FillSlot
  <2>2. CASE ~OutOfSlots
    BY <1>1, <2>2, RecordPreserves
  <2> QED BY <2>1, <2>2
<1>2. CASE detect_memory_returns
  BY <1>2, OtherPreserves DEF detect_memory_returns
<1>3. CASE UNCHANGED memoryVars
  BY <1>3, OtherPreserves DEF memoryVars
<1> QED BY <1>1, <1>2, <1>3 DEF MemoryNext

LEMMA RamInvariance == MemorySpec => []RamInv
BY RamInit, RamStep, PTL DEF MemorySpec

(* detect_memory never writes outside ram_regions and every field it leaves *)
(* there is a word, whatever the nodes of the tree are.                    *)
THEOREM MemoryTypes == MemorySpec => []MemoryTypeOK
<1>1. RamInv => MemoryTypeOK
  BY DEF RamInv
<1> QED BY <1>1, RamInvariance, PTL

(* For trees with more than one cell for addresses and sizes, region i is   *)
(* the first "reg" entry of memory node i, for every tree and table size.  *)
THEOREM RegionsAreTheTrees == MemorySpec => []RegionsFromTree
<1>1. RamInv => RegionsFromTree
  BY DEF RamInv
<1> QED BY <1>1, RamInvariance, PTL

(* detect_memory returns success only if it had a slot for every node. *)
THEOREM NoNodeForgotten == MemorySpec => []SuccessIsComplete
<1>1. RamInv => SuccessIsComplete
  BY DEF RamInv
<1> QED BY <1>1, RamInvariance, PTL

(* detect_memory gives up only for a full table or a node that the tree     *)
(* leaves incomplete or empty, and goes on past no such node, for every    *)
(* tree, table size and build.                                             *)
THEOREM GivesUpForReason == MemorySpec => []StopsForReason
<1>1. RamInv => StopsForReason
  BY DEF RamInv
<1> QED BY <1>1, RamInvariance, PTL
=============================================================================

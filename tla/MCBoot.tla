------------------------------- MODULE MCBoot --------------------------------
(***************************************************************************)
(* Machines for Boot: bytes with 2 values, cells of 2 bytes, and up to one *)
(* memory node more than there are slots.                                  *)
(***************************************************************************)
EXTENDS Boot

Node(cells, len, parent, address_cells, size_cells) ==
  [cells |-> cells, len |-> len, parent |-> parent,
   address_cells |-> address_cells, size_cells |-> size_cells]

\* CLINT nodes: a usable one, one above the range of a register, one with two
\* entries, and ones that libfdt cannot read.
Clint == Node(<<0, 1, 0, 1>>, 4, 0, 2, 2)

MCClintNodes ==
  {Node(<<h, a, 0, 1>>, len, p, n, 2) : h \in 0 .. 1, a \in 1 .. 2, len \in {-1, 3, 4, 8},
                                       p \in {-4, 0}, n \in {-14, 2}}

\* Trees for every platform.
Ram == Node(<<0, 2, 0, 1>>, 4, 0, 2, 2)
MoreRam == Node(<<0, 3, 0, 2>>, 4, 0, 2, 2)
Empty == Node(<<0, 1, 0, 0>>, 4, 0, 2, 2)
NoReg == Node(<<0, 1, 0, 1>>, -1, 0, 2, 2)

FewTrees == {<<>>, <<Ram>>, <<Ram, MoreRam>>, <<Ram, MoreRam, Ram>>, <<Empty, Ram>>, <<NoReg, Ram>>,
             <<Ram, NoReg>>}

\* The nodes of a tree have one parent, and so the same numbers of cells.
\* A "reg" of one entry, of two entries, and one that is cut short.
TwoCells ==
  {Node(<<h, a, 0, s, 1, 1>>, len, 0, 2, 2) : h \in 0 .. 1, a \in {1, 2}, s \in {0, 2},
                                             len \in {3, 4, 8}}

OneCell == {Node(<<a, s, 1, 1>>, len, 0, 1, 1) : a \in 0 .. 2, s \in 0 .. 2, len \in {2, 4}}

\* No "reg", no parent, and unusable numbers of cells.
Broken ==
  {Node(<<0, 1, 0, 2>>, -1, 0, 2, 2), Node(<<0, 1, 0, 2>>, 4, -4, 2, 2)}

BadCells(a, s) == Node(<<0, 1, 0, 2>>, 4, 0, a, s)

\* A node behind MAX_MEM_REGIONS others is never read: any will do.
TreesOf(nodes) ==
  UNION {[1 .. n -> nodes] : n \in 1 .. MAX_MEM_REGIONS}
    \cup {Append(t, t[1]) : t \in [1 .. MAX_MEM_REGIONS -> nodes]}

ManyTrees ==
  TreesOf(TwoCells \cup Broken) \cup TreesOf(OneCell)
    \cup TreesOf({BadCells(-14, 2)}) \cup TreesOf({BadCells(2, -14)}) \cup TreesOf({BadCells(2, 0)})

MCTrees == FewTrees \cup ManyTrees

\* Every platform with a few trees, and many trees on a platform that gets as far
\* as detect_memory.
MCInit ==
  /\ \/ tree \in FewTrees
     \/ /\ tree \in ManyTrees
        /\ hart_id = 0 /\ platform = [extensions |-> TRUE, tree |-> "ok", clint |-> Clint]
  /\ Init

MCSpec == MCInit /\ [][Next]_vars /\ WF_vars(Next)
=============================================================================

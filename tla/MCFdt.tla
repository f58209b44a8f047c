-------------------------------- MODULE MCFdt --------------------------------
(***************************************************************************)
(* Flattened trees for Fdt: bytes with 32 values, so that int is less than *)
(* 512 and a cell is two bytes.                                            *)
(***************************************************************************)
EXTENDS Fdt

Word(x) == <<x \div BYTE_RANGE, x % BYTE_RANGE>>
Padded(s) == IF Len(s) % FDT_TAGSIZE = 0 THEN s ELSE Append(s, 0)

(* What a structure block is made of: a tag and its bytes. *)
Item(tag, rest) == [tag |-> tag, bytes |-> Word(tag) \o Padded(rest)]

Begin(name) == Item(FDT_BEGIN_NODE, Append(name, 0))
EndNode == Item(FDT_END_NODE, <<>>)
Nop == Item(FDT_NOP, <<>>)
End == Item(FDT_END, <<>>)
Prop(len, nameoff, value) == Item(FDT_PROP, Word(len) \o Word(nameoff) \o value)

(* The strings block: #address-cells with device_type as its suffix, reg,   *)
(* #size-cells, compatible, a name of which device_type is a prefix, and   *)
(* linux,phandle with phandle as its suffix.                               *)
Strings == <<3, 1, 0, 2, 0, 4, 0, 5, 0, 1, 6, 0, 12, 10, 0>>

PropNamed(nameoff, value) == Prop(Len(value), nameoff, value)
AddressCells(n) == PropNamed(0, Word(n))
DeviceType(value) == PropNamed(1, value)
Reg(cells) == PropNamed(3, FlattenSeq(cells))
SizeCells(n) == PropNamed(5, Word(n))
Compatible(value) == PropNamed(7, value)
LongerName(value) == PropNamed(9, value)
LinuxPhandle(value) == PropNamed(12, value)
Phandle(value) == PropNamed(13, value)

(* A tree of the given version: header, empty reservation map, structure   *)
(* block, strings, and bytes behind it that are not part of it.  written   *)
(* is the sequence of its tags if they form a tree.                        *)
Flattened(version, items, tree) ==
  LET struct == FlattenSeq([i \in DOMAIN items |-> items[i].bytes])
      bytes == [i \in 1 .. 20 |-> 1] \o [i \in 1 .. 8 |-> 0] \o struct \o Strings \o <<6, 6, 0, 0>>
  IN  [address |-> 8, magic |-> "FDT_MAGIC", version |-> version,
       last_comp_version |-> IF version < 16 THEN version ELSE 16,
       totalsize |-> Len(bytes) - 4, off_mem_rsvmap |-> 20, off_dt_struct |-> 28,
       size_dt_struct |-> Len(struct), off_dt_strings |-> 28 + Len(struct),
       size_dt_strings |-> Len(Strings),
       bytes |-> [i \in 0 .. Len(bytes) - 1 |-> bytes[i + 1]],
       written |-> IF tree THEN [i \in DOMAIN items |-> items[i].tag] ELSE <<>>]

-----------------------------------------------------------------------------
(* Properties of a node: no device, memory without and with "reg", a CLINT  *)
(* that is compatible with something else first, and near misses.          *)
NodeProps ==
  {<<>>,
   <<DeviceType(MEMORY)>>,
   <<Nop, Reg(<<Word(0), Word(9), Word(0), Word(8)>>), DeviceType(MEMORY)>>,
   <<Compatible(<<7, 8, 0, 7, 0>>)>>,
   <<LongerName(MEMORY), Compatible(<<8, 7, 0>>), DeviceType(<<6, 6>>)>>}

RootProps == {<<>>, <<AddressCells(1), SizeCells(2)>>}

Node(name, props, children) == <<Begin(name)>> \o props \o children \o <<EndNode>>

(* Roots with nothing, one node, two nodes side by side, one in another,    *)
(* and a third after that.                                                 *)
Roots(props) ==
  LET A == {Node(<<8>>, p, <<>>) : p \in NodeProps}
      B == {Node(<<8, 9>>, p, <<>>) : p \in NodeProps}
      Nested == {Node(<<8>>, p, b) : p \in NodeProps \cup RootProps, b \in B}
  IN  {Node(<<>>, props, c) :
         c \in {<<>>} \cup A \cup {a \o b : a \in A, b \in B} \cup Nested
               \cup {n \o b : n \in Nested, b \in {Node(<<8, 9>>, p, <<Nop>>) : p \in NodeProps}}}

Whole(roots) == {Flattened(v, r \o <<End>>, TRUE) :
            v \in 16 .. 17, r \in UNION {Roots(p) : p \in roots}}

(* Children of the root whose names differ in a unit address or are         *)
(* prefixes of each other, in every order and one with a child; properties *)
(* with phandles, among them the largest, one of the wrong size and the    *)
(* invalid one; lists of strings with the last one terminated or not; and  *)
(* aliases for a node, for something that is not a path, and for nothing.  *)
SiblingNames == {<<8>>, <<8, 9>>, <<8, AT, 9>>, <<8, AT, 8>>}

Siblings ==
  {Node(<<>>, <<>>, Node(n1, <<>>, <<>>) \o Node(n2, <<>>, Node(n3, <<>>, <<>>)) \o Node(n4, <<>>, <<>>)) :
     n1 \in SiblingNames, n2 \in SiblingNames, n3 \in {<<8>>}, n4 \in SiblingNames}

PhandleProps ==
  {<<>>, <<Phandle(Word(1))>>, <<Phandle(Word(2)), LinuxPhandle(Word(1))>>, <<LinuxPhandle(Word(3))>>,
   <<Phandle(<<1, 1, 1>>), LinuxPhandle(Word(4))>>, <<Phandle(Word(FDT_MAX_PHANDLE))>>,
   <<Phandle(Word(CELL_RANGE - 1))>>}

WithPhandles == {Node(<<>>, p, Node(<<8>>, q, Node(<<9>>, r, <<>>))) :
                   p \in PhandleProps, q \in PhandleProps, r \in PhandleProps}

Lists == {<<>>, <<0>>, <<7>>, <<7, 0>>, <<7, 7, 0, 7, 0>>, <<7, 0, 7, 0>>, <<0, 7>>, <<8, 0, 7, 7>>, <<7, 0, 0, 8, 0>>}

WithLists == {Node(<<>>, <<>>, Node(<<8>>, <<Compatible(v)>>, <<>>) \o Node(ALIASES, <<Compatible(w)>>, <<>>)) :
                v \in Lists,
                w \in {<<SLASH, 8, 0>>, <<SLASH, 0>>, <<SLASH, 9, 0>>, <<8, 0>>, <<SLASH, 8>>, <<>>}}

Named == {Flattened(17, r \o <<End>>, TRUE) : r \in Siblings \cup WithPhandles \cup WithLists}

OldWhole == {Flattened(3, Node(<<SLASH>>, p, Node(<<SLASH, 8>>, p, <<>>)) \o <<End>>, TRUE) :
               p \in {<<>>, <<DeviceType(MEMORY)>>}}

(* Items that are not whole or not known: a length past the end, lengths    *)
(* at which the sums exceed INT_MAX or wrap, a name that is not in the     *)
(* strings block, a tag of another format, and a name that is not empty.   *)
Odd == {Prop(200, 1, <<>>), Prop(INT_MAX - 34, 1, <<>>), Prop(CELL_RANGE - 6, 1, <<>>),
        Prop(0, Len(Strings), <<>>), Prop(0, CELL_RANGE - 1, <<>>), [tag |-> 7, bytes |-> Word(7)],
        [tag |-> FDT_BEGIN_NODE, bytes |-> Word(FDT_BEGIN_NODE) \o <<9, 9>>],
        DeviceType(MEMORY), Begin(<<>>), Begin(<<8>>), EndNode, Nop, End}

\* Bound: tags of an arbitrary structure block.
MAX_ITEMS == 3

Arbitrary(versions, items) ==
  {Flattened(v, s, FALSE) : v \in versions, s \in UNION {[1 .. n -> Odd] : n \in 0 .. items}}

(* A small tree with one item left out, replaced or added. *)
Small == Node(<<>>, <<Nop>>, Node(<<8>>, <<DeviceType(MEMORY)>>, Node(<<9>>, <<>>, <<>>))) \o <<End>>

Edited(versions) == {Flattened(v, s, FALSE) :
             v \in versions,
             s \in {RemoveAt(Small, i) : i \in DOMAIN Small}
                   \cup {ReplaceAt(Small, i, x) : i \in DOMAIN Small, x \in Odd}
                   \cup {InsertAt(Small, i, x) : i \in DOMAIN Small, x \in Odd}}

(* Two roots, and something else behind the root. *)
Behind(versions) ==
  {Flattened(v, Node(<<>>, <<>>, <<>>) \o s \o <<End>>, FALSE) :
     v \in versions, s \in {Node(<<>>, <<>>, <<>>), <<Nop>>, <<DeviceType(MEMORY)>>, <<EndNode>>}}

(* A whole tree with one or two fields of its header replaced. *)
Edges(t) == {0, 1, 18, 20, 24, 28, t.totalsize - Len(Strings), t.totalsize, INT_MAX, INT_MAX + 1,
             CELL_RANGE - 28, CELL_RANGE - 2}

Sound(t) == t.totalsize <= Cardinality(DOMAIN t.bytes)

WrongHeader ==
  LET t == Flattened(17, Small, FALSE)
      u == Flattened(16, Small, FALSE)
  IN  {r \in {[t EXCEPT !.totalsize = x, !.size_dt_struct = y] : x \in Edges(t), y \in Edges(t)}
              \cup {[t EXCEPT !.off_dt_struct = x, !.size_dt_struct = y] : x \in Edges(t), y \in Edges(t)}
              \cup {[t EXCEPT !.off_dt_strings = x, !.size_dt_strings = y] : x \in Edges(t), y \in Edges(t)}
              \cup {[u EXCEPT !.off_mem_rsvmap = x, !.off_dt_struct = y] : x \in Edges(t), y \in Edges(t)}
              \cup {[t EXCEPT !.version = x, !.last_comp_version = y] : x \in {1, 2, 17, 18}, y \in 16 .. 18}
              \cup {[t EXCEPT !.magic = m] : m \in {"FDT_SW_MAGIC", "other"}}
              \cup {[t EXCEPT !.address = 4]} :
       Sound(r) \/ fdt_check_header(r) # 0}

MCTrees == Whole(RootProps) \cup Named \cup OldWhole \cup WrongHeader
             \cup Arbitrary({3, 16, 17}, MAX_ITEMS) \cup Edited({3, 16, 17}) \cup Behind({16, 17})

(* The trees with lists of strings. *)
ListTrees == {Flattened(17, r \o <<End>>, TRUE) : r \in WithLists}
=============================================================================

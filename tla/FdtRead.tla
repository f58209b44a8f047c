------------------------------- MODULE FdtRead -------------------------------
(***************************************************************************)
(* The searches in a flattened device tree that the kernel makes, on top   *)
(* of the tags of FdtTag: src/libfdt/fdt.c, fdt_ro.c and fdt_addresses.c.  *)
(***************************************************************************)
EXTENDS FdtTag

(* The names the kernel asks for.  Names are short here; one is a suffix   *)
(* of another, as in a strings block that shares suffixes.                 *)
DEVICE_TYPE == <<1>>
REG == <<2>>
ADDRESS_CELLS == <<3, 1>>
SIZE_CELLS == <<4>>
COMPATIBLE == <<5>>

\* Depth argument of fdt_next_node when the caller passes NULL.
UNCOUNTED == CELL_RANGE

(* The first node from an offset on; an error for the offset is passed on. *)
RECURSIVE NextNodeFrom(_, _, _)
NextNodeFrom(fdt, offset, depth) ==
  LET counted == depth # UNCOUNTED
      change(by) == IF counted THEN depth + by ELSE depth
      at(off, by) == [offset |-> off, depth |-> change(by)]
      from(t) ==
        CASE t.tag = FDT_BEGIN_NODE -> at(offset, 1)
          [] t.tag \in {FDT_PROP, FDT_NOP} -> NextNodeFrom(fdt, t.next, depth)
          [] t.tag = FDT_END_NODE ->
               IF counted /\ depth - 1 < 0 THEN at(t.next, -1)
               ELSE With(change(-1), LAMBDA d : NextNodeFrom(fdt, t.next, d))
          [] OTHER -> at(IF t.next >= 0 \/ (t.next = -FDT_ERR_TRUNCATED /\ ~counted)
                         THEN -FDT_ERR_NOTFOUND ELSE t.next, 0)
  IN  IF offset < 0 THEN at(offset, 0) ELSE With(fdt_next_tag(fdt, offset), from)

(* The next node in tree order, and its depth relative to the given one. *)
fdt_next_node(fdt, offset, depth) ==
  With(IF offset < 0 THEN 0 ELSE fdt_check_node_offset_(fdt, offset),
       LAMBDA start : NextNodeFrom(fdt, start, depth))

-----------------------------------------------------------------------------
(* Mutant of fdt_string_eq_: a prefix is enough. *)
fdt_string_prefix(fdt, stroffset, s) ==
  LET eq(p) == p.ptr # NOWHERE /\ p.len >= Len(s) /\ memcmp(fdt.bytes, p.ptr, s, 1, Len(s)) = 0
  IN  With(fdt_get_string(fdt, stroffset), eq)

fdt_string_eq_(fdt, stroffset, s) ==
  LET eq(p) == p.ptr # NOWHERE /\ p.len = Len(s) /\ memcmp(fdt.bytes, p.ptr, s, 1, Len(s)) = 0
  IN  With(fdt_get_string(fdt, stroffset), eq)

-----------------------------------------------------------------------------
(* The first property from an offset on, past FDT_NOPs only; the callers    *)
(* return an error for the offset.                                         *)
RECURSIVE nextprop_(_, _)
nextprop_(fdt, offset) ==
  LET from(t) == CASE t.tag = FDT_END -> IF t.next >= 0 THEN -FDT_ERR_BADSTRUCTURE ELSE t.next
                   [] t.tag = FDT_PROP -> offset
                   [] t.tag = FDT_NOP -> nextprop_(fdt, t.next)
                   [] OTHER -> -FDT_ERR_NOTFOUND
  IN  IF offset < 0 THEN offset ELSE With(fdt_next_tag(fdt, offset), from)

fdt_first_property_offset(fdt, nodeoffset) ==
  With(fdt_check_node_offset_(fdt, nodeoffset), LAMBDA start : nextprop_(fdt, start))

fdt_next_property_offset(fdt, offset) ==
  With(fdt_check_prop_offset_(fdt, offset), LAMBDA start : nextprop_(fdt, start))

(* The value of the first property of a name, from a property on. *)
RECURSIVE fdt_get_property_namelen_(_, _, _)
fdt_get_property_namelen_(fdt, offset, name) ==
  LET fail(err) == [data |-> NOWHERE, len |-> err]
  IN  IF offset < 0 THEN fail(offset)
      ELSE IF fdt_check_prop_offset_(fdt, offset) < 0 THEN fail(-FDT_ERR_INTERNAL)
      ELSE With(PropertyAt(fdt, offset), LAMBDA prop :
             IF fdt_string_eq_(fdt, prop.nameoff, name) THEN [data |-> prop.data, len |-> prop.len]
             ELSE With(fdt_next_property_offset(fdt, offset), LAMBDA next :
                    fdt_get_property_namelen_(fdt, next, name)))

(* Where and how long the value of a node's property is, or an error. *)
fdt_getprop(fdt, nodeoffset, name) ==
  With(fdt_first_property_offset(fdt, nodeoffset),
       LAMBDA first : fdt_get_property_namelen_(fdt, first, name))

(* The number in a property of one cell, or an error. *)
fdt_cells(fdt, nodeoffset, name) ==
  LET number(c) ==
        IF c.data = NOWHERE THEN c.len
        ELSE IF c.len # FDT_TAGSIZE \/ fdt32_ld_(fdt, c.data) > FDT_MAX_NCELLS
             THEN -FDT_ERR_BADNCELLS
        ELSE fdt32_ld_(fdt, c.data)
  IN  With(fdt_getprop(fdt, nodeoffset, name), number)

fdt_address_cells(fdt, nodeoffset) ==
  LET cells(val) == CASE val = 0 -> -FDT_ERR_BADNCELLS
                      [] val = -FDT_ERR_NOTFOUND -> 2
                      [] OTHER -> val
  IN  With(fdt_cells(fdt, nodeoffset, ADDRESS_CELLS), cells)

fdt_size_cells(fdt, nodeoffset) ==
  LET cells(val) == IF val = -FDT_ERR_NOTFOUND THEN 1 ELSE val
  IN  With(fdt_cells(fdt, nodeoffset, SIZE_CELLS), cells)

-----------------------------------------------------------------------------
(* The walk of fdt_supernode_atdepth_offset from a node and its depth on;   *)
(* super is the last node it has met at the depth it wants.                *)
RECURSIVE SupernodeFrom(_, _, _, _, _)
SupernodeFrom(fdt, at, nodeoffset, supernodedepth, super) ==
  LET supernode == IF at.depth = supernodedepth THEN at.offset ELSE super
      fail(err) == [offset |-> err, depth |-> UNCOUNTED]
  IN  IF at.offset = -FDT_ERR_NOTFOUND \/ at.offset > nodeoffset THEN fail(-FDT_ERR_BADOFFSET)
      ELSE IF at.offset = -FDT_ERR_BADOFFSET THEN fail(-FDT_ERR_BADSTRUCTURE)
      ELSE IF at.offset < 0 THEN fail(at.offset)
      ELSE IF at.offset < nodeoffset
      THEN With(<<fdt_next_node(fdt, at.offset, at.depth), supernode>>,
                LAMBDA next : SupernodeFrom(fdt, next[1], nodeoffset, supernodedepth, next[2]))
      ELSE [offset |-> IF supernodedepth > at.depth THEN -FDT_ERR_NOTFOUND ELSE supernode,
            depth |-> at.depth]

(* The node at a depth on the path to a node, and the depth of the latter. *)
fdt_supernode_atdepth_offset(fdt, nodeoffset, supernodedepth) ==
  LET probe == fdt_ro_probe_(fdt)
      err == IF probe < 0 THEN probe ELSE -FDT_ERR_NOTFOUND
  IN  IF probe < 0 \/ supernodedepth < 0 THEN [offset |-> err, depth |-> UNCOUNTED]
      ELSE SupernodeFrom(fdt, [offset |-> 0, depth |-> 0], nodeoffset, supernodedepth,
                         -FDT_ERR_INTERNAL)

fdt_node_depth(fdt, nodeoffset) ==
  LET below(super) == IF super.offset = 0 THEN super.depth
                      ELSE IF super.offset < 0 THEN super.offset ELSE -FDT_ERR_INTERNAL
  IN  With(fdt_supernode_atdepth_offset(fdt, nodeoffset, 0), below)

fdt_parent_offset(fdt, nodeoffset) ==
  LET above(nodedepth) ==
        IF nodedepth < 0 THEN nodedepth
        ELSE fdt_supernode_atdepth_offset(fdt, nodeoffset, nodedepth - 1).offset
  IN  With(fdt_node_depth(fdt, nodeoffset), above)

(* The first node from a node on with a property of the given value. *)
RECURSIVE WithPropFrom(_, _, _, _)
WithPropFrom(fdt, offset, propname, propval) ==
  LET same(val) == /\ val.data # NOWHERE /\ val.len = Len(propval)
                   /\ memcmp(fdt.bytes, val.data, propval, 1, val.len) = 0
  IN  IF offset < 0 \/ same(fdt_getprop(fdt, offset, propname)) THEN offset
      ELSE With(fdt_next_node(fdt, offset, UNCOUNTED),
                LAMBDA next : WithPropFrom(fdt, next.offset, propname, propval))

fdt_node_offset_by_prop_value(fdt, startoffset, propname, propval) ==
  IF fdt_ro_probe_(fdt) < 0 THEN fdt_ro_probe_(fdt)
  ELSE With(fdt_next_node(fdt, startoffset, UNCOUNTED),
            LAMBDA first : WithPropFrom(fdt, first.offset, propname, propval))

(* Is str, with its NUL, in the listlen bytes of strings from strlist on? *)
RECURSIVE fdt_stringlist_contains(_, _, _, _)
fdt_stringlist_contains(fdt, strlist, listlen, str) ==
  LET nul == memchr(fdt.bytes, strlist, 0, listlen)
  IN  /\ listlen >= Len(str)
      /\ \/ memcmp(Append(str, 0), 1, fdt.bytes, strlist, Len(str) + 1) = 0
         \/ /\ nul # NOWHERE
            /\ fdt_stringlist_contains(fdt, nul + 1, listlen - ((nul - strlist) + 1), str)

(* 0, 1 (not compatible) or an error. *)
fdt_node_check_compatible(fdt, nodeoffset, compatible) ==
  LET check(prop) ==
        IF prop.data = NOWHERE THEN prop.len
        ELSE IF fdt_stringlist_contains(fdt, prop.data, prop.len, compatible) THEN 0 ELSE 1
  IN  With(fdt_getprop(fdt, nodeoffset, COMPATIBLE), check)

(* The first node from a node on that is compatible with a device. *)
RECURSIVE CompatibleFrom(_, _, _)
CompatibleFrom(fdt, offset, compatible) ==
  LET from(err) == IF err < 0 /\ err # -FDT_ERR_NOTFOUND THEN err
                   ELSE IF err = 0 THEN offset
                   ELSE With(fdt_next_node(fdt, offset, UNCOUNTED),
                             LAMBDA next : CompatibleFrom(fdt, next.offset, compatible))
  IN  IF offset < 0 THEN offset ELSE With(fdt_node_check_compatible(fdt, offset, compatible), from)

fdt_node_offset_by_compatible(fdt, startoffset, compatible) ==
  IF fdt_ro_probe_(fdt) < 0 THEN fdt_ro_probe_(fdt)
  ELSE With(fdt_next_node(fdt, startoffset, UNCOUNTED),
            LAMBDA first : CompatibleFrom(fdt, first.offset, compatible))
=============================================================================

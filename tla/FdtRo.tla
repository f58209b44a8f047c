-------------------------------- MODULE FdtRo --------------------------------
(***************************************************************************)
(* The rest of libfdt's readers, which the kernel does not call yet:       *)
(* paths, phandles, aliases and string lists (src/libfdt/fdt_ro.c and      *)
(* fdt.c).  Strings that are passed to libfdt are sequences of bytes       *)
(* without their NUL.                                                      *)
(***************************************************************************)
EXTENDS FdtRead

FDT_ERR_NOSPACE == 3
FDT_ERR_BADPATH == 5
FDT_ERR_BADPHANDLE == 6
FDT_ERR_BADVALUE == 15
FDT_ERR_NOPHANDLES == 17

FDT_MAX_PHANDLE == CELL_RANGE - 2

(* The character '@', and the names this code asks for. *)
AT == 14
PHANDLE == <<10>>
LINUX_PHANDLE == <<12, 10>>
ALIASES == <<11, 12>>
SYMBOLS == <<11, 11>>

(* The NUL-terminated string at an address. *)
StringAt(fdt, p) == [i \in 1 .. strlen(fdt.bytes, p) |-> fdt.bytes[p + i - 1]]

-----------------------------------------------------------------------------
fdt_first_subnode(fdt, offset) ==
  LET child(n) == IF n.offset < 0 \/ n.depth # 1 THEN -FDT_ERR_NOTFOUND ELSE n.offset
  IN  With(fdt_next_node(fdt, offset, 0), child)

(* The first of the nodes from at on that is a child of the same node. *)
RECURSIVE NextSubnodeFrom(_, _)
NextSubnodeFrom(fdt, at) ==
  IF at.offset < 0 \/ at.depth < 1 THEN -FDT_ERR_NOTFOUND
  ELSE IF at.depth > 1
  THEN With(fdt_next_node(fdt, at.offset, at.depth), LAMBDA next : NextSubnodeFrom(fdt, next))
  ELSE at.offset

fdt_next_subnode(fdt, offset) ==
  With(fdt_next_node(fdt, offset, 1), LAMBDA next : NextSubnodeFrom(fdt, next))

(* Is s the name of a node?  Its unit address may be left out. *)
fdt_nodename_eq_(fdt, offset, s) ==
  LET eq(name) ==
        /\ name.ptr # NOWHERE /\ name.len >= Len(s)
        /\ memcmp(fdt.bytes, name.ptr, s, 1, Len(s)) = 0
        /\ \/ fdt.bytes[name.ptr + Len(s)] = 0
           \/ memchr(s, 1, AT, Len(s)) = NOWHERE /\ fdt.bytes[name.ptr + Len(s)] = AT
  IN  With(fdt_get_name(fdt, offset), eq)

(* The first child of a name from the node at on, which is counted relative *)
(* to the parent.                                                          *)
RECURSIVE SubnodeFrom(_, _, _)
SubnodeFrom(fdt, at, name) ==
  IF at.depth < 0 THEN -FDT_ERR_NOTFOUND
  ELSE IF at.offset < 0 THEN at.offset
  ELSE IF at.depth = 1 /\ fdt_nodename_eq_(fdt, at.offset, name) THEN at.offset
  ELSE With(fdt_next_node(fdt, at.offset, at.depth), LAMBDA next : SubnodeFrom(fdt, next, name))

fdt_subnode_offset_namelen(fdt, offset, name) ==
  IF fdt_ro_probe_(fdt) < 0 THEN fdt_ro_probe_(fdt)
  ELSE With([offset |-> offset, depth |-> 0], LAMBDA parent : SubnodeFrom(fdt, parent, name))

-----------------------------------------------------------------------------
(* The node at the path from its p-th character on, relative to a node. *)
RECURSIVE WalkPath(_, _, _, _)
WalkPath(fdt, offset, path, p) ==
  LET slashes == {i \in p .. Len(path) : path[i] = SLASH}
      q == IF slashes = {} THEN Len(path) + 1 ELSE Min(slashes)
      below(child) == IF child < 0 THEN child ELSE WalkPath(fdt, child, path, q)
  IN  IF p > Len(path) THEN offset
      ELSE IF path[p] = SLASH THEN WalkPath(fdt, offset, path, p + 1)
      ELSE With(fdt_subnode_offset_namelen(fdt, offset, SubSeq(path, p, q - 1)), below)

(* fdt_path_offset_namelen for a path that starts with a slash. *)
AbsoluteOffset(fdt, path) ==
  IF fdt_ro_probe_(fdt) < 0 THEN fdt_ro_probe_(fdt) ELSE WalkPath(fdt, 0, path, 1)

(* The property of the node at a path; the length is not set if there is    *)
(* no such node.                                                           *)
fdt_path_getprop_namelen(fdt, path, propname) ==
  LET prop(offset) == IF offset < 0 THEN [data |-> NOWHERE, len |-> 0]
                      ELSE fdt_getprop(fdt, offset, propname)
  IN  With(AbsoluteOffset(fdt, path), prop)

(* Where the path that an alias stands for is. *)
fdt_get_alias_namelen(fdt, name) ==
  LET alias(prop) ==
        IF /\ prop.data # NOWHERE /\ prop.len > 0
           /\ fdt.bytes[prop.data + prop.len - 1] = 0 /\ fdt.bytes[prop.data] = SLASH
        THEN prop.data ELSE NOWHERE
  IN  With(fdt_path_getprop_namelen(fdt, <<SLASH>> \o ALIASES, name), alias)

fdt_get_symbol_namelen(fdt, name) ==
  fdt_path_getprop_namelen(fdt, <<SLASH>> \o SYMBOLS, name).data

(* A path starts with a slash or with an alias. *)
fdt_path_offset_namelen(fdt, path) ==
  LET slashes == {i \in 1 .. Len(path) : path[i] = SLASH}
      q == IF slashes = {} THEN Len(path) + 1 ELSE Min(slashes)
      from(alias) == IF alias = NOWHERE THEN -FDT_ERR_BADPATH
                     ELSE WalkPath(fdt, AbsoluteOffset(fdt, StringAt(fdt, alias)), path, q)
  IN  IF fdt_ro_probe_(fdt) < 0 THEN fdt_ro_probe_(fdt)
      ELSE IF path = <<>> THEN -FDT_ERR_BADPATH
      ELSE IF path[1] = SLASH THEN AbsoluteOffset(fdt, path)
      ELSE With(fdt_get_alias_namelen(fdt, SubSeq(path, 1, q - 1)), from)

(* Mutant of PopNames: leaves the name that is to be replaced. *)
PopTooFew(buf, n) == buf

(* A path that ends with a slash without its last n names. *)
RECURSIVE PopNames(_, _)
PopNames(buf, n) ==
  IF n <= 0 THEN buf
  ELSE PopNames(SubSeq(buf, 1, Max({i \in 1 .. Len(buf) - 1 : buf[i] = SLASH})), n - 1)

(* The walk of fdt_get_path from the node at on; buf holds the path to the  *)
(* last node that fitted, pdepth the number of its names.                  *)
RECURSIVE PathFrom(_, _, _, _, _, _)
PathFrom(fdt, at, nodeoffset, buflen, buf, pdepth) ==
  LET fail(err) == [err |-> err, path |-> <<>>]
      named(name, kept, depth) ==
        IF depth < at.depth \/ Len(kept) + name.len + 1 > buflen
        THEN [path |-> kept, depth |-> depth]
        ELSE [path |-> (kept \o StringAt(fdt, name.ptr)) \o <<SLASH>>, depth |-> depth + 1]
      done(name, p) ==
        IF pdepth >= at.depth /\ name.ptr = NOWHERE THEN fail(name.len)
        ELSE IF at.offset < nodeoffset
        THEN With(fdt_next_node(fdt, at.offset, at.depth),
                  LAMBDA next : PathFrom(fdt, next, nodeoffset, buflen, p.path, p.depth))
        ELSE IF p.depth < at.depth + 1 THEN fail(-FDT_ERR_NOSPACE)
        ELSE [err |-> 0,
              path |-> IF Len(p.path) > 1 THEN SubSeq(p.path, 1, Len(p.path) - 1) ELSE p.path]
      here(name) == With(named(name, PopNames(buf, pdepth - at.depth),
                               IF pdepth > at.depth THEN at.depth ELSE pdepth),
                         LAMBDA p : done(name, p))
  IN  IF at.offset = -FDT_ERR_NOTFOUND \/ at.offset > nodeoffset THEN fail(-FDT_ERR_BADOFFSET)
      ELSE IF at.offset = -FDT_ERR_BADOFFSET THEN fail(-FDT_ERR_BADSTRUCTURE)
      ELSE IF at.offset < 0 THEN fail(at.offset)
      ELSE With(fdt_get_name(fdt, at.offset), here)

(* The full path of a node, in a buffer of buflen bytes. *)
fdt_get_path(fdt, nodeoffset, buflen) ==
  LET probe == fdt_ro_probe_(fdt)
      err == IF probe < 0 THEN probe ELSE -FDT_ERR_NOSPACE
  IN  IF probe < 0 \/ buflen < 2 THEN [err |-> err, path |-> <<>>]
      ELSE PathFrom(fdt, [offset |-> 0, depth |-> 0], nodeoffset, buflen, <<>>, 0)

-----------------------------------------------------------------------------
(* Mutant of fdt_get_phandle: a value of any size is taken. *)
fdt_get_phandle_any(fdt, nodeoffset) ==
  LET value(php, otherwise) == IF php.data = NOWHERE THEN otherwise ELSE fdt32_ld_(fdt, php.data)
  IN  value(fdt_getprop(fdt, nodeoffset, PHANDLE),
            value(fdt_getprop(fdt, nodeoffset, LINUX_PHANDLE), 0))

(* A node's phandle, 0 if it has none. *)
fdt_get_phandle(fdt, nodeoffset) ==
  LET value(php, otherwise) ==
        IF php.data = NOWHERE \/ php.len # FDT_TAGSIZE THEN otherwise ELSE fdt32_ld_(fdt, php.data)
  IN  value(fdt_getprop(fdt, nodeoffset, PHANDLE),
            value(fdt_getprop(fdt, nodeoffset, LINUX_PHANDLE), 0))

RECURSIVE MaxPhandleFrom(_, _, _)
MaxPhandleFrom(fdt, offset, max) ==
  IF offset = -FDT_ERR_NOTFOUND THEN [err |-> 0, phandle |-> max]
  ELSE IF offset < 0 THEN [err |-> offset, phandle |-> 0]
  ELSE With(<<fdt_next_node(fdt, offset, UNCOUNTED).offset, Max({max, fdt_get_phandle(fdt, offset)})>>,
            LAMBDA next : MaxPhandleFrom(fdt, next[1], next[2]))

fdt_find_max_phandle(fdt) ==
  With(fdt_next_node(fdt, -1, UNCOUNTED), LAMBDA root : MaxPhandleFrom(fdt, root.offset, 0))

fdt_generate_phandle(fdt) ==
  LET above(max) == IF max.err < 0 THEN max
                    ELSE IF max.phandle = FDT_MAX_PHANDLE
                    THEN [err |-> -FDT_ERR_NOPHANDLES, phandle |-> 0]
                    ELSE [err |-> 0, phandle |-> UInt(max.phandle + 1)]
  IN  With(fdt_find_max_phandle(fdt), above)

RECURSIVE WithPhandleFrom(_, _, _)
WithPhandleFrom(fdt, offset, phandle) ==
  IF offset < 0 \/ fdt_get_phandle(fdt, offset) = phandle THEN offset
  ELSE With(fdt_next_node(fdt, offset, UNCOUNTED),
            LAMBDA next : WithPhandleFrom(fdt, next.offset, phandle))

fdt_node_offset_by_phandle(fdt, phandle) ==
  IF phandle = 0 \/ phandle = CELL_RANGE - 1 THEN -FDT_ERR_BADPHANDLE
  ELSE IF fdt_ro_probe_(fdt) < 0 THEN fdt_ro_probe_(fdt)
  ELSE With(fdt_next_node(fdt, -1, UNCOUNTED), LAMBDA root : WithPhandleFrom(fdt, root.offset, phandle))

(* The n-th entry of the memory reservation map: its bytes, or an error. *)
fdt_get_mem_rsv(fdt, n) ==
  LET at(re) == IF re = NOWHERE THEN [err |-> -FDT_ERR_BADOFFSET, entry |-> <<>>]
                ELSE [err |-> 0, entry |-> [i \in 1 .. RESERVE_SIZE |-> fdt.bytes[re + i - 1]]]
  IN  IF fdt_ro_probe_(fdt) < 0 THEN [err |-> fdt_ro_probe_(fdt), entry |-> <<>>]
      ELSE With(fdt_mem_rsv(fdt, n), at)

-----------------------------------------------------------------------------
(* The loop of the string list functions: the strings between two           *)
(* addresses, and whether the last one is not terminated.                  *)
RECURSIVE StringsFrom(_, _, _, _)
StringsFrom(fdt, list, end, strings) ==
  LET length == strnlen(fdt.bytes, list, end - list) + 1
  IN  IF list >= end THEN [strings |-> strings, bad |-> FALSE]
      ELSE IF list + length > end THEN [strings |-> strings, bad |-> TRUE]
      ELSE StringsFrom(fdt, list + length, end,
                       Append(strings, [ptr |-> list, len |-> length - 1]))

StringsOf(fdt, prop) == StringsFrom(fdt, prop.data, prop.data + prop.len, <<>>)

fdt_stringlist_count(fdt, nodeoffset, property) ==
  LET count(all) == IF all.bad THEN -FDT_ERR_BADVALUE ELSE Len(all.strings)
      in(prop) == IF prop.data = NOWHERE THEN prop.len ELSE With(StringsOf(fdt, prop), count)
  IN  With(fdt_getprop(fdt, nodeoffset, property), in)

(* Index of a string in the list. *)
fdt_stringlist_search(fdt, nodeoffset, property, string) ==
  LET same(s) == s.len = Len(string) /\ memcmp(fdt.bytes, s.ptr, Append(string, 0), 1, s.len + 1) = 0
      search(all, found) ==
        IF found # {} THEN Min(found) - 1
        ELSE IF all.bad THEN -FDT_ERR_BADVALUE ELSE -FDT_ERR_NOTFOUND
      among(all) == search(all, {i \in DOMAIN all.strings : same(all.strings[i])})
      in(prop) == IF prop.data = NOWHERE THEN prop.len ELSE With(StringsOf(fdt, prop), among)
  IN  With(fdt_getprop(fdt, nodeoffset, property), in)

(* The string of an index: where it is and its length, or an error. *)
fdt_stringlist_get(fdt, nodeoffset, property, idx) ==
  LET fail(err) == [ptr |-> NOWHERE, len |-> err]
      among(all) == IF idx + 1 \in DOMAIN all.strings THEN all.strings[idx + 1]
                    ELSE fail(IF all.bad THEN -FDT_ERR_BADVALUE ELSE -FDT_ERR_NOTFOUND)
      in(prop) == IF prop.data = NOWHERE THEN fail(prop.len) ELSE With(StringsOf(fdt, prop), among)
  IN  With(fdt_getprop(fdt, nodeoffset, property), in)
=============================================================================

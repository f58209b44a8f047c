------------------------------ MODULE FdtOverlay -----------------------------
(***************************************************************************)
(* src/libfdt/fdt_overlay.c: an overlay fdto is merged into a tree fdt.    *)
(* The functions work on the bytes of both trees; each returns its result  *)
(* and the tree that it changes.  Loops over the nodes or properties of    *)
(* fdto list their offsets first, because fdto is changed in place only.   *)
(***************************************************************************)
EXTENDS FdtWrite, SequencesExt

FDT_ERR_BADOVERLAY == 16

(* The characters ':' and '0', and the names this code asks for. *)
COLON == 13
ZERO == 20
OVERLAY == <<11, 16>>
FIXUPS == <<11, 17>>
LOCAL_FIXUPS == <<11, 18>>
TARGET == <<19>>
TARGET_PATH == <<19, 17>>

\* The phandle (uint32_t)-1.
NO_PHANDLE == CELL_RANGE - 1

(* The next call, unless one has failed before. *)
Then(result, Call(_)) == With(result, LAMBDA r : IF r.err # 0 THEN r ELSE Call(r.fdt))

(* A loop over items that changes a tree and ends at the first error. *)
ForEach(items, tree, Call(_, _)) ==
  FoldLeft(LAMBDA result, x : Then(result, LAMBDA f : Call(f, x)), Done(tree), items)

RECURSIVE PropertiesFrom(_, _)
PropertiesFrom(fdt, property) ==
  IF property < 0 THEN <<>>
  ELSE <<property>> \o With(fdt_next_property_offset(fdt, property), LAMBDA next : PropertiesFrom(fdt, next))

(* Offsets of all properties, and of all subnodes, of a node. *)
Properties(fdt, node) == With(fdt_first_property_offset(fdt, node), LAMBDA first : PropertiesFrom(fdt, first))

RECURSIVE SubnodesFrom(_, _)
SubnodesFrom(fdt, node) ==
  IF node < 0 THEN <<>>
  ELSE <<node>> \o With(fdt_next_subnode(fdt, node), LAMBDA next : SubnodesFrom(fdt, next))

Subnodes(fdt, node) == With(fdt_first_subnode(fdt, node), LAMBDA first : SubnodesFrom(fdt, first))

NodeName(fdt, node) == StringAt(fdt, fdt_get_name(fdt, node).ptr)

(* A failed search is a mistake of the overlay. *)
Mistake(err) == IF err = -FDT_ERR_NOTFOUND THEN -FDT_ERR_BADOVERLAY ELSE err

-----------------------------------------------------------------------------
(* 0 if a fragment has no target phandle. *)
overlay_get_target_phandle(fdto, fragment) ==
  LET of(val) == IF val.data = NOWHERE THEN 0
                 ELSE IF val.len # FDT_TAGSIZE THEN NO_PHANDLE ELSE fdt32_ld_(fdto, val.data)
  IN  With(fdt_getprop(fdto, fragment, TARGET), of)

(* The node of fdt that a fragment is for, or an error, and where the path  *)
(* is by which the fragment names it.                                      *)
fdt_overlay_target_offset(fdt, fdto, fragment) ==
  With(overlay_get_target_phandle(fdto, fragment), LAMBDA phandle :
    CASE phandle = NO_PHANDLE -> [offset |-> -FDT_ERR_BADPHANDLE, path |-> NOWHERE]
      [] phandle = 0 ->
           With(fdt_getprop(fdto, fragment, TARGET_PATH), LAMBDA path :
             IF path.data = NOWHERE THEN [offset |-> Mistake(path.len), path |-> NOWHERE]
             ELSE [offset |-> fdt_path_offset_namelen(fdt, StringAt(fdto, path.data)), path |-> path.data])
      [] OTHER -> [offset |-> fdt_node_offset_by_phandle(fdt, phandle), path |-> NOWHERE])

-----------------------------------------------------------------------------
(* Mutant of overlay_phandle_add_offset: the sum may wrap. *)
overlay_phandle_add_wrapping(fdt, node, name, delta) ==
  LET at(p) == IF p.data = NOWHERE THEN Fail(fdt, p.len)
               ELSE IF p.len # FDT_TAGSIZE THEN Fail(fdt, -FDT_ERR_BADPHANDLE)
               ELSE Done(Put(fdt, p.data, cpu_to_fdt32(UInt(fdt32_ld_(fdt, p.data) + delta))))
  IN  With(fdt_getprop(fdt, node, name), at)

overlay_phandle_add_offset(fdt, node, name, delta) ==
  LET sum(p, val) == IF UInt(val + delta) < val \/ UInt(val + delta) = NO_PHANDLE
                     THEN Fail(fdt, -FDT_ERR_NOPHANDLES)
                     ELSE Done(Put(fdt, p.data, cpu_to_fdt32(val + delta)))
      at(p) == IF p.data = NOWHERE THEN Fail(fdt, p.len)
               ELSE IF p.len # FDT_TAGSIZE THEN Fail(fdt, -FDT_ERR_BADPHANDLE)
               ELSE With(fdt32_ld_(fdt, p.data), LAMBDA val : sum(p, val))
  IN  With(fdt_getprop(fdt, node, name), at)

RECURSIVE overlay_adjust_node_phandles(_, _, _)
overlay_adjust_node_phandles(fdto, node, delta) ==
  LET add(f, name) == With(overlay_phandle_add_offset(f, node, name, delta),
                           LAMBDA r : IF r.err = -FDT_ERR_NOTFOUND THEN Done(f) ELSE r)
      children(f) == ForEach(Subnodes(f, node), f,
                             LAMBDA g, child : overlay_adjust_node_phandles(g, child, delta))
  IN  Then(Then(add(fdto, PHANDLE), LAMBDA f : add(f, LINUX_PHANDLE)), children)

overlay_adjust_local_phandles(fdto, delta) == overlay_adjust_node_phandles(fdto, 0, delta)

(* Replaces the references to local nodes below tree_node, whose places     *)
(* are in the properties below fixup_node, by change[reference]: the walk  *)
(* of overlay_update_local_node_references and of                          *)
(* overlay_update_node_conflicting_references.                             *)
RECURSIVE UpdateReferences(_, _, _, _)
UpdateReferences(fdto, tree_node, fixup_node, change) ==
  LET store(f, refp) == Done(Put(f, refp, cpu_to_fdt32(change[fdt32_ld_(f, refp)])))
      cells(f, fixup, tree_val) ==
        ForEach([i \in 1 .. fixup.len \div FDT_TAGSIZE |-> fixup.data + ((i - 1) * FDT_TAGSIZE)], f,
                LAMBDA g, cell : store(g, tree_val + fdt32_ld_(g, cell)))
      in(f, fixup, tree) == IF tree.data = NOWHERE THEN Fail(f, Mistake(tree.len))
                            ELSE cells(f, fixup, tree.data)
      of(f, fixup) ==
        IF fixup.data = NOWHERE THEN Fail(f, fixup.len)
        ELSE IF fixup.len % FDT_TAGSIZE # 0 THEN Fail(f, -FDT_ERR_BADOVERLAY)
        ELSE With(fdt_getprop(f, tree_node, StringAt(f, fixup.name)), LAMBDA tree : in(f, fixup, tree))
      property(f, fixup_prop) == With(fdt_getprop_by_offset(f, fixup_prop), LAMBDA fixup : of(f, fixup))
      below(f, tree_child, fixup_child) ==
        IF tree_child < 0 THEN Fail(f, Mistake(tree_child))
        ELSE UpdateReferences(f, tree_child, fixup_child, change)
      subnode(f, fixup_child) ==
        With(fdt_subnode_offset_namelen(f, tree_node, NodeName(f, fixup_child)),
             LAMBDA tree_child : below(f, tree_child, fixup_child))
  IN  Then(ForEach(Properties(fdto, fixup_node), fdto, property),
           LAMBDA f : ForEach(Subnodes(f, fixup_node), f, subnode))

(* All references of the overlay, if there are any. *)
UpdateAllReferences(fdto, change) ==
  LET from(fixups) == CASE fixups = -FDT_ERR_NOTFOUND -> Done(fdto)
                        [] fixups < 0 /\ fixups # -FDT_ERR_NOTFOUND -> Fail(fdto, fixups)
                        [] OTHER -> UpdateReferences(fdto, 0, fixups, change)
  IN  With(fdt_path_offset_namelen(fdto, <<SLASH>> \o LOCAL_FIXUPS), from)

overlay_update_local_references(fdto, delta) ==
  UpdateAllReferences(fdto, [ref \in 0 .. CELL_RANGE - 1 |-> UInt(ref + delta)])

overlay_update_local_conflicting_references(fdto, fdt_phandle, fdto_phandle) ==
  UpdateAllReferences(fdto, [ref \in 0 .. CELL_RANGE - 1 |-> IF ref = fdto_phandle THEN fdt_phandle ELSE ref])

-----------------------------------------------------------------------------
(* strtoul, of another library: the number that a string of digits stands   *)
(* for.                                                                    *)
IsNumber(s) == s # <<>> /\ \A i \in DOMAIN s : s[i] \in ZERO .. ZERO + 9
strtoul(s) == FoldLeft(LAMBDA n, digit : (10 * n) + (digit - ZERO), 0, s)

overlay_fixup_one_phandle(fdto, symbols_off, path, name, poffset, phandle) ==
  LET at(fixup_off) ==
        IF fixup_off < 0 THEN Fail(fdto, Mistake(fixup_off))
        ELSE fdt_setprop_inplace_namelen_partial(fdto, fixup_off, name, poffset, cpu_to_fdt32(phandle))
  IN  IF symbols_off < 0 THEN Fail(fdto, symbols_off) ELSE With(fdt_path_offset_namelen(fdto, path), at)

(* One string of a property of __fixups__: a path, a property's name and    *)
(* an offset into its value, with colons between them.                     *)
FixupString(fdto, symbols_off, s, phandle) ==
  LET colons == {i \in DOMAIN s : s[i] = COLON}
      first == Min(colons)
      second == Min(colons \ {first})
      poffset == SubSeq(s, second + 1, Len(s))
  IN  IF Cardinality(colons) < 2 THEN Fail(fdto, -FDT_ERR_BADOVERLAY)
      ELSE IF second = first + 1 \/ ~IsNumber(poffset) THEN Fail(fdto, -FDT_ERR_BADOVERLAY)
      ELSE overlay_fixup_one_phandle(fdto, symbols_off, SubSeq(s, 1, first - 1),
                                     SubSeq(s, first + 1, second - 1), strtoul(poffset), phandle)

(* The strings of a property from an address on. *)
RECURSIVE FixupStrings(_, _, _, _, _)
FixupStrings(fdto, symbols_off, value, len, phandle) ==
  LET fixup_end == memchr(fdto.bytes, value, 0, len)
      fixup_len == fixup_end - value
      rest(f) == IF len - (fixup_len + 1) <= 0 THEN Done(f)
                 ELSE FixupStrings(f, symbols_off, fixup_end + 1, len - (fixup_len + 1), phandle)
  IN  IF fixup_end = NOWHERE THEN Fail(fdto, -FDT_ERR_BADOVERLAY)
      ELSE Then(FixupString(fdto, symbols_off, StringAt(fdto, value), phandle), rest)

(* The references to one label of fdt. *)
overlay_fixup_phandle(fdt, fdto, symbols_off, property) ==
  With(fdt_getprop_by_offset(fdto, property), LAMBDA prop :
    IF prop.data = NOWHERE
    THEN Fail(fdto, IF prop.len = -FDT_ERR_NOTFOUND THEN -FDT_ERR_INTERNAL ELSE prop.len)
    ELSE With(fdt_getprop(fdt, symbols_off, StringAt(fdto, prop.name)), LAMBDA symbol_path :
      IF symbol_path.data = NOWHERE THEN Fail(fdto, symbol_path.len)
      ELSE With(fdt_path_offset_namelen(fdt, StringAt(fdt, symbol_path.data)), LAMBDA symbol_off :
        IF symbol_off < 0 THEN Fail(fdto, symbol_off)
        ELSE With(fdt_get_phandle(fdt, symbol_off), LAMBDA phandle :
          IF phandle = 0 THEN Fail(fdto, -FDT_ERR_NOTFOUND)
          ELSE FixupStrings(fdto, symbols_off, prop.data, prop.len, phandle)))))

overlay_fixup_phandles(fdt, fdto) ==
  With(fdt_path_offset_namelen(fdto, <<SLASH>> \o FIXUPS), LAMBDA fixups_off :
    IF fixups_off = -FDT_ERR_NOTFOUND THEN Done(fdto)
    ELSE IF fixups_off < 0 THEN Fail(fdto, fixups_off)
    ELSE With(fdt_path_offset_namelen(fdt, <<SLASH>> \o SYMBOLS), LAMBDA symbols_off :
      IF symbols_off < 0 /\ symbols_off # -FDT_ERR_NOTFOUND THEN Fail(fdto, symbols_off)
      ELSE ForEach(Properties(fdto, fixups_off), fdto,
                   LAMBDA f, property : overlay_fixup_phandle(fdt, f, symbols_off, property))))

-----------------------------------------------------------------------------
overlay_adjust_local_conflicting_phandle(fdto, node, fdt_phandle) ==
  LET set(f, name) ==
        With(fdt_getprop(f, node, name),
             LAMBDA php : IF php.data # NOWHERE /\ php.len = FDT_TAGSIZE
                          THEN fdt_setprop_inplace(f, node, name, cpu_to_fdt32(fdt_phandle)) ELSE Done(f))
  IN  Then(set(fdto, PHANDLE), LAMBDA f : set(f, LINUX_PHANDLE))

(* A node that fdt has already keeps its phandle there. *)
RECURSIVE overlay_prevent_phandle_overwrite_node(_, _, _, _)
overlay_prevent_phandle_overwrite_node(fdt, fdtnode, fdto, fdtonode) ==
  Then(With(<<fdt_get_phandle(fdt, fdtnode), fdt_get_phandle(fdto, fdtonode)>>, LAMBDA phandles :
         IF 0 \in {phandles[1], phandles[2]} THEN Done(fdto)
         ELSE Then(overlay_adjust_local_conflicting_phandle(fdto, fdtonode, phandles[1]), LAMBDA f :
                overlay_update_local_conflicting_references(f, phandles[1], phandles[2]))),
       LAMBDA f :
         ForEach(Subnodes(f, fdtonode), f, LAMBDA g, fdtochild :
           With(fdt_subnode_offset_namelen(fdt, fdtnode, NodeName(g, fdtochild)), LAMBDA fdtchild :
             IF fdtchild = -FDT_ERR_NOTFOUND THEN Done(g)
             ELSE overlay_prevent_phandle_overwrite_node(fdt, fdtchild, g, fdtochild))))

overlay_prevent_phandle_overwrite(fdt, fdto) ==
  ForEach(Subnodes(fdto, 0), fdto, LAMBDA f, fragment :
    With(fdt_subnode_offset_namelen(f, fragment, OVERLAY), LAMBDA overlay :
      IF overlay = -FDT_ERR_NOTFOUND THEN Done(f)
      ELSE IF overlay < 0 THEN Fail(f, overlay)
      ELSE With(fdt_overlay_target_offset(fdt, f, fragment).offset, LAMBDA target :
        IF target = -FDT_ERR_NOTFOUND THEN Done(f)
        ELSE IF target < 0 THEN Fail(f, target)
        ELSE overlay_prevent_phandle_overwrite_node(fdt, target, f, overlay))))

-----------------------------------------------------------------------------
(* Merges a node of fdto into a node of fdt: properties, then subnodes. *)
RECURSIVE overlay_apply_node(_, _, _, _)
overlay_apply_node(fdt, target, fdto, node) ==
  LET value(prop) == [i \in 1 .. prop.len |-> fdto.bytes[prop.data + i - 1]]
      Internal(err) == IF err = -FDT_ERR_NOTFOUND THEN -FDT_ERR_INTERNAL ELSE err
  IN  Then(ForEach(Properties(fdto, node), fdt, LAMBDA f, property :
             With(fdt_getprop_by_offset(fdto, property), LAMBDA prop :
               IF prop.len < 0 THEN Fail(f, Internal(prop.len))
               ELSE fdt_setprop(f, target, StringAt(fdto, prop.name), value(prop)))),
           LAMBDA f :
             ForEach(Subnodes(fdto, node), f, LAMBDA g, subnode :
               With(fdt_add_subnode_namelen(g, target, NodeName(fdto, subnode)), LAMBDA added :
                 With(IF added.err # -FDT_ERR_EXISTS THEN added.err
                      ELSE Internal(fdt_subnode_offset_namelen(g, target, NodeName(fdto, subnode))),
                      LAMBDA nnode : IF nnode < 0 THEN Fail(added.fdt, nnode)
                                     ELSE overlay_apply_node(added.fdt, nnode, fdto, subnode)))))

overlay_merge(fdt, fdto) ==
  ForEach(Subnodes(fdto, 0), fdt, LAMBDA f, fragment :
    With(fdt_subnode_offset_namelen(fdto, fragment, OVERLAY), LAMBDA overlay :
      IF overlay = -FDT_ERR_NOTFOUND THEN Done(f)
      ELSE IF overlay < 0 THEN Fail(f, overlay)
      ELSE With(fdt_overlay_target_offset(f, fdto, fragment).offset, LAMBDA target :
        IF target < 0 THEN Fail(f, target) ELSE overlay_apply_node(f, target, fdto, overlay))))

-----------------------------------------------------------------------------
(* The length of a node's path, len being that of what is below. *)
RECURSIVE PathLenFrom(_, _, _)
PathLenFrom(fdt, nodeoffset, len) ==
  LET above(parent, namelen) == IF parent < 0 THEN parent ELSE PathLenFrom(fdt, parent, len + namelen + 1)
      of(name) == IF name.ptr = NOWHERE THEN name.len
                  ELSE IF name.len = 0 THEN (IF len = 0 THEN 1 ELSE len)
                  ELSE With(fdt_parent_offset(fdt, nodeoffset), LAMBDA parent : above(parent, name.len))
  IN  With(fdt_get_name(fdt, nodeoffset), of)

get_path_len(fdt, nodeoffset) ==
  IF fdt_ro_probe_(fdt) < 0 THEN fdt_ro_probe_(fdt) ELSE PathLenFrom(fdt, nodeoffset, 0)

(* Mutant of TargetPath: the target is where it was. *)
TargetPathStale(fdt, fdto, fragment, target, len) == fdt_get_path(fdt, target, len + 1)

(* The path of a fragment's target, of len bytes.  The new property of the  *)
(* symbol may have moved the target, so that it is looked up again.        *)
TargetPath(fdt, fdto, fragment, target, len) ==
  With(fdt_overlay_target_offset(fdt, fdto, fragment).offset, LAMBDA again :
    IF again < 0 THEN [err |-> again, path |-> <<>>]
    ELSE IF len <= 1 THEN [err |-> 0, path |-> <<>>]
    ELSE fdt_get_path(fdt, again, len + 1))

(* Sets a symbol of fdt to the path of a fragment's target, which the       *)
(* fragment has or which is found by the target's offset, and a path       *)
(* relative to it.                                                         *)
SetSymbol(fdt, fdto, fragment, target, root_sym, name, rel_path) ==
  With(IF target.path = NOWHERE THEN get_path_len(fdt, target.offset)
       ELSE strlen(fdto.bytes, target.path), LAMBDA len :
    IF len < 0 THEN Fail(fdt, len)
    ELSE With(fdt_setprop_placeholder_namelen(fdt, root_sym, name,
                                              len + (IF len > 1 THEN 1 ELSE 0) + Len(rel_path) + 1), LAMBDA r :
      IF r.err < 0 THEN Fail(r.fdt, r.err)
      ELSE With(IF target.path = NOWHERE THEN TargetPath(r.fdt, fdto, fragment, target.offset, len)
                ELSE [err |-> 0, path |-> IF len > 1 THEN StringAt(fdto, target.path) ELSE <<>>], LAMBDA at :
        IF at.err < 0 THEN Fail(r.fdt, at.err)
        ELSE Done(Put(r.fdt, r.ptr, (at.path \o <<SLASH>>) \o Append(rel_path, 0))))))

(* One symbol of the overlay, /<fragment>/__overlay__[/<relative path>].    *)
(* Any other path is not merged, so that its symbol is left out.           *)
SymbolUpdate(fdt, fdto, root_sym, prop) ==
  LET path == StringAt(fdto, prop.data)
      slashes == {i \in 2 .. Len(path) : path[i] = SLASH}
      s == Min(slashes)
      inside == SubSeq(path, s, Len(path))
      prefix == <<SLASH>> \o OVERLAY
      rel_path == SubSeq(inside, Len(prefix) + 2, Len(inside))
  IN  IF prop.data = NOWHERE THEN Fail(fdt, prop.len)
      ELSE IF prop.len < 1 \/ memchr(fdto.bytes, prop.data, 0, prop.len) # prop.data + prop.len - 1
              \/ fdto.bytes[prop.data] # SLASH
      THEN Fail(fdt, -FDT_ERR_BADVALUE)
      ELSE IF slashes = {} THEN Done(fdt)
      ELSE IF inside # prefix /\ ~IsPrefix(Append(prefix, SLASH), inside) THEN Done(fdt)
      ELSE With(fdt_subnode_offset_namelen(fdto, 0, SubSeq(path, 2, s - 1)), LAMBDA fragment :
        IF fragment < 0 \/ fdt_subnode_offset_namelen(fdto, fragment, OVERLAY) < 0
        THEN Fail(fdt, -FDT_ERR_BADOVERLAY)
        ELSE With(fdt_overlay_target_offset(fdt, fdto, fragment), LAMBDA target :
          IF target.offset < 0 THEN Fail(fdt, target.offset)
          ELSE SetSymbol(fdt, fdto, fragment, target, root_sym, StringAt(fdto, prop.name), rel_path)))

overlay_symbol_update(fdt, fdto) ==
  With(fdt_subnode_offset_namelen(fdto, 0, SYMBOLS), LAMBDA ov_sym :
    IF ov_sym < 0 THEN Done(fdt)
    ELSE With(With(fdt_subnode_offset_namelen(fdt, 0, SYMBOLS), LAMBDA root_sym :
                IF root_sym # -FDT_ERR_NOTFOUND THEN [err |-> root_sym, fdt |-> fdt]
                ELSE fdt_add_subnode_namelen(fdt, 0, SYMBOLS)), LAMBDA root :
      IF root.err < 0 THEN root
      ELSE ForEach(Properties(fdto, ov_sym), root.fdt, LAMBDA f, prop :
             With(fdt_getprop_by_offset(fdto, prop), LAMBDA p : SymbolUpdate(f, fdto, root.err, p)))))
=============================================================================

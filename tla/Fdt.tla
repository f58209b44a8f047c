--------------------------------- MODULE Fdt ---------------------------------
(***************************************************************************)
(* The kernel and its device tree: once check_device_tree has accepted it   *)
(* (FdtCheck), discover_clint and detect_memory look up nodes in it.       *)
(* DeviceTree, Memory and Boot start from what libfdt answers about a      *)
(* node; here the answers are computed from the bytes of the tree.         *)
(***************************************************************************)
EXTENDS FdtRo, FdtCheck, SequencesExt

(* The value of device_type, with its NUL, and the CLINT's compatible string. *)
MEMORY == <<6, 0>>
CLINT == <<7>>

VARIABLES
  search,       \* the search that is next, "clint" or "memory"; "done" or "failed" when
                \* detect_memory has returned 0 or -1
  clint_node,   \* of discover_clint
  found,        \* the nodes detect_memory has visited
  last          \* what the search that ended detect_memory's loop returned

searchVars == <<search, clint_node, found, last>>
vars == <<checkVars, searchVars>>

Init ==
  /\ CheckInit
  /\ search = "clint"
  /\ clint_node = -FDT_ERR_NOTFOUND
  /\ found = <<>>
  /\ last = 0

(* The search of discover_clint. *)
discover_clint ==
  /\ pc = "ok" /\ search = "clint"
  /\ clint_node' = fdt_node_offset_by_compatible(fdt, -1, CLINT)
  /\ search' = "memory"
  /\ UNCHANGED <<checkVars, found, last>>

(* What parse_reg returns for a node if it fails, and 0 otherwise. *)
RegError(node) ==
  LET first(errors) == IF errors = <<>> THEN 0 ELSE Head(errors)
      answers(parent) == <<fdt_getprop(fdt, node, REG).len, parent,
                           fdt_address_cells(fdt, parent), fdt_size_cells(fdt, parent)>>
  IN  first(SelectSeq(answers(fdt_parent_offset(fdt, node)), LAMBDA answer : answer < 0))

(* The next search of detect_memory's loop, and the test whether            *)
(* extract_ram_region_info returns -1 for the node it finds.  No tree here  *)
(* has more memory nodes than MAX_MEM_REGIONS, and the assertion on the    *)
(* size is left to Memory.                                                 *)
detect_memory ==
  /\ pc = "ok" /\ search = "memory"
  /\ LET start == IF found = <<>> THEN -1 ELSE found[Len(found)]
         visit(node) ==
           \/ /\ node >= 0
              /\ found' = Append(found, node)
              /\ search' = IF RegError(node) = -FDT_ERR_NOTFOUND THEN "failed" ELSE search
              /\ UNCHANGED last
           \/ node < 0 /\ last' = node /\ search' = "done" /\ UNCHANGED found
     IN  visit(fdt_node_offset_by_prop_value(fdt, start, DEVICE_TYPE, MEMORY))
  /\ UNCHANGED <<checkVars, clint_node>>

Searched == search \in {"done", "failed"}

(* The kernel has panicked, goes on with its boot, or loops for ever. *)
Finished ==
  /\ Searched \/ pc \in {"refused", "spinning"}
  /\ UNCHANGED vars

Next ==
  \/ CheckNext /\ UNCHANGED searchVars
  \/ discover_clint \/ detect_memory
  \/ Finished

Spec == Init /\ [][Next]_vars

(* What libfdt answers parse_reg about a node, as DeviceTree has it. *)
NodeAt(node) ==
  LET cells(reg) == FDT_TAGALIGN(reg.len) \div FDT_TAGSIZE
      answers(reg, parent) ==
        [len |-> IF reg.len < 0 THEN reg.len ELSE cells(reg),
         cells |-> [i \in 1 .. cells(reg) |-> fdt32_ld_(fdt, reg.data + ((i - 1) * FDT_TAGSIZE))],
         parent |-> parent,
         address_cells |-> fdt_address_cells(fdt, parent),
         size_cells |-> fdt_size_cells(fdt, parent)]
  IN  answers(fdt_getprop(fdt, node, REG), fdt_parent_offset(fdt, node))

-----------------------------------------------------------------------------
(* Reference definitions, on the sequence of tags.                         *)
(* The node that encloses a node: the last one before it that is one level up. *)
Enclosing(i) == {j \in Nodes : j < i /\ OpenBehind(j) = OpenBehind(i) - 1}
ParentOffset(i) == IF Enclosing(i) = {} THEN -FDT_ERR_NOTFOUND ELSE tags[Max(Enclosing(i))].offset

(* The bytes from address p on are s. *)
BytesAre(p, s) == \A j \in 1 .. Len(s) : p + j - 1 \in DOMAIN fdt.bytes /\ fdt.bytes[p + j - 1] = s[j]

(* The properties of the i-th tag, a node, that have a name: positions in tags. *)
PropsNamed(i, name) ==
  {k \in i + 1 .. Len(tags) :
     /\ tags[k].tag = FDT_PROP
     /\ \A j \in i + 1 .. k : tags[j].tag \in {FDT_PROP, FDT_NOP}
     /\ BytesAre(fdt.off_dt_strings + Number(fdt, fdt.off_dt_struct + tags[k].offset + 4), Append(name, 0))}

HasProp(i, name) == PropsNamed(i, name) # {}

(* Length of the value of a property, and where the value is. *)
ValueLen(k) == Number(fdt, fdt.off_dt_struct + tags[k].offset + 2)
ValueAt(k) == fdt.off_dt_struct + tags[k].offset + 6
First(i, name) == Min(PropsNamed(i, name))

(* Bytes from address p up to the next NUL. *)
BytesFrom(p) == LET nul == Min({q \in p .. fdt.totalsize : fdt.bytes[q] = 0})
                IN  [j \in 1 .. nul - p |-> fdt.bytes[p + j - 1]]

NameOf(i) == BytesFrom(fdt.off_dt_struct + tags[i].offset + 2)

(* A node and the nodes around it; the names from the root on. *)
Around(i) == {j \in Nodes : j <= i /\ \A k \in j .. i : OpenBehind(k) >= OpenBehind(j)}

PathOf(i) ==
  LET named(j, path) == path \o <<SLASH>> \o NameOf(j)
  IN  IF OpenBehind(i) = 1 THEN <<SLASH>>
      ELSE FoldLeft(LAMBDA path, j : named(j, path), <<>>,
                    SetToSortSeq({j \in Around(i) : OpenBehind(j) > 1}, <))

(* An earlier child of the same node has this name or, if it has no unit    *)
(* address, this name with one.                                            *)
Shadowed(i) ==
  \E j \in Nodes :
    /\ j < i /\ Enclosing(j) # {} /\ ParentOffset(j) = ParentOffset(i)
    /\ \/ NameOf(j) = NameOf(i)
       \/ /\ \A k \in DOMAIN NameOf(i) : NameOf(i)[k] # AT
          /\ IsPrefix(Append(NameOf(i), AT), NameOf(j))

(* What the children of a node are when they are asked for one by one. *)
RECURSIVE ChildOffsets(_)
ChildOffsets(child) ==
  IF child < 0 THEN {} ELSE {child} \cup ChildOffsets(fdt_next_subnode(fdt, child))

PhandleOf(i) ==
  LET number(name, default) ==
        IF HasProp(i, name) /\ ValueLen(First(i, name)) = 2
        THEN Number(fdt, ValueAt(First(i, name))) ELSE default
  IN  number(PHANDLE, number(LINUX_PHANDLE, 0))

(* What the string list functions say of a node's "compatible" agrees with  *)
(* its value, the bytes from address p up to end, the last of them a NUL:   *)
(* each string ends at a NUL, and its index leads to it and back, unless   *)
(* the same string is there before.                                        *)
ListAgrees(count, strings, indices, starts, ends) ==
  /\ count = Cardinality(starts)
  /\ \A i \in 1 .. count :
       /\ strings[i].ptr \in starts /\ strings[i].ptr + strings[i].len \in ends
       /\ Cardinality({q \in starts : q < strings[i].ptr}) = i - 1
       /\ indices[i] \in 0 .. i - 1
       /\ BytesFrom(strings[indices[i] + 1].ptr) = BytesFrom(strings[i].ptr)
  /\ strings[count + 1] = [ptr |-> NOWHERE, len |-> -FDT_ERR_NOTFOUND]

ListIsRead(node, p, end) ==
  LET ends == {q \in p .. end - 1 : fdt.bytes[q] = 0}
      searched(count, strings) ==
        ListAgrees(count, strings,
                   [i \in 1 .. count |-> fdt_stringlist_search(fdt, node, COMPATIBLE,
                                                              BytesFrom(strings[i].ptr))],
                   {q \in p .. end - 1 : q = p \/ q - 1 \in ends}, ends)
      got(count) == searched(count, [i \in 1 .. count + 1 |->
                                       fdt_stringlist_get(fdt, node, COMPATIBLE, i - 1)])
  IN  got(fdt_stringlist_count(fdt, node, COMPATIBLE))

(* The value of a property is empty or ends in a NUL. *)
Terminated(k) == ValueLen(k) = 0 \/ fdt.bytes[ValueAt(k) + ValueLen(k) - 1] = 0

CompatibleIsRead(i) ==
  \A k \in PropsNamed(i, COMPATIBLE) :
    Terminated(k) => ListIsRead(tags[i].offset, ValueAt(k), ValueAt(k) + ValueLen(k))

IsMemoryNode(i) ==
  /\ HasProp(i, DEVICE_TYPE)
  /\ ValueLen(First(i, DEVICE_TYPE)) = Len(MEMORY)
  /\ BytesAre(ValueAt(First(i, DEVICE_TYPE)), MEMORY)

(* One of the NUL-terminated strings of "compatible" is the CLINT's. *)
IsClintNode(i) ==
  /\ HasProp(i, COMPATIBLE)
  /\ LET k == First(i, COMPATIBLE)
     IN  \E p \in ValueAt(k) .. ValueAt(k) + ValueLen(k) - Len(CLINT) :
           /\ p = ValueAt(k) \/ fdt.bytes[p - 1] = 0
           /\ BytesAre(p, Append(CLINT, 0))

-----------------------------------------------------------------------------
(* A tree that was flattened from nodes and properties is not refused, and  *)
(* the tags that fdt_check_full sees are the ones that were written.       *)
FlattenedIsRead ==
  fdt.written # <<>> => /\ pc # "refused"
                        /\ Accepted => [k \in DOMAIN tags |-> tags[k].tag] = fdt.written

(* What parse_reg learns about a memory node is in the tree: the cells of   *)
(* its "reg", and the numbers of cells of the node around it, 2 and 1 where *)
(* the tree does not say.                                                  *)
AnswersFromTree ==
  LET cells(p, name, default) ==
        IF HasProp(p, name) THEN Number(fdt, ValueAt(First(p, name))) ELSE default
      right(answer, i, p) ==
        /\ answer.address_cells = cells(p, ADDRESS_CELLS, 2)
        /\ answer.size_cells = cells(p, SIZE_CELLS, 1)
        /\ IF HasProp(i, REG)
           THEN /\ answer.len * 2 = ValueLen(First(i, REG))
                /\ \A c \in 1 .. answer.len :
                     answer.cells[c] = Number(fdt, ValueAt(First(i, REG)) + ((c - 1) * 2))
           ELSE answer.len = -FDT_ERR_NOTFOUND
  IN  \A i \in Nodes : IsMemoryNode(i) /\ Enclosing(i) # {} =>
        right(NodeAt(tags[i].offset), i, Max(Enclosing(i)))

(* In every accepted tree detect_memory visits the memory nodes in tree     *)
(* order and without a gap: all of them if it returns 0, and then its last  *)
(* search fails because there are no more; otherwise up to the first one    *)
(* that has no "reg" or nothing around it.  discover_clint finds the first  *)
(* CLINT; what parse_reg is answered about a memory node is what was       *)
(* flattened.  In a tree of an older version, too, each search finds a     *)
(* node behind the last, so that detect_memory ends.                       *)
FindsNodes ==
  LET memory == {i \in Nodes : IsMemoryNode(i)}
      clints == {i \in Nodes : IsClintNode(i)}
      bare(i) == ~HasProp(i, REG) \/ Enclosing(i) = {} \/ tags[1].tag # FDT_BEGIN_NODE
      seen == {i \in memory : search = "done" \/ tags[i].offset <= found[Len(found)]}
  IN  /\ \A j \in 1 .. Len(found) - 1 : found[j] < found[j + 1]
      /\ Searched /\ fdt.version >= 16 =>
           /\ {found[j] : j \in DOMAIN found} = {tags[i].offset : i \in seen}
           /\ search = "done" => last = -FDT_ERR_NOTFOUND
           /\ search = "failed" => bare(Max(seen))
           /\ \A i \in seen : ~HasProp(i, REG) => i = Max(seen) /\ search = "failed"
           /\ clint_node = IF clints = {} THEN -FDT_ERR_NOTFOUND ELSE tags[Min(clints)].offset
           /\ fdt.written # <<>> => AnswersFromTree

(* In every accepted tree that starts with its root, fdt_parent_offset,     *)
(* which walks from the root again, finds the node that encloses a node.   *)
(* In a tree that was flattened, fdt_get_path writes the names from the    *)
(* root to a node if the buffer has room for them and their NUL and fails  *)
(* if it is one byte shorter; fdt_path_offset leads from there back to the *)
(* node unless an earlier sibling of it, or of a node around it, has the   *)
(* same name up to a unit address.                                         *)
PathsLeadBack ==
  LET right(i, path) ==
        /\ fdt_get_path(fdt, tags[i].offset, Len(path) + 1) = [err |-> 0, path |-> path]
        /\ fdt_get_path(fdt, tags[i].offset, Len(path)).err = -FDT_ERR_NOSPACE
        /\ (fdt_path_offset_namelen(fdt, path) = tags[i].offset)
             <=> \A j \in Around(i) : ~Shadowed(j)
  IN  Searched /\ tags[1].tag = FDT_BEGIN_NODE =>
        \A i \in Nodes :
          /\ fdt_parent_offset(fdt, tags[i].offset) = ParentOffset(i)
          /\ fdt.written # <<>> /\ fdt.version >= 16 => right(i, PathOf(i))

(* The children of a node, one after the other from fdt_first_subnode on;   *)
(* phandles, string lists and aliases as the tree has them: a phandle      *)
(* leads to the first node that has it, a new phandle is not in use (as    *)
(* long as none is the invalid ~0), an alias leads where its path does.    *)
LookupsAgree ==
  LET children(i) == {tags[j].offset : j \in {j \in Nodes : ParentOffset(j) = tags[i].offset}}
      unused(new, phandles) ==
        IF FDT_MAX_PHANDLE \in phandles THEN new.err = -FDT_ERR_NOPHANDLES
        ELSE new.err = 0 /\ new.phandle \notin {0} \cup phandles
      resolved(phandle) ==
        /\ \A i \in Nodes : phandle[i] \in 1 .. FDT_MAX_PHANDLE =>
             fdt_node_offset_by_phandle(fdt, phandle[i])
               = tags[Min({j \in Nodes : phandle[j] = phandle[i]})].offset
        /\ \/ \E i \in Nodes : phandle[i] = CELL_RANGE - 1
           \/ unused(fdt_generate_phandle(fdt), {phandle[i] : i \in Nodes})
      leads(alias, offset) == offset[COMPATIBLE] = IF alias = <<>> THEN -FDT_ERR_BADPATH ELSE offset[alias]
      aliased(alias) == leads(alias, [p \in {alias, COMPATIBLE} |-> fdt_path_offset_namelen(fdt, p)])
      path(alias) == IF alias = NOWHERE THEN <<>> ELSE StringAt(fdt, alias)
  IN  Searched /\ fdt.written # <<>> /\ fdt.version >= 16 =>
        /\ \A i \in Nodes :
             ChildOffsets(fdt_first_subnode(fdt, tags[i].offset)) = children(i) /\ CompatibleIsRead(i)
        /\ resolved([i \in Nodes |-> PhandleOf(i)])
        /\ aliased(path(fdt_get_alias_namelen(fdt, COMPATIBLE)))

(* fdt_stringlist_count refuses a list "if the last string isn't properly  *)
(* NUL-terminated".                                                        *)
UnterminatedRefused ==
  Searched /\ fdt.written # <<>> /\ fdt.version >= 16 =>
    \A i \in Nodes : \A k \in PropsNamed(i, COMPATIBLE) :
      ~Terminated(k) => fdt_stringlist_count(fdt, tags[i].offset, COMPATIBLE) = -FDT_ERR_BADVALUE
=============================================================================

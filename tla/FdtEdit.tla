------------------------------- MODULE FdtEdit -------------------------------
(***************************************************************************)
(* A client of libfdt that builds a flattened tree with fdt_sw.c or is     *)
(* given one, moves it between buffers that may overlap, and changes it    *)
(* with fdt_rw.c and fdt_wip.c (see FdtWrite), in any order of calls.      *)
(*                                                                         *)
(* The client keeps what libfdt.h leaves to it: names of siblings differ,  *)
(* properties come in front of subnodes, begin and end are balanced,       *)
(* nothing of a tree that is not finished is changed, a node is given by   *)
(* its current offset, and buffers are in memory.                          *)
(*                                                                         *)
(* libfdt is a library of its own, and crt0 says whether it is linked with *)
(* the kernel's memmove, of src/src/boot/crt0.c, or with one that returns. *)
(***************************************************************************)
EXTENDS FdtTree

CONSTANTS
  Memories,      \* what is in memory at first: a tree, or a record with magic "none"
  NodeNames, PropNames,
  Values,        \* values of properties, sequences of bytes
  Reservations,  \* pairs of an address and a size
  Sizes,         \* sizes of buffers
  Moves          \* offsets of the next buffer from the start of the last

VARIABLES
  fdt,    \* the memory and the tree in it
  call,   \* the last call that has returned: its name, its arguments and its result
  left,   \* bound: how many more calls may succeed
  crt0,   \* is memmove the one of crt0.c?
  hung    \* the call that will never return, if there is one: a set of calls

vars == <<fdt, call, left, crt0, hung>>

-----------------------------------------------------------------------------
Init ==
  /\ \E m \in Memories : fdt = m.fdt /\ left = m.calls
  /\ call = [op |-> "none", err |-> 0]
  /\ crt0 \in BOOLEAN
  /\ hung = {}

(* A call of which r is the result, unless it has come to crt0.c's memmove. *)
(* What such a call has written before that is left out.                   *)
Returns(r, c) ==
  /\ IF crt0 /\ r.fdt.moved
     THEN hung' = {c} /\ UNCHANGED <<fdt, call, left>>
     ELSE /\ fdt' = [r.fdt EXCEPT !.moved = FALSE]
          /\ call' = [c EXCEPT !.err = r.err]
          /\ left' = IF r.err >= 0 THEN left - 1 ELSE left
          /\ UNCHANGED hung
  /\ UNCHANGED crt0

Op(name) == [op |-> name, err |-> 0]

MayCall == hung = {} /\ left > 0

(* A buffer of some size at an offset, within the memory. *)
InMemory(buf, bufsize) == buf + fdt.address >= 0 /\ buf + bufsize <= Room(fdt)

Create ==
  /\ MayCall
  /\ \E bufsize \in Sizes, flags \in 0 .. 2 :
       /\ fdt.magic = "none" /\ InMemory(0, bufsize)
       /\ \E r \in {fdt_create_with_flags(fdt, bufsize, flags)} :
            Returns(r, Op("fdt_create_with_flags") @@ [bufsize |-> bufsize, flags |-> flags])

CreateEmptyTree ==
  /\ MayCall
  /\ \E bufsize \in Sizes :
       /\ fdt.magic = "none" /\ InMemory(0, bufsize)
       /\ \E r \in {fdt_create_empty_tree(fdt, bufsize)} :
            Returns(r, Op("fdt_create_empty_tree") @@ [bufsize |-> bufsize])

AddReservemapEntry ==
  /\ MayCall
  /\ \E e \in Reservations :
       \E r \in {fdt_add_reservemap_entry(fdt, e[1], e[2])} :
         Returns(r, Op("fdt_add_reservemap_entry")
                      @@ [value |-> cpu_to_fdt64(e[1]) \o cpu_to_fdt64(e[2])])

FinishReservemap ==
  /\ MayCall
  /\ \E r \in {fdt_finish_reservemap(fdt)} : Returns(r, Op("fdt_finish_reservemap"))

(* The client keeps the order of fdt_sw.c's calls within the structure, not *)
(* the states that libfdt checks.                                          *)
InStruct == fdt_sw_probe_struct_(fdt) = 0

Children(t, path) == {p \in DOMAIN t.nodes : p # <<>> /\ Front(p) = path}

BeginNode ==
  /\ MayCall
  /\ \E t \in {Read(fdt)}, name \in NodeNames \cup {<<>>} :
       /\ (name = <<>>) = (t.open = <<>>)
       /\ InStruct => Append(t.open, name) \notin DOMAIN t.nodes
       /\ \E r \in {fdt_begin_node(fdt, name)} : Returns(r, Op("fdt_begin_node") @@ [name |-> name])

EndNode ==
  /\ MayCall
  /\ \E t \in {Read(fdt)} :
       /\ InStruct => t.open # <<>>
       /\ \E r \in {fdt_end_node(fdt)} : Returns(r, Op("fdt_end_node"))

Property ==
  /\ MayCall
  /\ \E t \in {Read(fdt)}, name \in PropNames, val \in Values :
       /\ InStruct => /\ t.open # <<>> /\ Children(t, t.open) = {}
                      /\ name \notin DOMAIN t.nodes[t.open].props
       /\ \E r \in {fdt_property(fdt, name, val)} :
            Returns(r, Op("fdt_property") @@ [name |-> name, value |-> val])

Finish ==
  /\ MayCall
  /\ \E t \in {Read(fdt)} :
       /\ InStruct => t.open = <<>> /\ t.nodes # <<>>
       /\ \E r \in {fdt_finish(fdt)} : Returns(r, Op("fdt_finish"))

Resize ==
  /\ MayCall
  /\ \E buf \in Moves, bufsize \in Sizes :
       /\ InMemory(buf, bufsize)
       /\ \E r \in {fdt_resize(fdt, buf, bufsize)} :
            Returns(r, Op("fdt_resize") @@ [buf |-> buf, bufsize |-> bufsize])

-----------------------------------------------------------------------------
(* A finished tree, or what the client takes for one. *)
Complete == MayCall /\ fdt.magic = "FDT_MAGIC"

Move ==
  /\ Complete
  /\ \E buf \in Moves, bufsize \in Sizes :
       /\ InMemory(buf, bufsize)
       /\ \E r \in {fdt_move(fdt, buf, bufsize)} :
            Returns(r, Op("fdt_move") @@ [buf |-> buf, bufsize |-> bufsize])

OpenInto ==
  /\ Complete
  /\ \E buf \in Moves, bufsize \in Sizes :
       /\ InMemory(buf, bufsize)
       /\ \E r \in {fdt_open_into(fdt, buf, bufsize)} :
            Returns(r, Op("fdt_open_into") @@ [buf |-> buf, bufsize |-> bufsize])

Pack == Complete /\ \E r \in {fdt_pack(fdt)} : Returns(r, Op("fdt_pack"))

AddMemRsv ==
  /\ Complete
  /\ \E e \in Reservations :
       \E r \in {fdt_add_mem_rsv(fdt, e[1], e[2])} :
         Returns(r, Op("fdt_add_mem_rsv") @@ [value |-> cpu_to_fdt64(e[1]) \o cpu_to_fdt64(e[2])])

DelMemRsv ==
  /\ Complete
  /\ \E n \in 0 .. 1 :
       \E r \in {fdt_del_mem_rsv(fdt, n)} : Returns(r, Op("fdt_del_mem_rsv") @@ [n |-> n])

AddSubnode ==
  /\ Complete
  /\ \E t \in {Read(fdt)} : \E path \in DOMAIN t.nodes, name \in NodeNames :
       \E r \in {fdt_add_subnode_namelen(fdt, t.nodes[path].offset, name)} :
         Returns(r, Op("fdt_add_subnode") @@ [path |-> path, name |-> name])

(* A node of the finished tree other than the root. *)
DelNode ==
  /\ Complete
  /\ \E t \in {Read(fdt)} : \E path \in DOMAIN t.nodes :
       /\ Len(path) > 1
       /\ \E r \in {fdt_del_node(fdt, t.nodes[path].offset)} :
            Returns(r, Op("fdt_del_node") @@ [path |-> path])

NopNode ==
  /\ Complete
  /\ \E t \in {Read(fdt)} : \E path \in DOMAIN t.nodes :
       /\ Len(path) > 1
       /\ \E r \in {fdt_nop_node(fdt, t.nodes[path].offset)} :
            Returns(r, Op("fdt_nop_node") @@ [path |-> path])

SetName ==
  /\ Complete
  /\ \E t \in {Read(fdt)} : \E path \in DOMAIN t.nodes, name \in NodeNames :
       /\ Len(path) > 1
       /\ Append(Front(path), name) \notin DOMAIN t.nodes
       /\ \E r \in {fdt_set_name(fdt, t.nodes[path].offset, name)} :
            Returns(r, Op("fdt_set_name") @@ [path |-> path, name |-> name])

(* Call with the offset of a node, a property's name and a value. *)
ForProperty(op, Write(_, _, _)) ==
  /\ Complete
  /\ \E t \in {Read(fdt)} : \E path \in DOMAIN t.nodes, name \in PropNames, val \in Values :
       \E r \in {Write(t.nodes[path].offset, name, val)} :
         Returns(r, Op(op) @@ [path |-> path, name |-> name, value |-> val])

SetProp == ForProperty("fdt_setprop", LAMBDA offset, name, val : fdt_setprop(fdt, offset, name, val))

AppendProp ==
  ForProperty("fdt_appendprop", LAMBDA offset, name, val : fdt_appendprop(fdt, offset, name, val))

SetPropInplace ==
  ForProperty("fdt_setprop_inplace", LAMBDA offset, name, val : fdt_setprop_inplace(fdt, offset, name, val))

SetPropPartial ==
  /\ Complete
  /\ \E t \in {Read(fdt)} : \E path \in DOMAIN t.nodes, name \in PropNames, val \in Values, idx \in 0 .. 1 :
       \E r \in {fdt_setprop_inplace_namelen_partial(fdt, t.nodes[path].offset, name, idx, val)} :
         Returns(r, Op("fdt_setprop_inplace_namelen_partial")
                      @@ [path |-> path, name |-> name, value |-> val, n |-> idx])

DelProp ==
  /\ Complete
  /\ \E t \in {Read(fdt)} : \E path \in DOMAIN t.nodes, name \in PropNames :
       \E r \in {fdt_delprop(fdt, t.nodes[path].offset, name)} :
         Returns(r, Op("fdt_delprop") @@ [path |-> path, name |-> name])

NopProperty ==
  /\ Complete
  /\ \E t \in {Read(fdt)} : \E path \in DOMAIN t.nodes, name \in PropNames :
       \E r \in {fdt_nop_property(fdt, t.nodes[path].offset, name)} :
         Returns(r, Op("fdt_nop_property") @@ [path |-> path, name |-> name])

(* The bytes that an address and a size take in the cells of the parent. *)
RangeBytes(props, e) ==
  LET cells(name, default) == IF name \in DOMAIN props /\ Len(props[name]) = FDT_TAGSIZE THEN props[name][FDT_TAGSIZE] ELSE default
      bytes(n, x) == IF n = 1 THEN cpu_to_fdt32(x % CELL_RANGE) ELSE cpu_to_fdt64(x)
  IN  bytes(cells(ADDRESS_CELLS, 2), e[1]) \o bytes(cells(SIZE_CELLS, 1), e[2])

AppendRange ==
  /\ Complete
  /\ \E t \in {Read(fdt)} : \E path \in DOMAIN t.nodes, e \in Reservations :
       /\ Len(path) > 1
       /\ \E r \in {fdt_appendprop_addrrange(fdt, t.nodes[Front(path)].offset, t.nodes[path].offset,
                                             REG, e[1], e[2])} :
            Returns(r, Op("fdt_appendprop_addrrange")
                         @@ [path |-> path, name |-> REG,
                             value |-> RangeBytes(t.nodes[Front(path)].props, e)])

Next ==
  \/ Create \/ CreateEmptyTree \/ AddReservemapEntry \/ FinishReservemap
  \/ BeginNode \/ EndNode \/ Property \/ Finish \/ Resize
  \/ Move \/ OpenInto \/ Pack \/ AddMemRsv \/ DelMemRsv
  \/ AddSubnode \/ DelNode \/ NopNode \/ SetName
  \/ SetProp \/ AppendProp \/ SetPropInplace \/ SetPropPartial
  \/ DelProp \/ NopProperty \/ AppendRange

Spec == Init /\ [][Next]_vars

-----------------------------------------------------------------------------
(* Type invariant.  The blocks of a finished tree are in its buffer, behind *)
(* the header, and do not overlap; while it is written the structure block *)
(* and the strings, which grow towards each other, do not meet.            *)
TypeOK ==
  /\ fdt.magic \in {"none", "FDT_SW_MAGIC", "FDT_MAGIC"}
  /\ fdt.totalsize <= Room(fdt) /\ fdt.address >= 0
  /\ left \in Nat /\ crt0 \in BOOLEAN /\ Cardinality(hung) <= 1
  /\ fdt.magic = "FDT_SW_MAGIC" =>
       /\ fdt.off_mem_rsvmap <= fdt.off_dt_struct
       /\ fdt.off_dt_strings \in {0, fdt.totalsize}
       /\ fdt.off_dt_struct + fdt.size_dt_struct + fdt.size_dt_strings <= fdt.totalsize
  /\ fdt.magic = "FDT_MAGIC" => BlocksInside(fdt)

Store ==
  INSTANCE TreeStore WITH
    nodes <- LET t == Read(fdt) IN [p \in DOMAIN t.nodes |-> t.nodes[p].props],
    open <- Read(fdt).open, reserved <- Reserved(fdt)

(* The bytes of a tree, wherever splices and moves have put them, stand for *)
(* the tree that the calls' documentation describes (libfdt.h): a call     *)
(* that succeeds has its effect and no other, one that fails has none.     *)
ImplementsTree == Store!Spec

-----------------------------------------------------------------------------
(* How many bytes a string takes that a property needs. *)
StringCost(f, name) ==
  LET strings == IF f.magic = "FDT_SW_MAGIC"
                 THEN f.totalsize - f.size_dt_strings .. f.totalsize - 1
                 ELSE f.off_dt_strings .. f.off_dt_strings + f.size_dt_strings - 1
      z == Append(name, 0)
      shared == /\ f.magic = "FDT_SW_MAGIC" => f.last_comp_version = 0
                /\ \E p \in strings : /\ p + Len(name) \in strings
                                      /\ \A i \in DOMAIN z : f.bytes[p + i - 1] = z[i]
  IN  IF shared THEN 0 ELSE Len(z)

(* Bytes that a tree has left, and that a call on it takes. *)
Free(f) == IF f.magic = "FDT_SW_MAGIC"
           THEN f.totalsize - f.off_dt_struct - f.size_dt_struct - f.size_dt_strings
           ELSE f.totalsize - f.off_dt_strings - f.size_dt_strings

Name(s) == FDT_TAGALIGN(Len(s) + 1)

PropertyNeed(f, props, c, keep) ==
  LET has == c.name \in DOMAIN props
      old == IF has THEN Len(props[c.name]) ELSE 0
      new == FDT_TAGALIGN(Len(c.value) + IF keep THEN old ELSE 0)
  IN  IF has THEN new - FDT_TAGALIGN(old) ELSE PROPERTY_SIZE + new + StringCost(f, c.name)

Need(f, t, c) ==
  CASE c.op \in {"fdt_add_reservemap_entry", "fdt_finish_reservemap", "fdt_add_mem_rsv"} -> RESERVE_SIZE
    [] c.op = "fdt_begin_node" -> FDT_TAGSIZE + Name(c.name)
    [] c.op = "fdt_add_subnode" -> FDT_TAGSIZE + Name(c.name) + FDT_TAGSIZE
    [] c.op = "fdt_set_name" -> Name(c.name) - Name(Last(c.path))
    [] c.op \in {"fdt_end_node", "fdt_finish"} -> FDT_TAGSIZE
    [] c.op = "fdt_property" -> PropertyNeed(f, <<>>, c, FALSE)
    [] c.op = "fdt_setprop" -> PropertyNeed(f, t.nodes[c.path].props, c, FALSE)
    [] c.op \in {"fdt_appendprop", "fdt_appendprop_addrrange"} ->
         PropertyNeed(f, t.nodes[c.path].props, c, TRUE)
    [] OTHER -> 0

(* Whether a buffer is too small for a tree.  Blocks out of order are put   *)
(* in order behind the tree if the buffer overlaps with it.                *)
BufferTooSmall(f, c) ==
  LET used == f.off_dt_struct + f.size_dt_struct + f.size_dt_strings
      ordered == ~fdt_blocks_misordered_(f, (Len(Reserved(f)) + 1) * RESERVE_SIZE, StructSize(f))
      packed == HEADER_SIZE + ((Len(Reserved(f)) + 1) * RESERVE_SIZE) + StructSize(f) + f.size_dt_strings
      apart == c.buf + packed <= 0 \/ c.buf >= f.totalsize
  IN  CASE c.op = "fdt_create_with_flags" -> c.bufsize < FDT_ALIGN(HEADER_SIZE, RESERVE_SIZE)
        [] c.op = "fdt_create_empty_tree" ->
             c.bufsize < FDT_ALIGN(HEADER_SIZE, RESERVE_SIZE) + RESERVE_SIZE + (4 * FDT_TAGSIZE)
        [] c.op = "fdt_resize" -> c.bufsize < used
        [] c.op = "fdt_move" \/ (c.op = "fdt_open_into" /\ ordered) -> c.bufsize < f.totalsize
        [] c.op = "fdt_open_into" /\ ~ordered ->
             c.bufsize < packed \/ (~apart /\ c.buf + c.bufsize < f.totalsize + packed)
        [] OTHER -> FALSE

Phase(f) == CASE f.magic = "none" -> "none"
              [] f.magic = "FDT_MAGIC" -> "complete"
              [] OTHER -> IF f.off_dt_strings = 0 THEN "memrsv" ELSE "struct"

PhasesFor(op) ==
  CASE op \in {"fdt_add_reservemap_entry", "fdt_finish_reservemap"} -> {"memrsv"}
    [] op \in {"fdt_begin_node", "fdt_end_node", "fdt_property", "fdt_finish"} -> {"struct"}
    [] op = "fdt_resize" -> {"memrsv", "struct"}
    [] op \in {"fdt_create_with_flags", "fdt_create_empty_tree"} -> {"none"}
    [] OTHER -> {"complete"}

RwOps == {"fdt_pack", "fdt_add_mem_rsv", "fdt_del_mem_rsv", "fdt_add_subnode", "fdt_del_node",
          "fdt_set_name", "fdt_setprop", "fdt_appendprop", "fdt_appendprop_addrrange", "fdt_delprop"}
WipPropOps == {"fdt_setprop_inplace", "fdt_setprop_inplace_namelen_partial"}

(* A name stands for itself and, if it has no unit address, for all nodes   *)
(* that differ in that only.                                               *)
Stands(name, s) == s = name \/ (~Contains(name, AT) /\ IsPrefix(Append(name, AT), s))

(* The errors that a call has a reason for. *)
Reasons(f, t, c) ==
  LET props == IF t.nodes # <<>> /\ "path" \in DOMAIN c THEN t.nodes[c.path].props ELSE <<>>
      value == IF c.name \in DOMAIN props THEN props[c.name] ELSE <<>>
  IN  {e \in 1 .. 19 :
         CASE e = FDT_ERR_BADMAGIC -> Phase(f) = "none" /\ Phase(f) \notin PhasesFor(c.op)
           [] e = FDT_ERR_BADSTATE -> Phase(f) # "none" /\ Phase(f) \notin PhasesFor(c.op)
           [] e = FDT_ERR_BADFLAGS -> c.op = "fdt_create_with_flags" /\ c.flags > 1
           [] e = FDT_ERR_BADVERSION -> c.op \in RwOps /\ f.version < 17
           [] e = FDT_ERR_BADLAYOUT ->
                c.op \in RwOps /\ fdt_blocks_misordered_(f, RESERVE_SIZE, f.size_dt_struct)
           [] e = FDT_ERR_EXISTS ->
                c.op = "fdt_add_subnode" /\ \E p \in Children(t, c.path) : Stands(c.name, Last(p))
           [] e = FDT_ERR_NOTFOUND ->
                \/ c.op = "fdt_del_mem_rsv" /\ c.n >= Len(Reserved(f))
                \/ /\ c.op \in {"fdt_delprop", "fdt_nop_property"} \cup WipPropOps
                   /\ c.name \notin DOMAIN props
           [] e = FDT_ERR_BADNCELLS ->
                /\ c.op = "fdt_appendprop_addrrange"
                /\ LET parent == t.nodes[Front(c.path)].props
                   IN  \E name \in {ADDRESS_CELLS, SIZE_CELLS} \cap DOMAIN parent :
                         parent[name] \notin {cpu_to_fdt32(1), cpu_to_fdt32(2)}
           [] e = FDT_ERR_NOSPACE ->
                IF c.op = "fdt_setprop_inplace" THEN Len(value) # Len(c.value)
                ELSE IF c.op = "fdt_setprop_inplace_namelen_partial" THEN Len(value) < c.n + Len(c.value)
                ELSE (Need(f, t, c) > 0 /\ Need(f, t, c) > Free(f)) \/ BufferTooSmall(f, c)
           [] OTHER -> FALSE}

(* The bytes of the old and the new buffer are the only ones that a call    *)
(* may write.                                                              *)
WritesInside(f, g, c) ==
  LET d == g.address - f.address
      size == IF "bufsize" \in DOMAIN c THEN c.bufsize ELSE g.totalsize
  IN  \A p \in DOMAIN f.bytes :
        p \notin 0 .. f.totalsize - 1 /\ p \notin d .. d + size - 1 => g.bytes[p - d] = f.bytes[p]

(* The room that the blocks leave, and where they are. *)
Layout(f) == <<f.address, f.magic, f.totalsize, f.off_mem_rsvmap, f.off_dt_struct, f.off_dt_strings,
               f.size_dt_struct, f.size_dt_strings>>

(* Calls that move what is behind a change, or the whole tree. *)
Movers == RwOps \cup {"fdt_finish", "fdt_resize", "fdt_move", "fdt_open_into", "fdt_create_empty_tree"}

(* A call that returns has failed if and only if it has a reason to, and    *)
(* with that reason: no space only if the bytes it takes are really        *)
(* missing, in particular not because an earlier failure has used some up; *)
(* a failing call leaves all blocks as they were (the rollback of a        *)
(* property's name in fdt_add_property_ and fdt_property_placeholder).     *)
(* The offset of a new node is returned.  No call writes outside of the    *)
(* buffers.  With the kernel's memmove (crt0.c) no call of Movers          *)
(* succeeds: without a reason to fail it does not return, and neither does *)
(* one that finds out that there is no space after it has moved something. *)
(* All other calls return, and so does every call with another memmove.    *)
CallsJustified ==
  [][\E t \in {Read(fdt)} :
       /\ \A c \in hung' : crt0 /\ c.op \in Movers /\ Reasons(fdt, t, c) \subseteq {FDT_ERR_NOSPACE}
       /\ hung' = {} =>
            IF call'.err < 0 THEN -call'.err \in Reasons(fdt, t, call')
            ELSE Reasons(fdt, t, call') = {} /\ ~(crt0 /\ call'.op \in Movers)
       /\ hung' = {} /\ call'.err < 0 /\ call'.op # "fdt_create_empty_tree" => Layout(fdt') = Layout(fdt)
       /\ hung' = {} /\ call'.op = "fdt_add_subnode" /\ call'.err >= 0 =>
            Read(fdt').nodes[Append(call'.path, call'.name)].offset = call'.err
       /\ WritesInside(fdt, fdt', call')]_vars
=============================================================================

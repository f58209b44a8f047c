------------------------------ MODULE MCFdtEdit ------------------------------
(***************************************************************************)
(* Memories for FdtEdit: empty ones, in which a tree is built, and trees   *)
(* of version 16 and 17 whose blocks are in order or not.                  *)
(***************************************************************************)
EXTENDS FdtEdit

\* Bounds: bytes of memory, and calls that succeed from each start.
MEMORY_SIZE == 136
MAX_START == 3
MAX_BUILD == 4
MAX_EDITS == 2

Mem(bytes, address) ==
  [p \in -address .. MEMORY_SIZE - 1 - address |-> IF p + 1 \in DOMAIN bytes THEN bytes[p + 1] ELSE 6]

Blank(address) ==
  [address |-> address, bytes |-> Mem(<<>>, address), magic |-> "none", version |-> 0,
   last_comp_version |-> 0, totalsize |-> 0, off_mem_rsvmap |-> 0, off_dt_struct |-> 0,
   off_dt_strings |-> 0, size_dt_struct |-> 0, size_dt_strings |-> 0, moved |-> FALSE]

(* Bytes of the structure block: nodes with properties by the offset of     *)
(* their names.                                                            *)
Pad(s) == IF Len(s) % 2 = 0 THEN s ELSE Append(s, 0)
Prop(nameoff, value) == cpu_to_fdt32(FDT_PROP) \o cpu_to_fdt32(Len(value)) \o cpu_to_fdt32(nameoff) \o Pad(value)
Node(name, inside) == cpu_to_fdt32(FDT_BEGIN_NODE) \o Pad(Append(name, 0)) \o inside \o cpu_to_fdt32(FDT_END_NODE)

Struct == Node(<<>>, Prop(0, <<5>>) \o cpu_to_fdt32(FDT_NOP) \o Node(<<8>>, Prop(1, <<7, 7, 7>>) \o Node(<<9>>, <<>>)))
            \o cpu_to_fdt32(FDT_END)
SmallStruct == Node(<<>>, Prop(0, <<5>>)) \o cpu_to_fdt32(FDT_END)
Strings == <<3, 1, 0>>
Rsv(n) == IF n = 0 THEN EndEntry ELSE (cpu_to_fdt64(1) \o cpu_to_fdt64(2)) \o EndEntry

(* A loaded tree: header, the blocks in some order, and spare bytes. *)
Loaded(version, rsv, struct, order, spare, address) ==
  LET block(b) == CASE b = "rsv" -> Rsv(rsv) [] b = "struct" -> struct [] b = "strings" -> Strings
      header == [i \in 1 .. HEADER_SIZE |-> 6]
      bytes == header \o FlattenSeq([i \in DOMAIN order |-> Pad(block(order[i]))])
      off(b) == HEADER_SIZE + Len(FlattenSeq([i \in 1 .. Min({j \in DOMAIN order : order[j] = b}) - 1 |->
                                                Pad(block(order[i]))]))
  IN  [address |-> address, bytes |-> Mem(bytes, address), magic |-> "FDT_MAGIC", version |-> version,
       last_comp_version |-> 16, totalsize |-> Len(bytes) + spare, off_mem_rsvmap |-> off("rsv"),
       off_dt_struct |-> off("struct"), off_dt_strings |-> off("strings"),
       size_dt_struct |-> IF version < 17 THEN 0 ELSE Len(struct), size_dt_strings |-> Len(Strings),
       moved |-> FALSE]

InOrder == <<"rsv", "struct", "strings">>

(* A tree whose root has been begun, in a buffer of some size. *)
Begun(bufsize, flags) ==
  fdt_begin_node(fdt_finish_reservemap(fdt_create_with_flags(Blank(8), bufsize, flags).fdt).fdt, <<>>).fdt

MCMemories ==
  {[fdt |-> Blank(8), calls |-> MAX_START],
   [fdt |-> Begun(52, 0), calls |-> MAX_BUILD],
   [fdt |-> Begun(60, FDT_CREATE_FLAG_NO_NAME_DEDUP), calls |-> MAX_START]}
    \cup {[fdt |-> Loaded(17, x[1], Struct, InOrder, x[2], 8), calls |-> MAX_EDITS] :
            x \in {<<0, 0>>, <<0, 9>>, <<1, 20>>}}
    \cup {[fdt |-> Loaded(16, 1, Struct, InOrder, 0, 8), calls |-> MAX_EDITS],
          [fdt |-> Loaded(17, 0, SmallStruct, <<"strings", "rsv", "struct">>, 0, 0), calls |-> MAX_EDITS],
          [fdt |-> Loaded(16, 0, SmallStruct, <<"struct", "strings", "rsv">>, 2, 48), calls |-> MAX_EDITS]}

(* The last call decides nothing: what can happen next depends on the rest *)
(* of the state only.                                                      *)
MCView == <<fdt, left, crt0, hung = {}>>

MCNodeNames == {<<8>>, <<8, AT, 9>>}
MCPropNames == {<<1>>, ADDRESS_CELLS}
MCValues == {<<>>, <<0, 1, 5>>}
MCReservations == {<<1, 2>>}
MCSizes == {44, 96}
MCMoves == {-48, -8, 0, 16}
=============================================================================

------------------------------- MODULE FdtWrite ------------------------------
(***************************************************************************)
(* The part of libfdt that writes flattened device trees: src/libfdt/      *)
(* fdt_sw.c (a new tree, front to back), fdt_rw.c (changes that move what  *)
(* is behind them), fdt_wip.c (changes in place), fdt_empty_tree.c, and    *)
(* what fdt.c and fdt_addresses.c add.                                     *)
(*                                                                         *)
(* A tree is the record of FdtRead; its bytes are all of the memory, with  *)
(* offsets relative to the start of the tree, so that a buffer may lie     *)
(* anywhere and overlap with the tree.  A function returns its result and  *)
(* the tree after it.  A string argument is a sequence of bytes without    *)
(* its NUL.  boot_cpuid_phys is left out.                                  *)
(***************************************************************************)
EXTENDS FdtRo, TLC

FDT_ERR_EXISTS == 2
FDT_ERR_BADLAYOUT == 12
FDT_ERR_BADFLAGS == 18

FDT_LAST_COMPATIBLE_VERSION == 16
FDT_CREATE_FLAG_NO_NAME_DEDUP == 1

HEADER_SIZE == 10 * FDT_TAGSIZE
FDT_ALIGN(x, a) == ((x + a - 1) \div a) * a

Fail(fdt, err) == [err |-> err, fdt |-> fdt]
Done(fdt) == [err |-> 0, fdt |-> fdt]

memcpy(m, dst, s) == [p \in dst .. dst + Len(s) - 1 |-> s[p - dst + 1]] @@ m

memset(m, dst, n) == [p \in dst .. dst + n - 1 |-> 0] @@ m

(* crt0.c has __builtin_memmove, which is a call of memmove: it does not    *)
(* return.  The bytes are those that a memmove of the C standard leaves,   *)
(* and moved says that there was a call, whose caller then goes on only if *)
(* libfdt is linked with such a memmove (see FdtEdit and Overlay).         *)
memmove(fdt, dst, src, n) ==
  [fdt EXCEPT !.bytes = [p \in dst .. dst + n - 1 |-> @[src + (p - dst)]] @@ @, !.moved = TRUE]

(* The bytes of a cell as the hart stores it, and of an fdt64_t. *)
cpu_to_fdt32(x) == LET y == ByteSwap(x) IN <<y % BYTE_RANGE, y \div BYTE_RANGE>>
cpu_to_fdt64(x) == cpu_to_fdt32(x \div CELL_RANGE) \o cpu_to_fdt32(x % CELL_RANGE)

Put(fdt, p, s) == [fdt EXCEPT !.bytes = memcpy(@, p, s)]

(* The same memory seen from another start of the tree. *)
Rebased(fdt, buf) ==
  [fdt EXCEPT !.address = @ + buf, !.bytes = [p \in {q - buf : q \in DOMAIN @} |-> @[p + buf]]]

(* Where a string is among the tabsize bytes from strtab on, as a string of *)
(* its own or as the end of a longer one.                                  *)
fdt_find_string_len_(fdt, strtab, tabsize, s) ==
  LET at == {p \in strtab .. strtab + tabsize - (Len(s) + 1) :
               memcmp(fdt.bytes, p, s, 1, Len(s)) = 0 /\ fdt.bytes[p + Len(s)] = 0}
  IN  IF at = {} THEN NOWHERE ELSE Min(at)

-----------------------------------------------------------------------------
(* fdt_sw.c: a tree under construction has FDT_SW_MAGIC.  Its structure     *)
(* block grows upwards, its strings downwards from the end of the buffer,  *)
(* with negative offsets.  off_dt_strings is 0 until the reservation map   *)
(* is finished.                                                            *)
fdt_sw_probe_(fdt) ==
  CASE fdt.magic = "FDT_MAGIC" -> -FDT_ERR_BADSTATE
    [] fdt.magic = "FDT_SW_MAGIC" -> 0
    [] OTHER -> -FDT_ERR_BADMAGIC

fdt_sw_probe_memrsv_(fdt) ==
  IF fdt_sw_probe_(fdt) # 0 THEN fdt_sw_probe_(fdt)
  ELSE IF fdt.off_dt_strings # 0 THEN -FDT_ERR_BADSTATE ELSE 0

fdt_sw_probe_struct_(fdt) ==
  IF fdt_sw_probe_(fdt) # 0 THEN fdt_sw_probe_(fdt)
  ELSE IF fdt.off_dt_strings # fdt.totalsize THEN -FDT_ERR_BADSTATE ELSE 0

(* len more bytes for the structure block: where they are, and the tree. *)
fdt_grab_space_(fdt, len) ==
  LET offset == fdt.size_dt_struct
      spaceleft == UInt(fdt.totalsize - fdt.off_dt_struct - fdt.size_dt_strings)
  IN  IF UInt(offset + len) < offset \/ UInt(offset + len) > spaceleft
      THEN [ptr |-> NOWHERE, fdt |-> fdt]
      ELSE [ptr |-> fdt.off_dt_struct + offset,
            fdt |-> [fdt EXCEPT !.size_dt_struct = offset + len]]

(* Add a tag and what follows it to the structure block. *)
GrabAndPut(fdt, len, s) ==
  LET at(grab) == IF grab.ptr = NOWHERE THEN Fail(fdt, -FDT_ERR_NOSPACE)
                  ELSE Done(Put(grab.fdt, grab.ptr, s))
  IN  With(fdt_grab_space_(fdt, len), at)

(* buf is the memory from the start of the buffer on. *)
fdt_create_with_flags(buf, bufsize, flags) ==
  LET hdrsize == FDT_ALIGN(HEADER_SIZE, RESERVE_SIZE)
  IN  IF bufsize < hdrsize THEN Fail(buf, -FDT_ERR_NOSPACE)
      ELSE IF flags \notin {0, FDT_CREATE_FLAG_NO_NAME_DEDUP} THEN Fail(buf, -FDT_ERR_BADFLAGS)
      ELSE Done([address |-> buf.address, bytes |-> memset(buf.bytes, 0, bufsize),
                 magic |-> "FDT_SW_MAGIC", version |-> FDT_LAST_SUPPORTED_VERSION,
                 last_comp_version |-> flags, totalsize |-> bufsize,
                 off_mem_rsvmap |-> hdrsize, off_dt_struct |-> hdrsize, off_dt_strings |-> 0,
                 size_dt_struct |-> 0, size_dt_strings |-> 0, moved |-> FALSE])

(* Mutant of fdt_resize: the head first, always. *)
fdt_resize_head_first(fdt, buf, bufsize) ==
  LET headsize == fdt.off_dt_struct + fdt.size_dt_struct
      tailsize == fdt.size_dt_strings
      moved == memmove(memmove(fdt, buf, 0, headsize), buf + bufsize - tailsize,
                       fdt.totalsize - tailsize, tailsize)
  IN  IF fdt_sw_probe_(fdt) # 0 THEN Fail(fdt, fdt_sw_probe_(fdt))
      ELSE IF headsize + tailsize > bufsize THEN Fail(fdt, -FDT_ERR_NOSPACE)
      ELSE Done(Rebased([moved EXCEPT !.totalsize = bufsize,
                                      !.off_dt_strings = IF @ # 0 THEN bufsize ELSE 0], buf))

(* The tree moves to a buffer at offset buf; the head or the tail first,    *)
(* whichever the other must not overwrite.                                 *)
fdt_resize(fdt, buf, bufsize) ==
  LET headsize == fdt.off_dt_struct + fdt.size_dt_struct
      tailsize == fdt.size_dt_strings
      oldtail == fdt.totalsize - tailsize
      newtail == buf + bufsize - tailsize
      moved == IF buf <= 0
               THEN memmove(memmove(fdt, buf, 0, headsize), newtail, oldtail, tailsize)
               ELSE memmove(memmove(fdt, newtail, oldtail, tailsize), buf, 0, headsize)
  IN  IF fdt_sw_probe_(fdt) # 0 THEN Fail(fdt, fdt_sw_probe_(fdt))
      ELSE IF bufsize < 0 THEN Fail(fdt, -FDT_ERR_NOSPACE)
      ELSE IF headsize + tailsize > fdt.totalsize THEN Fail(fdt, -FDT_ERR_INTERNAL)
      ELSE IF headsize + tailsize > bufsize THEN Fail(fdt, -FDT_ERR_NOSPACE)
      ELSE Done(Rebased([moved EXCEPT !.totalsize = bufsize,
                                      !.off_dt_strings = IF @ # 0 THEN bufsize ELSE 0], buf))

fdt_add_reservemap_entry(fdt, addr, size) ==
  LET offset == fdt.off_dt_struct
  IN  IF fdt_sw_probe_memrsv_(fdt) # 0 THEN Fail(fdt, fdt_sw_probe_memrsv_(fdt))
      ELSE IF offset + RESERVE_SIZE > fdt.totalsize THEN Fail(fdt, -FDT_ERR_NOSPACE)
      ELSE Done([Put(fdt, offset, cpu_to_fdt64(addr) \o cpu_to_fdt64(size))
                   EXCEPT !.off_dt_struct = offset + RESERVE_SIZE])

fdt_finish_reservemap(fdt) ==
  LET ended(r) == IF r.err # 0 THEN r
                  ELSE Done([r.fdt EXCEPT !.off_dt_strings = r.fdt.totalsize])
  IN  With(fdt_add_reservemap_entry(fdt, 0, 0), ended)

fdt_begin_node(fdt, name) ==
  IF fdt_sw_probe_struct_(fdt) # 0 THEN Fail(fdt, fdt_sw_probe_struct_(fdt))
  ELSE GrabAndPut(fdt, FDT_TAGSIZE + FDT_TAGALIGN(Len(name) + 1),
                  cpu_to_fdt32(FDT_BEGIN_NODE) \o Append(name, 0))

fdt_end_node(fdt) ==
  IF fdt_sw_probe_struct_(fdt) # 0 THEN Fail(fdt, fdt_sw_probe_struct_(fdt))
  ELSE GrabAndPut(fdt, FDT_TAGSIZE, cpu_to_fdt32(FDT_END_NODE))

(* The offset of a new string, 0 if there is no room, and the tree. *)
sw_add_string_(fdt, s) ==
  LET offset == fdt.size_dt_strings + Len(s) + 1
      struct_top == fdt.off_dt_struct + fdt.size_dt_struct
  IN  IF UInt(fdt.totalsize - offset) < struct_top THEN [nameoff |-> 0, fdt |-> fdt]
      ELSE [nameoff |-> -offset,
            fdt |-> [Put(fdt, fdt.totalsize - offset, Append(s, 0)) EXCEPT !.size_dt_strings = offset]]

sw_del_last_string_(fdt, s) == [fdt EXCEPT !.size_dt_strings = @ - (Len(s) + 1)]

sw_find_add_string_(fdt, s) ==
  LET added(str) == [nameoff |-> str.nameoff, fdt |-> str.fdt, allocated |-> TRUE]
      from(p) == IF p = NOWHERE THEN With(sw_add_string_(fdt, s), added)
                 ELSE [nameoff |-> p - fdt.totalsize, fdt |-> fdt, allocated |-> FALSE]
  IN  With(fdt_find_string_len_(fdt, fdt.totalsize - fdt.size_dt_strings, fdt.size_dt_strings, s), from)

(* A property whose value is not written yet: it is at ptr. *)
fdt_property_placeholder(fdt, name, len) ==
  LET fail(f) == [err |-> -FDT_ERR_NOSPACE, fdt |-> f, ptr |-> NOWHERE]
      put(str, grab) ==
        IF grab.ptr = NOWHERE
        THEN fail(IF str.allocated THEN sw_del_last_string_(grab.fdt, name) ELSE grab.fdt)
        ELSE [err |-> 0, ptr |-> grab.ptr + PROPERTY_SIZE,
              fdt |-> Put(grab.fdt, grab.ptr, cpu_to_fdt32(FDT_PROP) \o cpu_to_fdt32(len)
                                                \o cpu_to_fdt32(UInt(str.nameoff)))]
      named(str) == IF str.nameoff = 0 THEN fail(str.fdt)
                    ELSE With(fdt_grab_space_(str.fdt, PROPERTY_SIZE + FDT_TAGALIGN(len)),
                              LAMBDA grab : put(str, grab))
      new(str) == [nameoff |-> str.nameoff, fdt |-> str.fdt, allocated |-> TRUE]
  IN  IF fdt_sw_probe_struct_(fdt) # 0
      THEN [err |-> fdt_sw_probe_struct_(fdt), fdt |-> fdt, ptr |-> NOWHERE]
      ELSE IF fdt.last_comp_version = FDT_CREATE_FLAG_NO_NAME_DEDUP
      THEN With(new(sw_add_string_(fdt, name)), named)
      ELSE With(sw_find_add_string_(fdt, name), named)

fdt_property(fdt, name, val) ==
  LET filled(r) == IF r.err # 0 THEN Fail(r.fdt, r.err) ELSE Done(Put(r.fdt, r.ptr, val))
  IN  With(fdt_property_placeholder(fdt, name, Len(val)), filled)

(* The walk of fdt_finish from an offset on: a name is no longer in front   *)
(* of the end but behind the start of the strings.                         *)
RECURSIVE FixNames(_, _)
FixNames(fdt, offset) ==
  LET nameoffp == fdt.off_dt_struct + offset + (2 * FDT_TAGSIZE)
      fixed(t) == IF t.tag # FDT_PROP THEN fdt
                  ELSE Put(fdt, nameoffp, cpu_to_fdt32(UInt(fdt32_ld_(fdt, nameoffp)
                                                             + fdt.size_dt_strings)))
      from(t) == IF t.tag = FDT_END THEN Fail(fdt, IF t.next < 0 THEN t.next ELSE 0)
                 ELSE With(fixed(t), LAMBDA f : FixNames(f, t.next))
  IN  With(fdt_next_tag(fdt, offset), from)

fdt_finish(fdt) ==
  LET complete(r) ==
        IF r.err # 0 THEN r
        ELSE Done([r.fdt EXCEPT !.totalsize = r.fdt.off_dt_strings + r.fdt.size_dt_strings,
                                !.last_comp_version = FDT_LAST_COMPATIBLE_VERSION,
                                !.magic = "FDT_MAGIC"])
      relocated(f) ==
        LET newstroffset == f.off_dt_struct + f.size_dt_struct
        IN  [memmove(f, newstroffset, f.totalsize - f.size_dt_strings, f.size_dt_strings)
               EXCEPT !.off_dt_strings = newstroffset]
      ended(r) == IF r.err # 0 THEN r
                  ELSE With(FixNames(With(r.fdt, relocated), 0), complete)
  IN  IF fdt_sw_probe_struct_(fdt) # 0 THEN Fail(fdt, fdt_sw_probe_struct_(fdt))
      ELSE With(GrabAndPut(fdt, FDT_TAGSIZE, cpu_to_fdt32(FDT_END)), ended)

-----------------------------------------------------------------------------
(* fdt_rw.c: blocks in the order of the header, reservation map, structure  *)
(* and strings; a change makes room or closes a gap by moving all that is  *)
(* behind it.                                                              *)
fdt_blocks_misordered_(fdt, mem_rsv_size, struct_size) ==
  \/ fdt.off_mem_rsvmap < FDT_ALIGN(HEADER_SIZE, UINT64_SIZE)
  \/ fdt.off_dt_struct < fdt.off_mem_rsvmap + mem_rsv_size
  \/ fdt.off_dt_strings < fdt.off_dt_struct + struct_size
  \/ fdt.totalsize < fdt.off_dt_strings + fdt.size_dt_strings

fdt_downgrade_version(fdt) ==
  IF fdt.version > FDT_LAST_SUPPORTED_VERSION
  THEN [fdt EXCEPT !.version = FDT_LAST_SUPPORTED_VERSION] ELSE fdt

fdt_rw_probe_(fdt) ==
  IF fdt_ro_probe_(fdt) < 0 THEN fdt_ro_probe_(fdt)
  ELSE IF fdt.version < 17 THEN -FDT_ERR_BADVERSION
  ELSE IF fdt_blocks_misordered_(fdt, RESERVE_SIZE, fdt.size_dt_struct) THEN -FDT_ERR_BADLAYOUT
  ELSE 0

(* A call that starts with FDT_RW_PROBE. *)
Probed(fdt, Call(_)) ==
  IF fdt_rw_probe_(fdt) # 0 THEN Fail(fdt, fdt_rw_probe_(fdt))
  ELSE With(fdt_downgrade_version(fdt), Call)

fdt_data_size_(fdt) == fdt.off_dt_strings + fdt.size_dt_strings

(* newlen bytes in the place of oldlen. *)
fdt_splice_(fdt, p, oldlen, newlen) ==
  LET dsize == fdt_data_size_(fdt)
  IN  IF oldlen < 0 \/ p + oldlen > dsize \/ p < 0 \/ UInt(dsize + newlen) < oldlen
      THEN Fail(fdt, -FDT_ERR_BADOFFSET)
      ELSE IF UInt(dsize - oldlen + newlen) > fdt.totalsize THEN Fail(fdt, -FDT_ERR_NOSPACE)
      ELSE Done(memmove(fdt, p + newlen, p + oldlen, dsize - (p + oldlen)))

fdt_splice_mem_rsv_(fdt, p, oldn, newn) ==
  LET delta == (newn - oldn) * RESERVE_SIZE
      shifted(r) == IF r.err # 0 THEN r
                    ELSE Done([r.fdt EXCEPT !.off_dt_struct = @ + delta, !.off_dt_strings = @ + delta])
  IN  With(fdt_splice_(fdt, p, oldn * RESERVE_SIZE, newn * RESERVE_SIZE), shifted)

(* Mutant of fdt_splice_struct_: the strings block has not moved. *)
fdt_splice_struct_only(fdt, p, oldlen, newlen) ==
  LET sized(r) == IF r.err # 0 THEN r
                  ELSE Done([r.fdt EXCEPT !.size_dt_struct = @ + newlen - oldlen])
  IN  With(fdt_splice_(fdt, p, oldlen, newlen), sized)

fdt_splice_struct_(fdt, p, oldlen, newlen) ==
  LET delta == newlen - oldlen
      sized(r) == IF r.err # 0 THEN r
                  ELSE Done([r.fdt EXCEPT !.size_dt_struct = @ + delta, !.off_dt_strings = @ + delta])
  IN  With(fdt_splice_(fdt, p, oldlen, newlen), sized)

(* Mutant of fdt_del_last_string_: nothing is rolled back. *)
fdt_keep_last_string(fdt, s) == fdt

(* Rolls back; s has the length that was added. *)
fdt_del_last_string_(fdt, s) == [fdt EXCEPT !.size_dt_strings = @ - (Len(s) + 1)]

fdt_splice_string_(fdt, newlen) ==
  LET sized(r) == IF r.err # 0 THEN r ELSE Done([r.fdt EXCEPT !.size_dt_strings = @ + newlen])
  IN  With(fdt_splice_(fdt, fdt_data_size_(fdt), 0, newlen), sized)

(* The offset of a string in the strings block or an error, the tree, and   *)
(* whether the string is new.                                              *)
fdt_find_add_string_(fdt, s) ==
  LET new == fdt_data_size_(fdt)
      found(off, f, allocated) == [err |-> off, fdt |-> f, allocated |-> allocated]
      added(r) == IF r.err # 0 THEN found(r.err, r.fdt, FALSE)
                  ELSE found(new - fdt.off_dt_strings, Put(r.fdt, new, Append(s, 0)), TRUE)
      from(p) == IF p # NOWHERE THEN found(p - fdt.off_dt_strings, fdt, FALSE)
                 ELSE With(fdt_splice_string_(fdt, Len(s) + 1), added)
  IN  With(fdt_find_string_len_(fdt, fdt.off_dt_strings, fdt.size_dt_strings, s), from)

(* Where the n-th entry of the reservation map is, without a check. *)
fdt_mem_rsv_w_(fdt, n) == fdt.off_mem_rsvmap + (n * RESERVE_SIZE)

fdt_add_mem_rsv(fdt, address, size) ==
  LET put(r, re) == IF r.err # 0 THEN r
                    ELSE Done(Put(r.fdt, re, cpu_to_fdt64(address) \o cpu_to_fdt64(size)))
      at(f, n) == IF n < 0 THEN Fail(f, n)
                  ELSE With(fdt_splice_mem_rsv_(f, fdt_mem_rsv_w_(f, n), 0, 1),
                            LAMBDA r : put(r, fdt_mem_rsv_w_(f, n)))
      add(f) == With(fdt_num_mem_rsv(f), LAMBDA n : at(f, n))
  IN  Probed(fdt, add)

fdt_del_mem_rsv(fdt, n) ==
  LET of(f, num) == IF num < 0 THEN Fail(f, num)
                    ELSE IF n >= num THEN Fail(f, -FDT_ERR_NOTFOUND)
                    ELSE fdt_splice_mem_rsv_(f, fdt_mem_rsv_w_(f, n), 1, 0)
      del(f) == With(fdt_num_mem_rsv(f), LAMBDA num : of(f, num))
  IN  Probed(fdt, del)

-----------------------------------------------------------------------------
(* Where the property itself is; not for versions that align values. *)
fdt_get_property_w(fdt, nodeoffset, name) ==
  LET at(p) == [ptr |-> IF p.data = NOWHERE THEN NOWHERE ELSE p.data - PROPERTY_SIZE, len |-> p.len]
  IN  IF fdt.version < 16 THEN [ptr |-> NOWHERE, len |-> -FDT_ERR_BADVERSION]
      ELSE With(fdt_getprop(fdt, nodeoffset, name), at)

(* Both return the tree and where the property is. *)
fdt_resize_property_(fdt, nodeoffset, name, len) ==
  LET sized(r, prop) ==
        [err |-> r.err, prop |-> prop,
         fdt |-> IF r.err # 0 THEN r.fdt ELSE Put(r.fdt, prop + FDT_TAGSIZE, cpu_to_fdt32(len))]
      at(p) == IF p.ptr = NOWHERE THEN [err |-> p.len, prop |-> NOWHERE, fdt |-> fdt]
               ELSE With(fdt_splice_struct_(fdt, p.ptr + PROPERTY_SIZE,
                                            FDT_TAGALIGN(p.len), FDT_TAGALIGN(len)),
                         LAMBDA r : sized(r, p.ptr))
  IN  With(fdt_get_property_w(fdt, nodeoffset, name), at)

fdt_add_property_(fdt, nodeoffset, name, len) ==
  LET fail(f, err) == [err |-> err, prop |-> NOWHERE, fdt |-> f]
      put(r, str, prop) ==
        IF r.err # 0
        THEN fail(IF str.allocated THEN fdt_del_last_string_(r.fdt, name) ELSE r.fdt, r.err)
        ELSE [err |-> 0, prop |-> prop,
              fdt |-> Put(r.fdt, prop, cpu_to_fdt32(FDT_PROP) \o cpu_to_fdt32(len)
                                         \o cpu_to_fdt32(str.err))]
      named(str, prop) ==
        IF str.err < 0 THEN fail(str.fdt, str.err)
        ELSE With(fdt_splice_struct_(str.fdt, prop, 0, PROPERTY_SIZE + FDT_TAGALIGN(len)),
                  LAMBDA r : put(r, str, prop))
      at(nextoffset) == IF nextoffset < 0 THEN fail(fdt, nextoffset)
                        ELSE With(fdt_find_add_string_(fdt, name),
                                  LAMBDA str : named(str, fdt.off_dt_struct + nextoffset))
  IN  With(fdt_check_node_offset_(fdt, nodeoffset), at)

fdt_set_name(fdt, nodeoffset, name) ==
  LET put(r, namep) == IF r.err # 0 THEN r ELSE Done(Put(r.fdt, namep, Append(name, 0)))
      at(f, old) == IF old.ptr = NOWHERE THEN Fail(f, old.len)
                    ELSE With(fdt_splice_struct_(f, old.ptr, FDT_TAGALIGN(old.len + 1),
                                                 FDT_TAGALIGN(Len(name) + 1)),
                              LAMBDA r : put(r, old.ptr))
      set(f) == With(fdt_get_name(f, nodeoffset), LAMBDA old : at(f, old))
  IN  Probed(fdt, set)

(* The value of the property, still to be written, is at ptr. *)
fdt_setprop_placeholder_namelen(fdt, nodeoffset, name, len) ==
  LET at(r) == [err |-> r.err, fdt |-> r.fdt, ptr |-> r.prop + PROPERTY_SIZE]
  IN  Probed(fdt, LAMBDA f :
        With(fdt_resize_property_(f, nodeoffset, name, len), LAMBDA r :
          IF r.err = -FDT_ERR_NOTFOUND THEN With(fdt_add_property_(f, nodeoffset, name, len), at)
          ELSE at(r)))

fdt_setprop(fdt, nodeoffset, name, val) ==
  LET filled(r) == IF r.err # 0 THEN Fail(r.fdt, r.err) ELSE Done(Put(r.fdt, r.ptr, val))
  IN  With(fdt_setprop_placeholder_namelen(fdt, nodeoffset, name, Len(val)), filled)

fdt_appendprop(fdt, nodeoffset, name, val) ==
  LET longer(r, prop, oldlen) ==
        IF r.err # 0 THEN r
        ELSE Done(Put(Put(r.fdt, prop + FDT_TAGSIZE, cpu_to_fdt32(oldlen + Len(val))),
                      prop + PROPERTY_SIZE + oldlen, val))
      new(r) == IF r.err # 0 THEN Fail(r.fdt, r.err)
                ELSE Done(Put(r.fdt, r.prop + PROPERTY_SIZE, val))
      at(f, p) ==
        IF p.ptr = NOWHERE THEN With(fdt_add_property_(f, nodeoffset, name, Len(val)), new)
        ELSE With(fdt_splice_struct_(f, p.ptr + PROPERTY_SIZE, FDT_TAGALIGN(p.len),
                                     FDT_TAGALIGN(p.len + Len(val))),
                  LAMBDA r : longer(r, p.ptr, p.len))
      append(f) == With(fdt_get_property_w(f, nodeoffset, name), LAMBDA p : at(f, p))
  IN  Probed(fdt, append)

fdt_delprop(fdt, nodeoffset, name) ==
  LET at(f, p) == IF p.ptr = NOWHERE THEN Fail(f, p.len)
                  ELSE fdt_splice_struct_(f, p.ptr, PROPERTY_SIZE + FDT_TAGALIGN(p.len), 0)
      del(f) == With(fdt_get_property_w(f, nodeoffset, name), LAMBDA p : at(f, p))
  IN  Probed(fdt, del)

(* The offset behind the properties from an offset on. *)
RECURSIVE SkipProperties(_, _)
SkipProperties(fdt, offset) ==
  LET from(t) == IF t.tag \in {FDT_PROP, FDT_NOP} THEN SkipProperties(fdt, t.next) ELSE offset
  IN  With(fdt_next_tag(fdt, offset), from)

(* The result is the offset of the new node, or an error. *)
fdt_add_subnode_namelen(fdt, parentoffset, name) ==
  LET namesize == FDT_TAGALIGN(Len(name) + 1)
      nodelen == FDT_TAGSIZE + namesize + FDT_TAGSIZE
      node == cpu_to_fdt32(FDT_BEGIN_NODE) \o [i \in 1 .. namesize |-> IF i <= Len(name) THEN name[i] ELSE 0]
                \o cpu_to_fdt32(FDT_END_NODE)
      put(r, offset) == IF r.err # 0 THEN r
                        ELSE [err |-> offset, fdt |-> Put(r.fdt, r.fdt.off_dt_struct + offset, node)]
      place(f, offset) == With(fdt_splice_struct_(f, f.off_dt_struct + offset, 0, nodelen),
                               LAMBDA r : put(r, offset))
      behind(f, t) == IF t.tag # FDT_BEGIN_NODE THEN Fail(f, -FDT_ERR_INTERNAL)
                      ELSE With(SkipProperties(f, t.next), LAMBDA offset : place(f, offset))
      unless(f, offset) == IF offset >= 0 THEN Fail(f, -FDT_ERR_EXISTS)
                           ELSE IF offset # -FDT_ERR_NOTFOUND THEN Fail(f, offset)
                           ELSE With(fdt_next_tag(f, parentoffset), LAMBDA t : behind(f, t))
      add(f) == With(fdt_subnode_offset_namelen(f, parentoffset, name), LAMBDA offset : unless(f, offset))
  IN  Probed(fdt, add)

(* The offset behind a node, from the node at on. *)
RECURSIVE NodeEndFrom(_, _)
NodeEndFrom(fdt, at) ==
  IF at.offset < 0 \/ at.depth < 0 THEN at.offset
  ELSE With(fdt_next_node(fdt, at.offset, at.depth), LAMBDA next : NodeEndFrom(fdt, next))

fdt_node_end_offset_(fdt, offset) == NodeEndFrom(fdt, [offset |-> offset, depth |-> 0])

fdt_del_node(fdt, nodeoffset) ==
  LET upto(f, endoffset) == IF endoffset < 0 THEN Fail(f, endoffset)
                            ELSE fdt_splice_struct_(f, f.off_dt_struct + nodeoffset,
                                                    endoffset - nodeoffset, 0)
      del(f) == With(fdt_node_end_offset_(f, nodeoffset), LAMBDA endoffset : upto(f, endoffset))
  IN  Probed(fdt, del)

-----------------------------------------------------------------------------
(* Moves the blocks of a tree behind each other, to offset new. *)
fdt_packblocks_(fdt, new, mem_rsv_size, struct_size, strings_size) ==
  LET mem_rsv_off == FDT_ALIGN(HEADER_SIZE, UINT64_SIZE)
      struct_off == mem_rsv_off + mem_rsv_size
      strings_off == struct_off + struct_size
      rsv == memmove(fdt, new + mem_rsv_off, fdt.off_mem_rsvmap, mem_rsv_size)
      struct == memmove(rsv, new + struct_off, fdt.off_dt_struct, struct_size)
  IN  [memmove(struct, new + strings_off, fdt.off_dt_strings, strings_size)
         EXCEPT !.off_mem_rsvmap = mem_rsv_off, !.off_dt_struct = struct_off,
                !.size_dt_struct = struct_size, !.off_dt_strings = strings_off]

fdt_move(fdt, buf, bufsize) ==
  IF bufsize < 0 THEN Fail(fdt, -FDT_ERR_NOSPACE)
  ELSE IF fdt_ro_probe_(fdt) < 0 THEN Fail(fdt, fdt_ro_probe_(fdt))
  ELSE IF fdt.totalsize > bufsize THEN Fail(fdt, -FDT_ERR_NOSPACE)
  ELSE Done(Rebased(memmove(fdt, buf, 0, fdt.totalsize), buf))

(* The offset behind the FDT_END from an offset on, or an error. *)
RECURSIVE StructSizeFrom(_, _)
StructSizeFrom(fdt, offset) ==
  LET from(t) == IF t.tag = FDT_END THEN t.next ELSE StructSizeFrom(fdt, t.next)
  IN  With(fdt_next_tag(fdt, offset), from)

(* A tree of version 16 or 17, with its blocks in any order, becomes one    *)
(* that fdt_rw.c accepts, in a buffer at offset buf.                       *)
fdt_open_into(fdt, buf, bufsize) ==
  LET moved(r, struct_size) ==
        IF r.err # 0 THEN r
        ELSE Done([r.fdt EXCEPT !.version = 17, !.size_dt_struct = struct_size,
                                !.totalsize = bufsize])
      reordered(f, tmp, newsize) ==
        Done(Rebased([memmove(f, buf, tmp, newsize) EXCEPT !.magic = "FDT_MAGIC", !.totalsize = bufsize,
                                                           !.version = 17, !.last_comp_version = 16], buf))
      reorder(mem_rsv_size, struct_size, newsize) ==
        LET overlaps == buf + newsize > 0 /\ buf < fdt.totalsize
            tmp == IF overlaps THEN fdt.totalsize ELSE buf
        IN  IF bufsize < newsize \/ (overlaps /\ tmp + newsize > buf + bufsize)
            THEN Fail(fdt, -FDT_ERR_NOSPACE)
            ELSE With(fdt_packblocks_(fdt, tmp, mem_rsv_size, struct_size, fdt.size_dt_strings),
                      LAMBDA f : reordered(f, tmp, newsize))
      sized(mem_rsv_size, struct_size) ==
        IF struct_size < 0 THEN Fail(fdt, struct_size)
        ELSE IF ~fdt_blocks_misordered_(fdt, mem_rsv_size, struct_size)
        THEN With(fdt_move(fdt, buf, bufsize), LAMBDA r : moved(r, struct_size))
        ELSE reorder(mem_rsv_size, struct_size,
                     FDT_ALIGN(HEADER_SIZE, UINT64_SIZE) + mem_rsv_size + struct_size + fdt.size_dt_strings)
      counted(n) ==
        IF n < 0 THEN Fail(fdt, n)
        ELSE IF fdt.version < 16 THEN Fail(fdt, -FDT_ERR_BADVERSION)
        ELSE With(IF fdt.version >= 17 THEN fdt.size_dt_struct ELSE StructSizeFrom(fdt, 0),
                  LAMBDA struct_size : sized((n + 1) * RESERVE_SIZE, struct_size))
  IN  IF fdt_ro_probe_(fdt) < 0 THEN Fail(fdt, fdt_ro_probe_(fdt)) ELSE With(fdt_num_mem_rsv(fdt), counted)

fdt_pack(fdt) ==
  LET sized(f) == Done([f EXCEPT !.totalsize = fdt_data_size_(f)])
      counted(f, n) == IF n < 0 THEN Fail(f, n)
                       ELSE With(fdt_packblocks_(f, 0, (n + 1) * RESERVE_SIZE, f.size_dt_struct,
                                                  f.size_dt_strings), sized)
      pack(f) == With(fdt_num_mem_rsv(f), LAMBDA n : counted(f, n))
  IN  Probed(fdt, pack)

fdt_create_empty_tree(buf, bufsize) ==
  LET then(result, Call(_)) == With(result, LAMBDA r : IF r.err # 0 THEN r ELSE Call(r.fdt))
      begin(f) == fdt_begin_node(f, <<>>)
      open(f) == fdt_open_into(f, 0, bufsize)
  IN  then(then(then(then(then(fdt_create_with_flags(buf, bufsize, 0), fdt_finish_reservemap), begin),
                     fdt_end_node), fdt_finish), open)

-----------------------------------------------------------------------------
(* fdt_wip.c: nothing moves. *)
fdt_setprop_inplace_namelen_partial(fdt, nodeoffset, name, idx, val) ==
  LET at(p) == IF p.data = NOWHERE THEN Fail(fdt, p.len)
               ELSE IF p.len < Len(val) + idx THEN Fail(fdt, -FDT_ERR_NOSPACE)
               ELSE Done(Put(fdt, p.data + idx, val))
  IN  With(fdt_getprop(fdt, nodeoffset, name), at)

fdt_setprop_inplace(fdt, nodeoffset, name, val) ==
  LET at(p) == IF p.data = NOWHERE THEN Fail(fdt, p.len)
               ELSE IF p.len # Len(val) THEN Fail(fdt, -FDT_ERR_NOSPACE)
               ELSE fdt_setprop_inplace_namelen_partial(fdt, nodeoffset, name, 0, val)
  IN  With(fdt_getprop(fdt, nodeoffset, name), at)

(* Whole cells, so that the padding of the last value is overwritten too. *)
fdt_nop_region_(fdt, start, len) ==
  LET nops == [i \in 1 .. FDT_TAGALIGN(len) |->
                 cpu_to_fdt32(FDT_NOP)[IF i % FDT_TAGSIZE = 1 THEN 1 ELSE 2]]
  IN  Put(fdt, start, nops)

fdt_nop_property(fdt, nodeoffset, name) ==
  LET at(p) == IF p.ptr = NOWHERE THEN Fail(fdt, p.len)
               ELSE Done(fdt_nop_region_(fdt, p.ptr, p.len + PROPERTY_SIZE))
  IN  With(fdt_get_property_w(fdt, nodeoffset, name), at)

fdt_nop_node(fdt, nodeoffset) ==
  LET upto(endoffset) ==
        IF endoffset < 0 THEN Fail(fdt, endoffset)
        ELSE Done(fdt_nop_region_(fdt, fdt.off_dt_struct + nodeoffset, endoffset - nodeoffset))
  IN  With(fdt_node_end_offset_(fdt, nodeoffset), upto)

(* An address and a size, in the cells of the parent, behind a property. *)
fdt_appendprop_addrrange(fdt, parent, nodeoffset, name, addr, size) ==
  LET one_cell(x) == cpu_to_fdt32(x % CELL_RANGE)
      value(cells, x) == IF cells = 1 THEN one_cell(x) ELSE cpu_to_fdt64(x)
      checked(ac, sc) ==
        CASE ac < 0 -> Fail(fdt, ac)
          [] ac >= 0 /\ sc < 0 -> Fail(fdt, sc)
          [] ac = 1 /\ sc >= 0 /\ (addr >= CELL_RANGE \/ CELL_RANGE - addr < size) ->
               Fail(fdt, -FDT_ERR_BADVALUE)
          [] ac \notin {1, 2} /\ ac >= 0 /\ sc >= 0 -> Fail(fdt, -FDT_ERR_BADNCELLS)
          [] OTHER -> IF sc = 1 /\ size >= CELL_RANGE THEN Fail(fdt, -FDT_ERR_BADVALUE)
                      ELSE IF sc \notin {1, 2} THEN Fail(fdt, -FDT_ERR_BADNCELLS)
                      ELSE fdt_appendprop(fdt, nodeoffset, name, value(ac, addr) \o value(sc, size))
  IN  With(<<fdt_address_cells(fdt, parent), fdt_size_cells(fdt, parent)>>,
           LAMBDA cells : checked(cells[1], cells[2]))
=============================================================================

------------------------------- MODULE FdtCheck ------------------------------
(***************************************************************************)
(* How the kernel verifies the device tree it is passed: check_device_tree *)
(* (src/src/init_devices.c) calls fdt_check_header and fdt_check_full      *)
(* (src/libfdt/fdt_check.c), which looks at one tag after the other.       *)
(***************************************************************************)
EXTENDS FdtTag

CONSTANT Trees   \* the flattened trees a machine may pass to the kernel

(* The fields of a header are cells, with any values, and the bytes that    *)
(* an acceptable header counts are in memory, with any values.             *)
IsTree(t) ==
  /\ t.address \in Nat
  /\ {t.version, t.last_comp_version, t.totalsize, t.off_mem_rsvmap, t.off_dt_struct,
      t.size_dt_struct, t.off_dt_strings, t.size_dt_strings} \subseteq Cell
  /\ fdt_check_header(t) = 0 =>
       \A p \in 0 .. t.totalsize - 1 : p \in DOMAIN t.bytes /\ t.bytes[p] \in 0 .. BYTE_RANGE - 1

ASSUME TreesAssumption == \A t \in Trees : IsTree(t)

VARIABLES
  fdt,          \* the tree, never written
  pc,           \* "header", "full", "tags", "ok", "refused", "spinning"
  nextoffset, depth, expect_end,   \* of fdt_check_full
  err,          \* the error check_device_tree panics with
  tags          \* history: the tags fdt_check_full has seen

checker == <<nextoffset, depth, expect_end, tags>>
checkVars == <<fdt, pc, checker, err>>

CheckInit ==
  /\ fdt \in Trees
  /\ pc = "header"
  /\ nextoffset = 0 /\ depth = 0 /\ expect_end = FALSE
  /\ err = 0
  /\ tags = <<>>

(* The first call of check_device_tree. *)
check_device_tree ==
  /\ pc = "header"
  /\ err' = fdt_check_header(fdt)
  /\ pc' = IF err' = 0 THEN "full" ELSE "refused"
  /\ UNCHANGED <<fdt, checker>>

(* fdt_check_full up to its loop.  The size of the buffer is the size that *)
(* the tree itself states.                                                 *)
fdt_check_full ==
  /\ pc = "full"
  /\ LET rsv == fdt_num_mem_rsv(fdt)
     IN  err' = IF fdt.totalsize < fdt_header_size(fdt) THEN -FDT_ERR_TRUNCATED
                ELSE IF fdt_check_header(fdt) # 0 THEN fdt_check_header(fdt)
                ELSE IF rsv < 0 THEN rsv ELSE 0
  /\ pc' = IF err' = 0 THEN "tags" ELSE "refused"
  /\ UNCHANGED <<fdt, checker>>

(* Error for a root whose name is not empty. *)
RootNameError ==
  LET err_of(name) == IF name.ptr = NOWHERE THEN name.len
                      ELSE IF name.len # 0 THEN -FDT_ERR_BADSTRUCTURE ELSE 0
  IN  err_of(fdt_get_name(fdt, nextoffset))

(* Error for a property whose name is not in the strings block. *)
PropNameError ==
  LET err_of(prop) == IF prop.data = NOWHERE THEN prop.len ELSE 0
  IN  err_of(fdt_getprop_by_offset(fdt, nextoffset))

(* Why a tag makes fdt_check_full fail, or 0; over if the root has ended. *)
TagErrorIf(t, over) ==
  IF t.next < 0 THEN t.next
  ELSE IF over /\ t.tag \notin {FDT_END, FDT_NOP} THEN -FDT_ERR_BADSTRUCTURE
  ELSE CASE t.tag = FDT_END -> IF depth # 0 THEN -FDT_ERR_BADSTRUCTURE ELSE 0
         [] t.tag = FDT_BEGIN_NODE ->
              IF depth + 1 > INT_MAX THEN -FDT_ERR_BADSTRUCTURE
              ELSE IF depth = 0 THEN RootNameError ELSE 0
         [] t.tag = FDT_END_NODE -> IF depth = 0 THEN -FDT_ERR_BADSTRUCTURE ELSE 0
         [] t.tag = FDT_PROP -> PropNameError
         [] OTHER -> 0

(* Mutant of TagError: a node may end that has not begun. *)
TagErrorUnbalanced(t) ==
  IF t.tag = FDT_END_NODE /\ t.next >= 0 THEN 0 ELSE TagErrorIf(t, expect_end)

(* Mutant of TagError: the end of the root is forgotten. *)
TagErrorTwoRoots(t) == TagErrorIf(t, FALSE)

TagError(t) == TagErrorIf(t, expect_end)

(* fdt_get_name does not return from strrchr. *)
Spins(t) ==
  /\ t.next >= 0 /\ ~expect_end /\ t.tag = FDT_BEGIN_NODE /\ depth = 0
  /\ fdt_get_name(fdt, nextoffset).ptr = FOREVER

(* One iteration of the loop of fdt_check_full. *)
fdt_check_full_tag ==
  /\ pc = "tags"
  /\ \E t \in {fdt_next_tag(fdt, nextoffset)} : \E spins \in {Spins(t)} :
       \/ /\ spins
          /\ pc' = "spinning"
          /\ UNCHANGED <<err, checker>>
       \/ /\ ~spins
          /\ err' = TagError(t)
          /\ err' # 0
          /\ pc' = "refused"
          /\ UNCHANGED checker
       \/ /\ ~spins
          /\ TagError(t) = 0
          /\ nextoffset' = t.next
          /\ depth' = CASE t.tag = FDT_BEGIN_NODE -> depth + 1
                        [] t.tag = FDT_END_NODE -> depth - 1
                        [] OTHER -> depth
          /\ expect_end' = (expect_end \/ (t.tag = FDT_END_NODE /\ depth' = 0))
          /\ tags' = Append(tags, [offset |-> nextoffset, tag |-> t.tag, next |-> t.next])
          /\ pc' = IF t.tag = FDT_END THEN "ok" ELSE "tags"
          /\ UNCHANGED err
  /\ UNCHANGED fdt

CheckNext == check_device_tree \/ fdt_check_full \/ fdt_check_full_tag

CheckSpec == CheckInit /\ [][CheckNext]_checkVars

-----------------------------------------------------------------------------
(* Reference definitions, on the sequence of tags.                         *)
Accepted == pc = "ok"

Nodes == {i \in DOMAIN tags : tags[i].tag = FDT_BEGIN_NODE}

(* How many nodes are open behind the k-th tag. *)
OpenBehind(k) == Cardinality({i \in Nodes : i <= k})
                   - Cardinality({i \in 1 .. k : tags[i].tag = FDT_END_NODE})

(* The number in the cell at address p of a tree. *)
Number(t, p) == (t.bytes[p] * BYTE_RANGE) + t.bytes[p + 1]

(* The name of the property at an offset ends in the strings block, which    *)
(* has no size before version 17.                                          *)
NameInside(t, offset) ==
  LET name == t.off_dt_strings + Number(t, t.off_dt_struct + offset + (2 * FDT_TAGSIZE))
      end == IF t.version < 17 THEN t.totalsize ELSE t.off_dt_strings + t.size_dt_strings
  IN  \E nul \in name .. end - 1 : t.bytes[nul] = 0

-----------------------------------------------------------------------------
(* A header that passes fdt_check_header describes blocks that lie in the   *)
(* tree behind the header, although the sums are computed with wrap-around. *)
HeaderBlocksInside ==
  LET inside(base, size) == fdt_header_size(fdt) <= base /\ base + size <= fdt.totalsize
  IN  /\ inside(fdt.off_mem_rsvmap, 0)
      /\ inside(fdt.off_dt_strings, fdt.size_dt_strings)
      /\ inside(fdt.off_dt_struct, IF fdt.version < 17 THEN 0 ELSE fdt.size_dt_struct)

(* Whatever bytes the kernel is passed, if fdt_check_header accepts them    *)
(* then the blocks lie in the tree, and if fdt_check_full does then the    *)
(* tags tile a part of the tree and of the structure block, every node     *)
(* that begins ends, none ends that has not begun, there is at most one    *)
(* root, and every property has a name in the strings block.               *)
AcceptedIsTree ==
  /\ pc \notin {"header", "refused"} => HeaderBlocksInside
  /\ Accepted =>
       /\ \A k \in 1 .. Len(tags) - 1 : OpenBehind(k) >= 0 /\ tags[k + 1].offset = tags[k].next
       /\ OpenBehind(Len(tags)) = 0
       /\ Cardinality({i \in Nodes : OpenBehind(i) = 1}) <= 1
       /\ fdt.off_dt_struct + tags[Len(tags)].next <= fdt.totalsize
       /\ fdt.version >= 17 => tags[Len(tags)].next <= fdt.size_dt_struct
       /\ \A k \in DOMAIN tags : tags[k].tag = FDT_PROP => NameInside(fdt, tags[k].offset)

(* Every tag leads further into the tree, whatever lengths it states, so    *)
(* that the loop of fdt_check_full ends unless the name of the root keeps   *)
(* it in strrchr (pc = "spinning").                                        *)
WalksAdvance == [][tags' # tags => nextoffset' > nextoffset]_checkVars
=============================================================================

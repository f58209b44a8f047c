-------------------------------- MODULE FdtTag -------------------------------
(***************************************************************************)
(* The part of libfdt that fdt_check_full calls: the header, the tags of   *)
(* the structure block one by one, names and the reservation map           *)
(* (src/libfdt/fdt.c, fdt_ro.c and fdt_check.c), with no assumption        *)
(* enabled (FDT_ASSUME_MASK is 0).                                         *)
(*                                                                         *)
(* A tree fdt is a record of the fields of its header and of its bytes, a  *)
(* function from offsets; `address` is where it was loaded, in bytes.       *)
(* A cell has two bytes with BYTE_RANGE values, so that unsigned int wraps *)
(* at CELL_RANGE.  A function that returns a pointer returns an offset     *)
(* from the start of the tree here, or NOWHERE.                            *)
(***************************************************************************)
EXTENDS DeviceTree, KString

(* Op(v), with v evaluated once. *)
With(v, Op(_)) == CHOOSE result \in {Op(x) : x \in {v}} : TRUE

FDT_TAGSIZE == 2
UINT64_SIZE == 2 * FDT_TAGSIZE
INT_MAX == (CELL_RANGE \div 2) - 1

UInt(x) == x % CELL_RANGE
Int32(x) == IF UInt(x) > INT_MAX THEN UInt(x) - CELL_RANGE ELSE UInt(x)

FDT_BEGIN_NODE == 1
FDT_END_NODE == 2
FDT_PROP == 3
FDT_NOP == 4
FDT_END == 9

FDT_ERR_BADOFFSET == 4
FDT_ERR_BADSTATE == 7
FDT_ERR_TRUNCATED == 8
FDT_ERR_BADMAGIC == 9
FDT_ERR_BADVERSION == 10
FDT_ERR_BADSTRUCTURE == 11
FDT_ERR_INTERNAL == 13
FDT_ERR_BADNCELLS == 14
FDT_ERR_ALIGNMENT == 19

FDT_FIRST_SUPPORTED_VERSION == 2
FDT_LAST_SUPPORTED_VERSION == 17
FDT_MAX_NCELLS == 4

(* sizeof(struct fdt_property), sizeof(struct fdt_reserve_entry) *)
PROPERTY_SIZE == 3 * FDT_TAGSIZE
RESERVE_SIZE == 2 * UINT64_SIZE

FDT_TAGALIGN(x) == ((x + FDT_TAGSIZE - 1) \div FDT_TAGSIZE) * FDT_TAGSIZE

(* A cell has room for every tag. *)
ASSUME TagAssumption == FDT_END < CELL_RANGE

\* The character '/'.
SLASH == 15

fdt32_ld_(fdt, p) == fdt32_to_cpu(Load((fdt.bytes[p] * BYTE_RANGE) + fdt.bytes[p + 1]))

-----------------------------------------------------------------------------
(* The size of the tree, or an error. *)
fdt_ro_probe_(fdt) ==
  CASE fdt.address % 8 # 0 -> -FDT_ERR_ALIGNMENT
    [] fdt.address % 8 = 0 /\ fdt.magic = "FDT_MAGIC"
         /\ (fdt.version < FDT_FIRST_SUPPORTED_VERSION
              \/ fdt.last_comp_version > FDT_LAST_SUPPORTED_VERSION) -> -FDT_ERR_BADVERSION
    [] fdt.address % 8 = 0 /\ fdt.magic = "FDT_SW_MAGIC" /\ fdt.size_dt_struct = 0 ->
         -FDT_ERR_BADSTATE
    [] fdt.address % 8 = 0 /\ fdt.magic \notin {"FDT_MAGIC", "FDT_SW_MAGIC"} -> -FDT_ERR_BADMAGIC
    [] OTHER -> IF fdt.totalsize < INT_MAX THEN fdt.totalsize ELSE -FDT_ERR_TRUNCATED

check_off_(hdrsize, totalsize, off) == off >= hdrsize /\ off <= totalsize

(* Mutant of check_block_: the sum may wrap. *)
check_block_wrapping(hdrsize, totalsize, base, size) ==
  check_off_(hdrsize, totalsize, base) /\ check_off_(0, totalsize, UInt(base + size))

check_block_(hdrsize, totalsize, base, size) ==
  /\ check_off_(hdrsize, totalsize, base)
  /\ UInt(base + size) >= base
  /\ check_off_(hdrsize, totalsize, UInt(base + size))

fdt_header_size(fdt) ==
  FDT_TAGSIZE * (CASE fdt.version <= 1 -> 7
                   [] fdt.version = 2 -> 8
                   [] fdt.version \in 3 .. 16 -> 9
                   [] OTHER -> 10)

fdt_check_header(fdt) ==
  LET hdrsize == fdt_header_size(fdt)
      inside(base, size) == check_block_(hdrsize, fdt.totalsize, base, size)
  IN  IF fdt.address % 8 # 0 THEN -FDT_ERR_ALIGNMENT
      ELSE IF fdt.magic # "FDT_MAGIC" THEN -FDT_ERR_BADMAGIC
      ELSE IF \/ fdt.version < FDT_FIRST_SUPPORTED_VERSION
              \/ fdt.last_comp_version > FDT_LAST_SUPPORTED_VERSION
              \/ fdt.version < fdt.last_comp_version
           THEN -FDT_ERR_BADVERSION
      ELSE IF fdt.totalsize < hdrsize \/ fdt.totalsize > INT_MAX THEN -FDT_ERR_TRUNCATED
      ELSE IF fdt.off_mem_rsvmap % UINT64_SIZE # 0 \/ fdt.off_dt_struct % FDT_TAGSIZE # 0
           THEN -FDT_ERR_ALIGNMENT
      ELSE IF /\ check_off_(hdrsize, fdt.totalsize, fdt.off_mem_rsvmap)
              /\ IF fdt.version < 17
                 THEN check_off_(hdrsize, fdt.totalsize, fdt.off_dt_struct)
                 ELSE inside(fdt.off_dt_struct, fdt.size_dt_struct)
              /\ inside(fdt.off_dt_strings, fdt.size_dt_strings)
           THEN 0
      ELSE -FDT_ERR_TRUNCATED

-----------------------------------------------------------------------------
(* Where len bytes from an offset of the structure block on are, if they   *)
(* are in the tree and, from version 17 on, in the structure block.        *)
fdt_offset_ptr(fdt, offset, len) ==
  LET inside(absoffset) ==
        /\ offset >= 0
        /\ absoffset >= offset /\ UInt(absoffset + len) >= absoffset
        /\ UInt(absoffset + len) <= fdt.totalsize
        /\ fdt.version >= 17 => /\ UInt(offset + len) >= offset
                                /\ UInt(offset + len) <= fdt.size_dt_struct
      absoffset == UInt(offset + fdt.off_dt_struct)
  IN  IF inside(absoffset) THEN absoffset ELSE NOWHERE

(* The offset behind the NUL of the name at an offset. *)
SkipName(fdt, offset) ==
  LET ends(o) == \/ fdt_offset_ptr(fdt, o, 1) = NOWHERE
                 \/ fdt.bytes[fdt_offset_ptr(fdt, o, 1)] = 0
  IN  With(CHOOSE o \in offset .. offset + fdt.totalsize :
             ends(o) /\ \A q \in offset .. o - 1 : ~ends(q),
           LAMBDA end : IF fdt_offset_ptr(fdt, end, 1) = NOWHERE THEN NOWHERE ELSE end + 1)

(* Mutant of SkipProp: any length is believed. *)
SkipPropUnchecked(fdt, offset) ==
  LET lenp == fdt_offset_ptr(fdt, offset, FDT_TAGSIZE)
  IN  IF lenp = NOWHERE THEN NOWHERE
      ELSE Int32(offset + PROPERTY_SIZE - FDT_TAGSIZE + fdt32_ld_(fdt, lenp))

(* The offset behind the value of a property whose length is at an offset; *)
(* before version 16 values of 8 bytes and more are aligned.               *)
SkipProp(fdt, offset) ==
  LET behind(len, end) ==
        IF INT_MAX <= UInt(len + offset) \/ UInt(len + offset) < offset THEN NOWHERE
        ELSE IF fdt.version < 16 /\ len >= UINT64_SIZE /\ UInt(end - len) % UINT64_SIZE # 0
        THEN end + FDT_TAGSIZE ELSE end
  IN  With(fdt_offset_ptr(fdt, offset, FDT_TAGSIZE), LAMBDA lenp :
        IF lenp = NOWHERE THEN NOWHERE
        ELSE With(fdt32_ld_(fdt, lenp), LAMBDA len :
               behind(len, Int32(offset + PROPERTY_SIZE - FDT_TAGSIZE + len))))

SkipTag(fdt, tag, offset) ==
  CASE tag = FDT_BEGIN_NODE -> SkipName(fdt, offset)
    [] tag = FDT_PROP -> SkipProp(fdt, offset)
    [] tag \in {FDT_END, FDT_END_NODE, FDT_NOP} -> offset
    [] OTHER -> NOWHERE

(* A tag and the offset of the next, if all of it is in the tree. *)
CheckedTag(fdt, tag, startoffset, offset) ==
  IF offset = NOWHERE \/ fdt_offset_ptr(fdt, startoffset, UInt(offset - startoffset)) = NOWHERE
  THEN [tag |-> FDT_END, next |-> -FDT_ERR_BADSTRUCTURE]
  ELSE [tag |-> tag, next |-> FDT_TAGALIGN(offset)]

(* The tag at an offset and the offset of the next, FDT_END and an error   *)
(* if the tag is not whole.                                                *)
fdt_next_tag(fdt, startoffset) ==
  With(fdt_offset_ptr(fdt, startoffset, FDT_TAGSIZE), LAMBDA tagp :
    IF tagp = NOWHERE THEN [tag |-> FDT_END, next |-> -FDT_ERR_TRUNCATED]
    ELSE With(fdt32_ld_(fdt, tagp), LAMBDA tag :
           With(SkipTag(fdt, tag, startoffset + FDT_TAGSIZE), LAMBDA offset :
             CheckedTag(fdt, tag, startoffset, offset))))

(* The offset behind the tag at an offset, if it is the expected one. *)
CheckTagOffset(fdt, offset, tag) ==
  IF offset < 0 \/ offset % FDT_TAGSIZE # 0 THEN -FDT_ERR_BADOFFSET
  ELSE With(fdt_next_tag(fdt, offset), LAMBDA t : IF t.tag # tag THEN -FDT_ERR_BADOFFSET ELSE t.next)

fdt_check_node_offset_(fdt, offset) == CheckTagOffset(fdt, offset, FDT_BEGIN_NODE)
fdt_check_prop_offset_(fdt, offset) == CheckTagOffset(fdt, offset, FDT_PROP)

-----------------------------------------------------------------------------
(* A string of the strings block: where it starts and its length, or      *)
(* NOWHERE and an error.  A tree being written (fdt_sw.c) has its strings  *)
(* in front of the end, at negative offsets.                               *)
fdt_get_string(fdt, stroffset) ==
  LET sw == fdt.magic = "FDT_SW_MAGIC"
      in_block == IF sw THEN stroffset < 0 /\ UInt(-stroffset) <= fdt.size_dt_strings
                  ELSE stroffset >= 0 /\ (fdt.version >= 17 => stroffset < fdt.size_dt_strings)
      limit(room) == IF sw THEN UInt(-stroffset)
                     ELSE IF fdt.version >= 17 THEN fdt.size_dt_strings - stroffset ELSE room
      fail(err) == [ptr |-> NOWHERE, len |-> err]
      upto(absoffset, nul) == IF nul = NOWHERE THEN fail(-FDT_ERR_TRUNCATED)
                              ELSE [ptr |-> absoffset, len |-> nul - absoffset]
      from(absoffset, room) ==
        IF room <= 0 \/ ~in_block THEN fail(-FDT_ERR_BADOFFSET)
        ELSE upto(absoffset, memchr(fdt.bytes, absoffset, 0,
                                    IF limit(room) < room THEN limit(room) ELSE room))
      in(absoffset, totalsize) == IF totalsize < 0 THEN fail(totalsize)
                                  ELSE from(absoffset, totalsize - absoffset)
  IN  in(UInt(stroffset + fdt.off_dt_strings), fdt_ro_probe_(fdt))

(* Where the n-th entry of the memory reservation map is. *)
fdt_mem_rsv(fdt, n) ==
  LET absoffset == UInt(fdt.off_mem_rsvmap + (n * RESERVE_SIZE))
  IN  IF absoffset < fdt.off_mem_rsvmap \/ absoffset > UInt(fdt.totalsize - RESERVE_SIZE)
      THEN NOWHERE ELSE absoffset

(* Number of entries of the memory reservation map, up to the one of size   *)
(* 0.                                                                      *)
fdt_num_mem_rsv(fdt) ==
  LET stops(i) == \/ fdt_mem_rsv(fdt, i) = NOWHERE
                  \/ \A b \in UINT64_SIZE .. RESERVE_SIZE - 1 : fdt.bytes[fdt_mem_rsv(fdt, i) + b] = 0
      end == CHOOSE i \in 0 .. CELL_RANGE : stops(i) /\ \A j \in 0 .. i - 1 : ~stops(j)
  IN  IF fdt_ro_probe_(fdt) < 0 THEN fdt_ro_probe_(fdt)
      ELSE IF fdt_mem_rsv(fdt, end) = NOWHERE THEN -FDT_ERR_TRUNCATED ELSE end

(* A node's name: where it is and its length, or an error.  Before version *)
(* 16 it is what follows a slash.                                          *)
fdt_get_name(fdt, nodeoffset) ==
  LET fail(err) == [ptr |-> NOWHERE, len |-> err]
      named(p) == [ptr |-> p, len |-> strlen(fdt.bytes, p)]
      behind(leaf) == IF leaf = NOWHERE THEN fail(-FDT_ERR_BADSTRUCTURE)
                      ELSE IF leaf = FOREVER THEN [ptr |-> FOREVER, len |-> 0]
                      ELSE named(leaf + 1)
      name == fdt.off_dt_struct + nodeoffset + FDT_TAGSIZE
      at(probe, next) == IF probe < 0 THEN fail(probe)
                         ELSE IF next < 0 THEN fail(next)
                         ELSE IF fdt.version >= 16 THEN named(name)
                         ELSE behind(strrchr(fdt.bytes, name, SLASH))
  IN  at(fdt_ro_probe_(fdt), fdt_check_node_offset_(fdt, nodeoffset))

-----------------------------------------------------------------------------
(* A property: its offset, and where and how long its value is.  Before    *)
(* version 16 a value of 8 bytes or more is aligned.                       *)
PropertyAt(fdt, offset) ==
  LET prop == fdt.off_dt_struct + offset
      len == fdt32_ld_(fdt, prop + FDT_TAGSIZE)
      moved == fdt.version < 16 /\ (offset + PROPERTY_SIZE) % UINT64_SIZE # 0 /\ len >= UINT64_SIZE
      data == prop + PROPERTY_SIZE
  IN  [nameoff |-> Int32(fdt32_ld_(fdt, prop + (2 * FDT_TAGSIZE))), len |-> Int32(len),
       data |-> IF moved THEN data + FDT_TAGSIZE ELSE data]

(* A property whose name must be a string of the tree, or an error. *)
fdt_getprop_by_offset(fdt, offset) ==
  LET fail(err) == [data |-> NOWHERE, len |-> err, name |-> NOWHERE]
  IN  With(fdt_check_prop_offset_(fdt, offset), LAMBDA next :
        IF next < 0 THEN fail(next)
        ELSE With(PropertyAt(fdt, offset), LAMBDA prop :
               With(fdt_get_string(fdt, prop.nameoff), LAMBDA name :
                 IF name.ptr = NOWHERE THEN fail(name.len)
                 ELSE [data |-> prop.data, len |-> prop.len, name |-> name.ptr])))
=============================================================================

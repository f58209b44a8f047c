------------------------------- MODULE FdtTree -------------------------------
(***************************************************************************)
(* What the bytes of a flattened tree stand for, read without libfdt: the  *)
(* reference for the properties about the functions that write trees.      *)
(***************************************************************************)
EXTENDS FdtWrite, SequencesExt

(* The nodes of a tree by their paths, with their offsets and properties,   *)
(* and the path of the node that is still open.                            *)
WordAt(f, p) == (f.bytes[p] * BYTE_RANGE) + f.bytes[p + 1]

RECURSIVE ReadFrom(_, _)
ReadFrom(f, s) ==
  LET p == f.off_dt_struct + s.offset
      size == FDT_TAGALIGN(WordAt(f, p + FDT_TAGSIZE))
      value == [i \in 1 .. WordAt(f, p + FDT_TAGSIZE) |-> f.bytes[p + PROPERTY_SIZE + i - 1]]
      prop == StringAt(f, f.off_dt_strings + Int32(WordAt(f, p + (2 * FDT_TAGSIZE)))) :> value
      begin(name) == [offset |-> s.offset + FDT_TAGSIZE + FDT_TAGALIGN(Len(name) + 1),
                      open |-> Append(s.open, name),
                      nodes |-> s.nodes @@ (Append(s.open, name) :> [offset |-> s.offset, props |-> <<>>])]
      next(tag) ==
        CASE tag = FDT_BEGIN_NODE -> begin(StringAt(f, p + FDT_TAGSIZE))
          [] tag = FDT_END_NODE -> [s EXCEPT !.offset = @ + FDT_TAGSIZE, !.open = Front(@)]
          [] tag = FDT_PROP -> [s EXCEPT !.offset = @ + PROPERTY_SIZE + size,
                                         !.nodes = [@ EXCEPT ![s.open].props = @ @@ prop]]
          [] tag = FDT_NOP -> [s EXCEPT !.offset = @ + FDT_TAGSIZE]
      over == f.magic = "FDT_SW_MAGIC" /\ s.offset >= f.size_dt_struct
  IN  IF over \/ WordAt(f, p) \notin FDT_BEGIN_NODE .. FDT_NOP THEN s
      ELSE With(next(WordAt(f, p)), LAMBDA t : ReadFrom(f, t))

Read(f) ==
  LET none == [offset |-> 0, open |-> <<>>, nodes |-> <<>>]
  IN  IF f.magic = "none" THEN none ELSE With(none, LAMBDA s : ReadFrom(f, s))

Entry(f, n) == [i \in 1 .. RESERVE_SIZE |-> f.bytes[f.off_mem_rsvmap + (n * RESERVE_SIZE) + i - 1]]
EndEntry == [i \in 1 .. RESERVE_SIZE |-> 0]

(* The reservations; while they are being written there is no end entry. *)
RECURSIVE ReservedFrom(_, _)
ReservedFrom(f, n) ==
  IF f.magic = "FDT_SW_MAGIC" /\ f.off_mem_rsvmap + (n * RESERVE_SIZE) >= f.off_dt_struct THEN <<>>
  ELSE IF Entry(f, n) = EndEntry THEN <<>>
  ELSE <<Entry(f, n)>> \o ReservedFrom(f, n + 1)

Reserved(f) == IF f.magic = "none" THEN <<>> ELSE ReservedFrom(f, 0)

(* The bytes of a finished tree's structure block; before version 17 the    *)
(* header does not say.                                                    *)
StructSize(f) == IF f.version < 17 THEN StructSizeFrom(f, 0) ELSE f.size_dt_struct

(* The bytes of the blocks of a tree. *)
Blocks(f) ==
  LET bytes(base, size) == base .. base + size - 1
  IN  <<bytes(f.off_mem_rsvmap, (Len(Reserved(f)) + 1) * RESERVE_SIZE),
        bytes(f.off_dt_struct, StructSize(f)), bytes(f.off_dt_strings, f.size_dt_strings)>>

\* The memory from the start of the tree on is at most this large.
Room(f) == Max(DOMAIN f.bytes) + 1

(* The blocks of a finished tree are in its buffer, behind the header, and  *)
(* do not overlap.                                                         *)
BlocksInside(f) ==
  \E blocks \in {Blocks(f)} : \A i \in DOMAIN blocks :
    /\ blocks[i] \subseteq HEADER_SIZE .. f.totalsize - 1
    /\ \A j \in 1 .. i - 1 : blocks[i] \cap blocks[j] = {}
=============================================================================

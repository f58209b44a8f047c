------------------------------- MODULE Overlay -------------------------------
(***************************************************************************)
(* fdt_overlay_apply (src/libfdt/fdt_overlay.c), one action per phase, and *)
(* a client that calls it again with the same trees.  The phases change    *)
(* first the overlay, then the tree; there is no way back, so that a       *)
(* failure destroys the magic of both.                                     *)
(***************************************************************************)
EXTENDS FdtOverlay, FdtTree

CONSTANTS
  Inputs,      \* a tree, an overlay, and what the overlay was written for (see Given)
  MAX_CALLS    \* bound: calls of fdt_overlay_apply

(* Of an input: fdt and fdto, the trees; targets, the paths in fdt of the   *)
(* nodes that the fragments are for, by the fragments' names; refs, what   *)
(* the references of the overlay are to: a place in the overlay (path,     *)
(* property and offset) and a node, of fdt if there is a label and of the  *)
(* overlay if not; crt0, whether libfdt is linked with the memmove of      *)
(* src/src/boot/crt0.c or with one that returns.                           *)
VARIABLES
  fdt, fdto,   \* the trees
  delta,       \* the largest phandle of fdt
  pc,          \* the next phase, "returned", or "memmove" in a call of it that does not return
  ret,         \* what the call will return or has returned
  calls,       \* calls so far
  given,       \* history: the input
  applied      \* history: has a call succeeded?

vars == <<fdt, fdto, delta, pc, ret, calls, given, applied>>

Init ==
  /\ given \in Inputs
  /\ fdt = given.fdt /\ fdto = given.fdto
  /\ delta = 0 /\ ret = 0
  /\ pc = "probe" /\ calls = 1
  /\ applied = FALSE

(* The largest phandle, once both trees look like trees. *)
fdt_overlay_apply ==
  /\ pc = "probe"
  /\ \E probes \in {<<fdt_ro_probe_(fdt), fdt_ro_probe_(fdto)>>} :
       \/ /\ probes[1] < 0 \/ probes[2] < 0
          /\ ret' = IF probes[1] < 0 THEN probes[1] ELSE probes[2]
          /\ pc' = "returned"
          /\ UNCHANGED delta
       \/ /\ probes[1] >= 0 /\ probes[2] >= 0
          /\ \E max \in {fdt_find_max_phandle(fdt)} :
               /\ ret' = max.err
               /\ delta' = max.phandle
               /\ pc' = IF max.err # 0 THEN "err" ELSE "adjust_local_phandles"
  /\ UNCHANGED <<fdt, fdto, calls, given, applied>>

(* A phase of which r is the result. *)
Phase(r, next) ==
  /\ ret' = r.err
  /\ pc' = IF r.err # 0 THEN "err" ELSE next
  /\ UNCHANGED <<delta, calls, given, applied>>

(* A phase that changes the tree; it does not end if it has come to crt0.c's *)
(* memmove.  What it has written before that is left out.                    *)
PhaseOnTree(r, next) ==
  IF given.crt0 /\ r.fdt.moved
  THEN pc' = "memmove" /\ UNCHANGED <<fdt, delta, ret, calls, given, applied>>
  ELSE fdt' = [r.fdt EXCEPT !.moved = FALSE] /\ Phase(r, next)

AdjustLocalPhandles ==
  /\ pc = "adjust_local_phandles"
  /\ \E r \in {overlay_adjust_local_phandles(fdto, delta)} :
       fdto' = r.fdt /\ Phase(r, "update_local_references")
  /\ UNCHANGED fdt

UpdateLocalReferences ==
  /\ pc = "update_local_references"
  /\ \E r \in {overlay_update_local_references(fdto, delta)} :
       fdto' = r.fdt /\ Phase(r, "fixup_phandles")
  /\ UNCHANGED fdt

FixupPhandles ==
  /\ pc = "fixup_phandles"
  /\ \E r \in {overlay_fixup_phandles(fdt, fdto)} :
       fdto' = r.fdt /\ Phase(r, "prevent_phandle_overwrite")
  /\ UNCHANGED fdt

PreventPhandleOverwrite ==
  /\ pc = "prevent_phandle_overwrite"
  /\ \E r \in {overlay_prevent_phandle_overwrite(fdt, fdto)} :
       fdto' = r.fdt /\ Phase(r, "merge")
  /\ UNCHANGED fdt

Merge ==
  /\ pc = "merge"
  /\ \E r \in {overlay_merge(fdt, fdto)} : PhaseOnTree(r, "symbol_update")
  /\ UNCHANGED fdto

SymbolsUpdate ==
  /\ pc = "symbol_update"
  /\ \E r \in {overlay_symbol_update(fdt, fdto)} : PhaseOnTree(r, "merged")
  /\ UNCHANGED fdto

(* Success: only the overlay is of no more use. *)
Merged ==
  /\ pc = "merged"
  /\ fdto' = [fdto EXCEPT !.magic = "none"]
  /\ applied' = TRUE
  /\ pc' = "returned"
  /\ UNCHANGED <<fdt, delta, ret, calls, given>>

(* Mutant of EraseBoth: the tree keeps its magic. *)
EraseOverlay ==
  /\ pc = "err"
  /\ fdto' = [fdto EXCEPT !.magic = "none"]
  /\ pc' = "returned"
  /\ UNCHANGED <<fdt, delta, ret, calls, given, applied>>

(* The label err. *)
EraseBoth ==
  /\ pc = "err"
  /\ fdto' = [fdto EXCEPT !.magic = "none"]
  /\ fdt' = [fdt EXCEPT !.magic = "none"]
  /\ pc' = "returned"
  /\ UNCHANGED <<delta, ret, calls, given, applied>>

(* The client tries once more, whatever the last call has returned. *)
CallAgain ==
  /\ pc = "returned" /\ calls < MAX_CALLS
  /\ pc' = "probe"
  /\ calls' = calls + 1
  /\ UNCHANGED <<fdt, fdto, delta, ret, given, applied>>

Next ==
  \/ fdt_overlay_apply \/ AdjustLocalPhandles \/ UpdateLocalReferences \/ FixupPhandles
  \/ PreventPhandleOverwrite \/ Merge \/ SymbolsUpdate \/ Merged \/ EraseBoth \/ CallAgain

Spec == Init /\ [][Next]_vars

-----------------------------------------------------------------------------
(* What the result should be, from the input and without libfdt. *)
Nodes(f) == Read(f).nodes

CellAt(value, offset) == (value[offset + 1] * BYTE_RANGE) + value[offset + 2]

PhandleOf(props) ==
  IF PHANDLE \in DOMAIN props THEN CellAt(props[PHANDLE], 0)
  ELSE IF LINUX_PHANDLE \in DOMAIN props THEN CellAt(props[LINUX_PHANDLE], 0) ELSE 0

Phandles(nodes) == {PhandleOf(nodes[p].props) : p \in DOMAIN nodes} \ {0}

(* A node that is to be merged: its path is root, fragment, __overlay__ and *)
(* the path relative to the target.                                        *)
Mergeable(path) == Len(path) >= 3 /\ path[3] = OVERLAY /\ path[2] \in DOMAIN given.targets
Where(path) == given.targets[path[2]] \o SubSeq(path, 4, Len(path))

(* The nodes of the overlay that end up at a path, the last one first. *)
Sources(over, path) ==
  SetToSortSeq({p \in DOMAIN over : Mergeable(p) /\ Where(p) = path},
               LAMBDA p, q : over[p].offset > over[q].offset)

(* The overlay's node from which a merged node has a property. *)
SourceOf(over, path, name) ==
  LET having == SelectSeq(Sources(over, path), LAMBDA p : name \in DOMAIN over[p].props)
  IN  IF having = <<>> THEN <<>> ELSE having[1]

SymbolsPath == << <<>>, SYMBOLS >>

Joined(path) == FlattenSeq([i \in 1 .. Len(path) - 1 |-> <<SLASH>> \o path[i + 1]])

(* Every property has the value that the overlay, or else the tree, gives   *)
(* it, references and phandles aside.                                      *)
ValuesMerged(base, over, merged) ==
  \A p \in DOMAIN merged \ {SymbolsPath} : \A name \in DOMAIN merged[p].props :
    LET from == SourceOf(over, p, name)
        cells == UNION {{r.offset + 1, r.offset + 2} : r \in {s \in given.refs : s.path = from /\ s.prop = name}}
        now == merged[p].props[name]
        then == IF from = <<>> THEN base[p].props[name] ELSE over[from].props[name]
    IN  name \notin {PHANDLE, LINUX_PHANDLE} =>
          Len(now) = Len(then) /\ \A i \in DOMAIN now \ cells : now[i] = then[i]

(* The nodes are those of both, no property is lost, and nodes that the    *)
(* tree had keep their phandles.                                           *)
NodesMerged(base, over, merged) ==
  /\ DOMAIN merged \ {SymbolsPath} = (DOMAIN base \cup {Where(p) : p \in {q \in DOMAIN over : Mergeable(q)}})
                                       \ {SymbolsPath}
  /\ \A p \in DOMAIN base : DOMAIN base[p].props \subseteq DOMAIN merged[p].props
  /\ \A p \in DOMAIN over : Mergeable(p) => DOMAIN over[p].props \subseteq DOMAIN merged[Where(p)].props
  /\ \A p \in DOMAIN base :
       PhandleOf(base[p].props) # 0 => PhandleOf(merged[p].props) = PhandleOf(base[p].props)

(* A phandle is of one node, and a reference from the overlay is to the     *)
(* phandle of the node it was written for.                                 *)
ReferencesResolved(over, merged) ==
  /\ \A p \in DOMAIN merged, q \in DOMAIN merged :
       PhandleOf(merged[p].props) = PhandleOf(merged[q].props) => p = q \/ PhandleOf(merged[p].props) = 0
  /\ \A r \in given.refs :
       LET node == IF r.label THEN r.to ELSE Where(r.to)
           current == Mergeable(r.path) /\ SourceOf(over, Where(r.path), r.prop) = r.path
       IN  current => /\ CellAt(merged[Where(r.path)].props[r.prop], r.offset) = PhandleOf(merged[node].props)
                      /\ PhandleOf(merged[node].props) # 0

(* The old symbols are there, and those of the overlay for merged nodes,    *)
(* with the paths at which these are now.  A target's own path may end     *)
(* with a slash.                                                           *)
SymbolsMerged(base, over, merged) ==
  LET of(nodes) == IF SymbolsPath \in DOMAIN nodes THEN nodes[SymbolsPath].props ELSE <<>>
      for(label) == {p \in DOMAIN over : Mergeable(p) /\ of(over)[label] = Append(Joined(p), 0)}
      new == {label \in DOMAIN of(over) : for(label) # {}}
  IN  /\ DOMAIN of(merged) = DOMAIN of(base) \cup new
      /\ \A label \in DOMAIN of(merged) :
           IF label \notin new THEN of(merged)[label] = of(base)[label]
           ELSE \A p \in for(label) :
                  of(merged)[label] \in {Append(Joined(Where(p)), 0), Joined(Where(p)) \o <<SLASH, 0>>}

-----------------------------------------------------------------------------
Fields(f) == <<f.address, f.version, f.totalsize, f.off_mem_rsvmap, f.off_dt_struct, f.off_dt_strings,
               f.size_dt_struct, f.size_dt_strings>>

(* Type invariant.  The tree's blocks stay in its buffer; the overlay's do  *)
(* not move at all, and none of its phandles becomes 0 or (uint32_t)-1     *)
(* (overlay_phandle_add_offset).                                           *)
TypeOK ==
  /\ delta \in 0 .. NO_PHANDLE /\ ret \in -19 .. 0 /\ calls \in 1 .. MAX_CALLS /\ applied \in BOOLEAN
  /\ fdt.magic \in {"none", "FDT_MAGIC"} /\ fdto.magic \in {"none", "FDT_MAGIC"}
  /\ fdt.magic = "FDT_MAGIC" => BlocksInside(fdt)
  /\ Fields(fdto) = Fields(given.fdto)
  /\ \E over \in {Nodes(fdto)} : \A p \in DOMAIN over : \A name \in {PHANDLE, LINUX_PHANDLE} :
       name \in DOMAIN over[p].props => CellAt(over[p].props[name], 0) \in 1 .. NO_PHANDLE - 1

(* Between calls a tree that has its magic is the tree as it was, or with   *)
(* all of the overlay in it: every fragment merged at its target, the      *)
(* tree's own references still good, the overlay's references to the       *)
(* nodes they were written for and its symbols to where those are now.  A  *)
(* call that fails half-way leaves no tree, and another call with an       *)
(* overlay that was used changes nothing.                                  *)
AllOrNothing ==
  pc = "returned" /\ fdt.magic = "FDT_MAGIC" =>
    IF ~applied THEN fdt = given.fdt
    ELSE \E base \in {Nodes(given.fdt)}, over \in {Nodes(given.fdto)}, merged \in {Nodes(fdt)} :
           /\ NodesMerged(base, over, merged)
           /\ ValuesMerged(base, over, merged)
           /\ ReferencesResolved(over, merged)
           /\ SymbolsMerged(base, over, merged)

(* Bytes that the overlay takes at most. *)
Cost(over) ==
  LET longest == Max({Len(Joined(t)) : t \in Range(given.targets)} \cup {0})
      value(p, name) == Len(over[p].props[name]) + IF p = SymbolsPath THEN longest + 1 ELSE 0
      prop(p, name) == PROPERTY_SIZE + FDT_TAGALIGN(value(p, name)) + Len(name) + 1
      node(p) == (2 * FDT_TAGSIZE) + FDT_TAGALIGN(Len(Last(p)) + 1)
                   + MapThenSumSet(LAMBDA name : prop(p, name), DOMAIN over[p].props)
  IN  MapThenSumSet(node, {p \in DOMAIN over : Mergeable(p) \/ p = SymbolsPath})

(* Whether an overlay can be applied: its fragments' targets are in the     *)
(* tree or in fragments before them, its labels are in the tree and stand  *)
(* for nodes with phandles; phandles remain; and there is room.            *)
Complete(base, over) ==
  /\ \A p \in DOMAIN over : Len(p) = 3 /\ p[3] = OVERLAY =>
       /\ p[2] \in DOMAIN given.targets
       /\ \/ given.targets[p[2]] \in DOMAIN base
          \/ \E q \in DOMAIN over : Mergeable(q) /\ Where(q) = given.targets[p[2]]
                                      /\ over[q].offset < over[p].offset
  /\ \A r \in given.refs : r.label => /\ SymbolsPath \in DOMAIN base
                                      /\ r.to \in DOMAIN base /\ PhandleOf(base[r.to].props) # 0

PhandlesRemain(base, over) ==
  \A n \in Phandles(over) : Max(Phandles(base) \cup {0}) + n < NO_PHANDLE

RoomLeft(over) == Cost(over) <= given.fdt.totalsize - fdt_data_size_(given.fdt)

AddsSomething(over) ==
  \/ SymbolsPath \in DOMAIN over
  \/ \E p \in DOMAIN over : Mergeable(p) /\ (Len(p) > 3 \/ DOMAIN over[p].props # {})

(* The first call, if it returns, applies every overlay that can be         *)
(* applied, and one that it applies lacks nothing; if it does not, the     *)
(* overlay is not accepted another time (fdt_overlay_apply's error codes   *)
(* in libfdt.h).  It does not return only with crt0.c's memmove and an     *)
(* overlay that adds something; with that memmove nothing is ever merged:  *)
(* an overlay that is applied has changed nothing.                         *)
AppliedIfPossible ==
  pc \in {"returned", "memmove"} =>
    \E base \in {Nodes(given.fdt)}, over \in {Nodes(given.fdto)} :
      /\ pc = "memmove" => given.crt0 /\ AddsSomething(over)
      /\ applied /\ given.crt0 => Nodes(fdt) = base
      /\ applied => Complete(base, over) /\ PhandlesRemain(base, over)
      /\ Complete(base, over) /\ PhandlesRemain(base, over) /\ RoomLeft(over) => applied \/ pc = "memmove"
      /\ ret = -FDT_ERR_NOSPACE => ~RoomLeft(over)
      /\ ret = -FDT_ERR_NOPHANDLES => ~PhandlesRemain(base, over)
      /\ calls > 1 => ret = -FDT_ERR_BADMAGIC
=============================================================================

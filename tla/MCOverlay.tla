------------------------------ MODULE MCOverlay ------------------------------
(***************************************************************************)
(* Trees and overlays for Overlay, as the compiler writes them: references *)
(* to labels are in __fixups__, those to nodes of the overlay itself in    *)
(* __local_fixups__.                                                       *)
(***************************************************************************)
EXTENDS Overlay

T(name, props, children) == [name |-> name, props |-> props, children |-> children]

Word(x) == cpu_to_fdt32(x)
Pad(s) == IF Len(s) % FDT_TAGSIZE = 0 THEN s ELSE Append(s, 0)

(* Flattens a tree; names is its strings block. *)
NameOff(names, name) ==
  Min({i \in 0 .. Len(names) - Len(name) - 1 : SubSeq(names, i + 1, i + Len(name) + 1) = Append(name, 0)})

RECURSIVE Struct(_, _)
Struct(t, names) ==
  LET prop(x) == Word(FDT_PROP) \o Word(Len(x[2])) \o Word(NameOff(names, x[1])) \o Pad(x[2])
  IN  Word(FDT_BEGIN_NODE) \o Pad(Append(t.name, 0))
        \o FlattenSeq([i \in DOMAIN t.props |-> prop(t.props[i])])
        \o FlattenSeq([i \in DOMAIN t.children |-> Struct(t.children[i], names)])
        \o Word(FDT_END_NODE)

Flattened(tree, names, spare) ==
  LET struct == Struct(tree, names) \o Word(FDT_END)
      bytes == [i \in 1 .. HEADER_SIZE |-> 6] \o EndEntry \o struct \o names \o [i \in 1 .. spare |-> 6]
  IN  [address |-> 8, bytes |-> [p \in 0 .. Len(bytes) - 1 |-> bytes[p + 1]], magic |-> "FDT_MAGIC",
       version |-> 17, last_comp_version |-> 16, totalsize |-> Len(bytes),
       off_mem_rsvmap |-> HEADER_SIZE, off_dt_struct |-> HEADER_SIZE + RESERVE_SIZE,
       off_dt_strings |-> HEADER_SIZE + RESERVE_SIZE + Len(struct),
       size_dt_struct |-> Len(struct), size_dt_strings |-> Len(names), moved |-> FALSE]

-----------------------------------------------------------------------------
(* The tree: /8 with the label 22 and a reference to /8/9, with the given   *)
(* phandles or none.  Its symbols are missing, first (so that a new symbol *)
(* moves the other nodes) or last.                                         *)
HasPhandle(n) == IF n = 0 THEN <<>> ELSE << <<PHANDLE, Word(n)>> >>
LABEL == <<22>>
NEW_LABEL == <<23>>
REF == <<7>>

Node8 == << <<>>, <<8>> >>
Node9 == << <<>>, <<8>>, <<9>> >>

Base(n8, n9, symbols, spare) ==
  LET node == T(<<8>>, HasPhandle(n8) \o << <<REF, Word(n9)>> >>, <<T(<<9>>, HasPhandle(n9), <<>>)>>)
      labels == T(SYMBOLS, << <<LABEL, <<SLASH, 8, 0>> >> >>, <<>>)
      nodes == CASE symbols = "none" -> <<node>>
                 [] symbols = "first" -> <<labels, node>>
                 [] symbols = "last" -> <<node, labels>>
  IN  Flattened(T(<<>>, <<>>, nodes), <<10, 0, 7, 0, 22, 0>>, spare)

\* Values for references that are not known before the overlay is applied.
Unknown == Word(NO_PHANDLE)

(* Fragments by name: the properties that give the target, the path that   *)
(* they stand for, the subtree, and the references in it.  A reference is  *)
(* to a path of the overlay or, if there is a label, of the tree.          *)
ByLabel == << <<TARGET, Unknown>> >>
ByPath(path) == << <<TARGET_PATH, Append(path, 0)>> >>
In(f, rel) == << <<>>, f, OVERLAY >> \o rel
Ref(path, prop, offset, label, to) ==
  [path |-> path, prop |-> prop, offset |-> offset, label |-> label, to |-> to]
TargetRef(f) == Ref(<< <<>>, f >>, TARGET, 0, TRUE, Node8)

Fragment(target, at, tree, refs) == [target |-> target, at |-> at, tree |-> tree, refs |-> refs]

(* A new node in /8, with references to it and to the label. *)
NewNode(f) ==
  Fragment(ByLabel, Node8,
           T(OVERLAY, << <<REF, Word(1) \o Unknown>> >>, <<T(<<6>>, HasPhandle(1), <<>>)>>),
           {TargetRef(f), Ref(In(f, <<>>), REF, 0, FALSE, In(f, << <<6>> >>)),
            Ref(In(f, <<>>), REF, 2, TRUE, Node8)})

(* /8 once more, with a phandle of its own and an unaligned reference. *)
SameNode(f) ==
  Fragment(ByPath(<<SLASH>>), << <<>> >>,
           T(OVERLAY, <<>>, <<T(<<8>>, << <<<<2>>, <<5>> \o Word(2)>> >> \o HasPhandle(2), <<>>)>>),
           {Ref(In(f, << <<8>> >>), <<2>>, 1, FALSE, In(f, << <<8>> >>))})

(* The target itself has a phandle, in both forms. *)
SameTarget(f) ==
  Fragment(ByPath(<<SLASH, 8, SLASH, 9>>), Node9,
           T(OVERLAY, << <<LINUX_PHANDLE, Word(3)>>, <<REF, Word(3)>> >> \o HasPhandle(3), <<>>),
           {Ref(In(f, <<>>), REF, 0, FALSE, In(f, <<>>))})

(* What another fragment may have added. *)
InNewNode(f) ==
  Fragment(ByPath(<<SLASH, 8, SLASH, 6>>), << <<>>, <<8>>, <<6>> >>,
           T(OVERLAY, << <<<<2>>, Unknown>> >>, <<T(<<9>>, <<>>, <<>>)>>),
           {Ref(In(f, <<>>), <<2>>, 0, TRUE, Node8)})

NoTarget(f) == Fragment(<<>>, <<>>, T(OVERLAY, <<>>, <<>>), {})

(* Nothing to merge. *)
Empty(f) == Fragment(ByPath(<<SLASH>>), << <<>> >>, T(OVERLAY, <<>>, <<>>), {})

Kinds(f) == {NewNode(f), SameNode(f), SameTarget(f), InNewNode(f), NoTarget(f)}
F1 == <<30>>
F2 == <<31>>

-----------------------------------------------------------------------------
(* The places of local references, as a tree of the form of the overlay. *)
RECURSIVE LocalFixups(_, _, _)
LocalFixups(t, path, refs) ==
  LET at(x) == {r.offset : r \in {s \in refs : ~s.label /\ s.path = path /\ s.prop = x[1]}}
      fixups(x) == <<x[1], FlattenSeq([i \in 1 .. Cardinality(at(x)) |-> Word(SetToSortSeq(at(x), <)[i])])>>
      in == SelectSeq(t.props, LAMBDA x : at(x) # {})
      below == SelectSeq(t.children, LAMBDA c : \E r \in refs : ~r.label /\ IsPrefix(Append(path, c.name), r.path))
  IN  T(t.name, [i \in DOMAIN in |-> fixups(in[i])],
        [i \in DOMAIN below |-> LocalFixups(below[i], Append(path, below[i].name), refs)])

FixupOf(r) == Joined(r.path) \o <<COLON>> \o r.prop \o <<COLON, ZERO + r.offset, 0>>

(* An overlay of fragments with names, with or without symbols. *)
Overlaid(frags, symbols) ==
  LET refs == UNION {frags[i].refs : i \in DOMAIN frags}
      name(i) == IF i = 1 THEN F1 ELSE F2
      root == T(<<>>, <<>>, [i \in DOMAIN frags |-> T(name(i), frags[i].target, <<frags[i].tree>>)])
      labels == FlattenSeq(SetToSeq({FixupOf(r) : r \in {s \in refs : s.label}}))
      local == LocalFixups(root, << <<>> >>, refs)
      more == (IF labels = <<>> THEN <<>> ELSE <<T(FIXUPS, << <<LABEL, labels>> >>, <<>>)>>)
                \o (IF local.children = <<>> THEN <<>> ELSE <<[local EXCEPT !.name = LOCAL_FIXUPS]>>)
                \o (IF symbols = <<>> THEN <<>> ELSE <<T(SYMBOLS, symbols, <<>>)>>)
  IN  [tree |-> [root EXCEPT !.children = @ \o more], refs |-> refs,
       targets |-> [f \in {name(i) : i \in {j \in DOMAIN frags : frags[j].at # <<>>}} |->
                      frags[IF f = F1 THEN 1 ELSE 2].at]]

OverlayNames == <<12, 10, 0, 7, 0, 22, 0, 23, 0, 19, 0, 19, 17, 0, 2, 0>>

Fragments == {<<a>> : a \in Kinds(F1) \cup {Empty(F1)}} \cup {<<a, b>> : a \in Kinds(F1), b \in Kinds(F2)}

(* No symbols, a target, a new node, and the label of the tree for         *)
(* something that is not merged.                                           *)
SymbolsFor(frags) ==
  {<<>>, << <<NEW_LABEL, Append(Joined(In(F1, <<>>)), 0)>> >>}
    \cup IF frags[1] # NewNode(F1) THEN {}
         ELSE {<< <<LABEL, Append(Joined(<< <<>>, F1 >>), 0)>>,
                  <<NEW_LABEL, Append(Joined(In(F1, << <<6>> >>)), 0)>> >>}

Overlays == UNION {{Overlaid(frags, symbols) : symbols \in SymbolsFor(frags)} : frags \in Fragments}

(* Phandles: of both nodes, of one, none, and nearly the largest. *)
BasePhandles == {<<1, 2>>, <<1, 0>>, <<0, 0>>, <<NO_PHANDLE - 3, 1>>}

Input(base, over, crt0) ==
  [crt0 |-> crt0, fdt |-> base, fdto |-> Flattened(over.tree, OverlayNames, 0), refs |-> over.refs, targets |-> over.targets]

MCInputs ==
  {Input(Base(p[1], p[2], "first", 130), over, FALSE) : p \in BasePhandles, over \in Overlays}
  \cup {Input(Base(1, 2, "last", spare), over, TRUE) : spare \in {0, 60}, over \in Overlays}
  \cup {Input(Base(1, 2, labels, spare), over, FALSE) :
          labels \in {"none", "last"}, spare \in {0, 16, 32, 48, 60}, over \in Overlays}
=============================================================================

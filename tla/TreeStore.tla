------------------------------ MODULE TreeStore ------------------------------
(***************************************************************************)
(* What the writing functions of libfdt promise, as src/libfdt/libfdt.h    *)
(* documents them: a tree of nodes with properties and a list of reserved  *)
(* memory, changed by calls.  A call that returns an error changes         *)
(* nothing; any other has exactly the effect of its name.                  *)
(*                                                                         *)
(* A node is known by its path, the sequence of the names from the root    *)
(* on.  call is the last call: its name, its arguments and its result.     *)
(***************************************************************************)
EXTENDS Integers, Sequences, SequencesExt

VARIABLES
  nodes,      \* from paths to properties, which are functions from names to values
  open,       \* path of the node that is being written, <<>> if none is
  reserved,   \* sequence of memory reservations
  call

vars == <<nodes, open, reserved, call>>

NoProps == <<>>

(* Every node has a parent but the root, and an open node is there. *)
Init ==
  /\ \A p \in DOMAIN nodes : Len(p) > 1 => Front(p) \in DOMAIN nodes
  /\ open \in DOMAIN nodes \cup {<<>>}

Did(op) == call'.op = op /\ call'.err >= 0

Failed ==
  /\ call'.err < 0
  /\ call'.op # "fdt_create_empty_tree"
  /\ UNCHANGED <<nodes, open, reserved>>

(* The one function that makes several calls may stop between them. *)
FailedToCreate ==
  /\ call'.op = "fdt_create_empty_tree" /\ call'.err < 0
  /\ DOMAIN nodes' \subseteq {<< <<>> >>}
  /\ reserved' = <<>>

Unchanging ==
  /\ call'.err >= 0
  /\ call'.op \in {"fdt_finish_reservemap", "fdt_finish", "fdt_resize", "fdt_move",
                   "fdt_open_into", "fdt_pack"}
  /\ UNCHANGED <<nodes, open, reserved>>

Create ==
  /\ \/ Did("fdt_create_with_flags") /\ nodes' = <<>>
     \/ Did("fdt_create_empty_tree") /\ nodes' = (<< <<>> >> :> NoProps)
  /\ open' = <<>>
  /\ reserved' = <<>>

Reserve ==
  /\ Did("fdt_add_reservemap_entry") \/ Did("fdt_add_mem_rsv")
  /\ reserved' = Append(reserved, call'.value)
  /\ UNCHANGED <<nodes, open>>

Unreserve ==
  /\ Did("fdt_del_mem_rsv")
  /\ reserved' = RemoveAt(reserved, call'.n + 1)
  /\ UNCHANGED <<nodes, open>>

BeginNode ==
  /\ Did("fdt_begin_node")
  /\ open' = Append(open, call'.name)
  /\ nodes' = nodes @@ (open' :> NoProps)
  /\ UNCHANGED reserved

EndNode ==
  /\ Did("fdt_end_node")
  /\ open' = Front(open)
  /\ UNCHANGED <<nodes, reserved>>

AddSubnode ==
  /\ Did("fdt_add_subnode")
  /\ Append(call'.path, call'.name) \notin DOMAIN nodes
  /\ nodes' = nodes @@ (Append(call'.path, call'.name) :> NoProps)
  /\ UNCHANGED <<open, reserved>>

(* A node goes with all that is below it. *)
DelNode ==
  /\ Did("fdt_del_node") \/ Did("fdt_nop_node")
  /\ nodes' = Restrict(nodes, {p \in DOMAIN nodes : ~IsPrefix(call'.path, p)})
  /\ UNCHANGED <<open, reserved>>

SetName ==
  LET n == Len(call'.path)
      renamed(p) == IF IsPrefix(call'.path, p) THEN [p EXCEPT ![n] = call'.name] ELSE p
  IN  /\ Did("fdt_set_name")
      /\ DOMAIN nodes' = {renamed(p) : p \in DOMAIN nodes}
      /\ \A p \in DOMAIN nodes : nodes'[renamed(p)] = nodes[p]
      /\ UNCHANGED <<open, reserved>>

(* The property of the call has a value afterwards, no other has changed. *)
Sets(path, value) ==
  /\ nodes' = [nodes EXCEPT ![path] = (call'.name :> value) @@ @]
  /\ UNCHANGED <<open, reserved>>

Value == LET props == nodes[call'.path] IN IF call'.name \in DOMAIN props THEN props[call'.name] ELSE <<>>

Property == Did("fdt_property") /\ Sets(open, call'.value)

SetProp ==
  \/ Did("fdt_setprop") /\ Sets(call'.path, call'.value)
  \/ /\ Did("fdt_appendprop") \/ Did("fdt_appendprop_addrrange")
     /\ Sets(call'.path, Value \o call'.value)
  \/ /\ Did("fdt_setprop_inplace")
     /\ Len(Value) = Len(call'.value)
     /\ Sets(call'.path, call'.value)
  \/ /\ Did("fdt_setprop_inplace_namelen_partial")
     /\ Sets(call'.path, [i \in DOMAIN Value |->
                            IF i - call'.n \in DOMAIN call'.value THEN call'.value[i - call'.n] ELSE Value[i]])

DelProp ==
  /\ Did("fdt_delprop") \/ Did("fdt_nop_property")
  /\ nodes' = [nodes EXCEPT ![call'.path] = Restrict(@, DOMAIN @ \ {call'.name})]
  /\ UNCHANGED <<open, reserved>>

Next ==
  \/ Failed \/ FailedToCreate \/ Unchanging \/ Create \/ Reserve \/ Unreserve \/ BeginNode \/ EndNode
  \/ AddSubnode \/ DelNode \/ SetName \/ Property \/ SetProp \/ DelProp

Spec == Init /\ [][Next]_vars
=============================================================================

------------------------------- MODULE Memory --------------------------------
(***************************************************************************)
(* Detection of RAM, src/src/mem/memory.c: detect_memory walks the memory  *)
(* nodes of the device tree and records a region for each.  Boot runs it as *)
(* one of the stages of kmain.                                             *)
(***************************************************************************)
EXTENDS DeviceTree

CONSTANTS
  MAX_MEM_REGIONS,
  Trees             \* for each device tree, the sequence of its memory nodes

ASSUME RegionsAssumption == MAX_MEM_REGIONS \in Nat \ {0}
ASSUME TreesAssumption ==
  \A t \in Trees : /\ Len(t) \in Nat /\ DOMAIN t = 1 .. Len(t)
                   /\ \A i \in DOMAIN t : IsNode(t[i])

VARIABLES
  tree,               \* the memory nodes still and already visited, in tree order
  debug,              \* build type: TRUE without NDEBUG, fixed for a run
  visited,            \* how many memory nodes the loop is done with
  ram_regions,        \* static array, zeroed at start
  ram_regions_index,
  result              \* "running", "done", "failed" (detect_memory returned -1), "halt"

memoryVars == <<tree, debug, visited, ram_regions, ram_regions_index, result>>

NoRegion == [physicaddr |-> 0, space_size |-> 0]

MemoryInit ==
  /\ tree \in Trees
  /\ debug \in BOOLEAN
  /\ visited = 0
  /\ ram_regions = [i \in 0 .. MAX_MEM_REGIONS - 1 |-> NoRegion]
  /\ ram_regions_index = 0
  /\ result = "running"

OutOfSlots == ram_regions_index >= MAX_MEM_REGIONS

SizeAssertion(size) == size # 0

(* Mutant of EndsLoop: the sign of the error is forgotten. *)
EndsLoopPositive(res) == res = FDT_ERR_NOTFOUND

(* The only result of extract_ram_region_info that ends the loop is -1,    *)
(* which parse_reg returns for what libfdt does not find.                  *)
EndsLoop(res) == res = -FDT_ERR_NOTFOUND

(* Mutant of NoSlotLeft: the index is incremented within the test. *)
NoSlotLeftCounted ==
  /\ OutOfSlots
  /\ result' = "failed"
  /\ ram_regions_index' = ram_regions_index + 1
  /\ UNCHANGED <<visited, ram_regions>>

NoSlotLeft ==
  /\ OutOfSlots
  /\ result' = "failed"
  /\ UNCHANGED <<visited, ram_regions, ram_regions_index>>

(* The slot is counted before the node is parsed. *)
FillSlot ==
  /\ ~OutOfSlots
  /\ LET buf == ram_regions[ram_regions_index]
         p == parse_reg(tree[visited + 1], buf.physicaddr, buf.space_size)
     IN  /\ ram_regions' = [ram_regions EXCEPT ![ram_regions_index] =
                              [physicaddr |-> p.addr, space_size |-> p.size]]
         /\ ram_regions_index' = ram_regions_index + 1
         /\ visited' = visited + 1
         /\ result' = IF debug /\ ~SizeAssertion(p.size) THEN "halt"
                      ELSE IF EndsLoop(p.res) THEN "failed"
                      ELSE "running"

(* One iteration of the loop of detect_memory: extract_ram_region_info for  *)
(* the next memory node.                                                   *)
extract_ram_region_info ==
  /\ result = "running" /\ visited < Len(tree)
  /\ NoSlotLeft \/ FillSlot
  /\ UNCHANGED <<tree, debug>>

(* Mutant of detect_memory_returns: a full table ends the loop as well. *)
returns_when_full ==
  /\ result = "running" /\ (visited = Len(tree) \/ OutOfSlots)
  /\ result' = "done"
  /\ UNCHANGED <<tree, debug, visited, ram_regions, ram_regions_index>>

detect_memory_returns ==
  /\ result = "running" /\ visited = Len(tree)
  /\ result' = "done"
  /\ UNCHANGED <<tree, debug, visited, ram_regions, ram_regions_index>>

MemoryNext == extract_ram_region_info \/ detect_memory_returns

MemorySpec == MemoryInit /\ [][MemoryNext]_memoryVars

-----------------------------------------------------------------------------
Counted == 0 .. ram_regions_index - 1

MemoryTypeOK ==
  /\ visited \in 0 .. Len(tree)
  /\ ram_regions \in [0 .. MAX_MEM_REGIONS - 1 -> [physicaddr : Cell, space_size : Cell]]
  /\ ram_regions_index \in 0 .. MAX_MEM_REGIONS
  /\ result \in {"running", "done", "failed", "halt"}

(* Each counted region is the first "reg" entry of the memory node at the   *)
(* same position, whatever happened to the nodes before it, if the tree    *)
(* uses more than one cell for addresses and sizes as QEMU's does.         *)
RegionsFromTree ==
  \A i \in Counted :
    LET node == tree[i + 1]
    IN  Readable(node) /\ node.address_cells > 1 /\ node.size_cells > 1
        => ram_regions[i] = FirstEntry(node)

(* detect_memory reports success only if every memory node of the tree was  *)
(* given a slot of ram_regions.                                            *)
SuccessIsComplete == result = "done" => ram_regions_index = Len(tree)

(* No counted region is empty. *)
CountedHaveBytes == \A i \in Counted : ram_regions[i].space_size # 0

(* libfdt does not answer one of the questions about a node, or the node    *)
(* says that it has no bytes.                                              *)
Unanswered(node) ==
  \E answer \in {node.len, node.parent, node.address_cells, node.size_cells} : answer < 0
Lacking(node) == Unanswered(node) \/ (Readable(node) /\ FirstEntry(node).space_size = 0)

(* detect_memory gives up only for a reason, and at the first one it meets: *)
(* it returns -1 for more nodes than slots or, without assertions, for a    *)
(* node libfdt finds something missing in; a debug build halts instead on  *)
(* the node that has no size in the tree, as its slot still holds zero, and *)
(* goes on past none.                                                      *)
StopsForReason ==
  /\ result = "failed" => \/ visited = MAX_MEM_REGIONS /\ visited < Len(tree)
                          \/ ~debug /\ visited > 0 /\ Unanswered(tree[visited])
  /\ result = "halt" =>
       debug /\ visited > 0
       /\ ~ (Readable(tree[visited]) /\ FirstEntry(tree[visited]).space_size # 0)
  /\ \A i \in 1 .. visited :
       (tree[i].len = -FDT_ERR_NOTFOUND \/ (debug /\ Lacking(tree[i])))
       => i = visited /\ result \in {"failed", "halt"}
=============================================================================

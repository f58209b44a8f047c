----------------------------- MODULE BootProofs ------------------------------
(***************************************************************************)
(* Proofs about kmain for every set of harts and of CLINT nodes.           *)
(***************************************************************************)
EXTENDS Boot, MemoryProofs

(* The calls of kmain that are still to come once a part of it is done. *)
AfterAllocator == {"init_power_controller", "riscv_switch_to_supervisor", "test"}
AfterMemory == {"init_phys_allocator"} \cup AfterAllocator
AfterClint == {"detect_memory"} \cup AfterMemory
AfterHandlers == {"check_device_tree", "init_interrupt_controller"} \cup AfterClint

(* What init_interrupt_controller has established when it returns. *)
ClintFound ==
  /\ present_timer /\ platform.clint # NoNode /\ discover_clint = 0
  /\ clint_addr = parse_reg(platform.clint, 0, 0).addr

(* The inductive invariant: what kmain has established at each call.  In    *)
(* supervisor mode only mie masks, so that mie has to stay empty from      *)
(* setup_interrupt_handler on.                                             *)
Staged ==
  /\ platform \in Platforms
  /\ mstatus_MIE = FALSE
  /\ mode = "S" => pc \in {"test", "s_mode_handle"}
  /\ pc \in AfterHandlers \/ mode = "S" => mie = {}
  /\ pc \in AfterClint \/ mode = "S" => ClintFound
  /\ pc \in AfterMemory \/ mode = "S" => result \in {"done", "failed"}
  /\ pc \in AfterAllocator \/ mode = "S" => allocator /\ ram_regions_index > 0
  /\ pc \in {"riscv_switch_to_supervisor", "test"} \/ mode = "S" => shutdown = "syscon_shutdown"
  /\ pc = "test" \/ mode = "S" => stvec = "s_mode_handle" /\ pmp_open

IInv == TypeOK /\ Staged /\ RamInv

(* The address that parse_reg leaves is a word. *)
LEMMA ClintAddrType ==
  ASSUME platform \in Platforms, platform.clint # NoNode
  PROVE  IsNode(platform.clint) /\ parse_reg(platform.clint, 0, 0).addr \in Cell
<1>1. IsNode(platform.clint)
  BY ClintAssumption DEF Platforms
<1> QED BY <1>1, ParseFits, ZeroIsACell

LEMMA InitEstablishes == Init => IInv
<1> SUFFICES ASSUME Init PROVE IInv
  OBVIOUS
<1>1. TypeOK
  <2>1. UNION {mie, medeleg, mideleg} \subseteq 0 .. 15
    BY DEF Init
  <2>2. {present_timer, allocator, pmp_open} \subseteq BOOLEAN /\ mstatus_MIE \in BOOLEAN
    BY Zenon DEF Init
  <2>3. MemoryTypeOK
    BY RamInit DEF Init, RamInv
  <2> QED BY <2>1, <2>2, <2>3, ZeroIsACell DEF Init, TypeOK
<1>2. Staged
  BY DEF Init, Staged, AfterHandlers, AfterClint, AfterMemory, AfterAllocator
<1> QED BY <1>1, <1>2, RamInit DEF IInv, Init

(* A step that is not one of detect_memory. *)
LEMMA RamUnchanged ==
  ASSUME RamInv, UNCHANGED memoryVars
  PROVE  RamInv' /\ MemoryTypeOK'
BY RamStep DEF RamInv

(* halt() only masks and parks; it is called in machine mode. *)
LEMMA HaltPreserves ==
  ASSUME IInv, halt, UNCHANGED <<present_timer, allocator, shutdown>>, mode = "M",
         clint_addr' \in Cell, RamInv'
  PROVE  IInv'
<1>1. TypeOK'
  BY DEF IInv, TypeOK, halt, fixed, RamInv
<1>2. Staged'
  BY DEF IInv, Staged, halt, fixed, AfterHandlers, AfterClint, AfterMemory, AfterAllocator
<1> QED BY <1>1, <1>2 DEF IInv

(* Only detect_memory touches the variables of module Memory, and it takes   *)
(* one of Memory's steps.                                                  *)
LEMMA RamSteps == [Next]_vars => MemoryNext \/ UNCHANGED memoryVars
BY DEF Next, kmain, ensure_extensions_present, setup_interrupt_handler, check_device_tree,
       init_interrupt_controller, detect_memory, init_phys_allocator, init_power_controller,
       riscv_switch_to_supervisor, test, globals, vars

LEMMA StepPreserves == IInv /\ [Next]_vars => IInv'
<1> SUFFICES ASSUME IInv, [Next]_vars PROVE IInv'
  OBVIOUS
<1> USE DEF AfterHandlers, AfterClint, AfterMemory, AfterAllocator
<1>0. clint_addr \in Cell /\ platform \in Platforms /\ RamInv
  BY DEF IInv, TypeOK, Staged
<1>r. RamInv' /\ MemoryTypeOK'
  <2>1. UNCHANGED memoryVars => RamInv' /\ MemoryTypeOK'
    BY <1>0, RamUnchanged
  <2>2. MemoryNext => RamInv' /\ MemoryTypeOK'
    BY <1>0, RamStep DEF RamInv
  <2>3. MemoryNext \/ UNCHANGED memoryVars
    BY RamSteps
  <2> QED BY <2>1, <2>2, <2>3
<1>1. pc \notin {"test", "s_mode_handle"} => mode = "M"
  BY DEF IInv, TypeOK, Staged
<1>2. ASSUME halt, UNCHANGED globals, pc \notin {"test", "s_mode_handle"}
      PROVE  IInv'
  BY <1>0, <1>r, <1>1, <1>2, HaltPreserves DEF globals
<1>3. CASE kmain
  <2>1. CASE hart_id = 0 /\ ~halt
    BY <1>r, <1>3, <2>1 DEF kmain, IInv, TypeOK, Staged, Goto, fixed, globals
  <2> QED BY <1>2, <1>3, <2>1 DEF kmain, halt
<1>4. CASE ensure_extensions_present
  <2>1. CASE ~halt
    BY <1>r, <1>4, <2>1 DEF ensure_extensions_present, IInv, TypeOK, Staged, Goto, fixed, csrs, globals
  <2> QED BY <1>2, <1>4, <2>1 DEF ensure_extensions_present
<1>5. CASE setup_interrupt_handler
  BY <1>r, <1>5 DEF setup_interrupt_handler, IInv, TypeOK, Staged, Goto, fixed, globals
<1>6. CASE check_device_tree
  <2>1. CASE ~halt
    BY <1>r, <1>6, <2>1 DEF check_device_tree, IInv, TypeOK, Staged, Goto, fixed, csrs, globals
  <2> QED BY <1>2, <1>6, <2>1 DEF check_device_tree
<1>7. CASE init_interrupt_controller
  <2>1. discover_clint # -1 => platform.clint # NoNode
    BY Zenon DEF discover_clint
  <2>2. CASE discover_clint = -1 /\ halt /\ UNCHANGED globals
    BY <1>2, <1>7, <2>2 DEF init_interrupt_controller
  <2>3. CASE /\ discover_clint = -2 /\ halt
             /\ clint_addr' = parse_reg(platform.clint, 0, 0).addr
             /\ UNCHANGED <<present_timer, memoryVars, allocator, shutdown>>
    <3>1. platform.clint # NoNode
      BY <2>1, <2>3
    <3>2. clint_addr' \in Cell /\ mode = "M"
      BY <1>0, <1>1, <1>7, <2>3, <3>1, ClintAddrType DEF init_interrupt_controller
    <3> QED BY <1>r, <2>3, <3>2, HaltPreserves
  <2>4. CASE /\ discover_clint = 0
             /\ clint_addr' = parse_reg(platform.clint, 0, 0).addr
             /\ present_timer' = TRUE
             /\ Goto("detect_memory")
             /\ UNCHANGED <<csrs, memoryVars, allocator, shutdown>>
    <3>1. platform.clint # NoNode
      BY <2>1, <2>4
    <3>2. clint_addr' \in Cell
      BY <1>0, <2>4, <3>1, ClintAddrType
    <3>3. platform' = platform /\ discover_clint' = discover_clint /\ pc' = "detect_memory"
      BY <2>4 DEF Goto, fixed, discover_clint
    <3>4. ClintFound'
      BY <2>4, <3>1, <3>3 DEF ClintFound
    <3>5. TypeOK'
      BY <1>r, <2>4, <3>2, <3>3 DEF IInv, TypeOK, csrs
    <3>6. mode = "M" /\ pc = "init_interrupt_controller"
      BY <1>1, <1>7 DEF init_interrupt_controller
    <3>7. Staged'
      BY <1>r, <2>4, <3>3, <3>4, <3>6 DEF IInv, Staged, csrs
    <3> QED BY <1>r, <3>5, <3>7 DEF IInv
  <2> QED BY <1>7, <2>2, <2>3, <2>4 DEF init_interrupt_controller
<1>8. UNCHANGED <<platform, clint_addr, present_timer>> => (ClintFound' <=> ClintFound)
  BY DEF ClintFound, discover_clint
<1>9. CASE detect_memory
  <2>1. pc = "detect_memory" /\ mode = "M"
    BY <1>1, <1>9 DEF detect_memory
  <2>2. CASE halt /\ UNCHANGED <<clint_addr, present_timer, allocator, shutdown>>
    BY <1>0, <1>r, <2>1, <2>2, HaltPreserves
  <2>3. CASE /\ pc' = pc \/ (pc' = "init_phys_allocator" /\ result' \in {"done", "failed"})
             /\ UNCHANGED <<fixed, csrs, clint_addr, present_timer, allocator, shutdown>>
    <3>1. TypeOK'
      BY <1>r, <2>1, <2>3 DEF IInv, TypeOK, csrs
    <3>2. Staged'
      BY <1>8, <2>1, <2>3 DEF IInv, Staged, csrs, fixed
    <3> QED BY <1>r, <3>1, <3>2 DEF IInv
  <2> QED BY <1>9, <2>2, <2>3 DEF detect_memory, Goto, globals, memoryVars
<1>10. CASE init_phys_allocator
  <2>1. CASE ~halt
    <3>1. TypeOK'
      BY <1>r, <1>10, <2>1 DEF init_phys_allocator, IInv, TypeOK, Goto, csrs
    <3>2. Staged'
      BY <1>r, <1>1, <1>8, <1>10, <2>1 DEF init_phys_allocator, IInv, Staged, Goto, csrs, fixed, memoryVars
    <3> QED BY <1>r, <3>1, <3>2 DEF IInv
  <2>2. CASE halt /\ UNCHANGED globals
    BY <1>2, <1>10, <2>2 DEF init_phys_allocator
  <2>3. halt => UNCHANGED globals
    BY <1>10 DEF init_phys_allocator, halt, Goto
  <2> QED BY <2>1, <2>2, <2>3
<1>11. CASE init_power_controller
  <2>1. TypeOK'
    BY <1>r, <1>11 DEF init_power_controller, IInv, TypeOK, Goto, csrs
  <2>2. Staged'
    BY <1>r, <1>1, <1>8, <1>11 DEF init_power_controller, IInv, Staged, Goto, csrs, fixed, memoryVars
  <2> QED BY <1>r, <2>1, <2>2 DEF IInv
<1>12. CASE riscv_switch_to_supervisor
  <2>1. TypeOK'
    <3>1. mie' = mie /\ medeleg' \subseteq 0 .. 15 /\ mideleg' \subseteq 0 .. 15
      BY <1>12 DEF riscv_switch_to_supervisor, RISCV_ALL_INTR_SOURCES_ON
    <3>2. UNION {mie', medeleg', mideleg'} \subseteq 0 .. 15
      BY <1>r, <3>1 DEF IInv, TypeOK
    <3>3. {present_timer', allocator', pmp_open'} \subseteq BOOLEAN
      BY <1>r, <1>12 DEF riscv_switch_to_supervisor, globals, IInv, TypeOK
    <3> QED BY <1>r, <1>12, <3>2, <3>3 DEF riscv_switch_to_supervisor, IInv, TypeOK, Goto, globals
  <2>2. Staged'
    BY <1>r, <1>8, <1>12 DEF riscv_switch_to_supervisor, IInv, Staged, Goto, globals, fixed, memoryVars
  <2> QED BY <1>r, <2>1, <2>2 DEF IInv
<1>13. CASE test
  <2>1. stvec = "s_mode_handle" /\ mtvec = "reset"
    BY <1>r, <1>13 DEF test, IInv, Staged, TypeOK
  <2>2. \/ pc' = "s_mode_handle" /\ mode' = mode
        \/ pc' = "reset" /\ mode' = "M"
    BY <1>13, <2>1 DEF test, Goto
  <2>3. UNCHANGED <<fixed, mstatus_MIE, mie, medeleg, mideleg, pmp_open, mtvec, stvec, globals>>
    BY <1>13 DEF test, Goto
  <2>4. TypeOK'
    BY <1>r, <2>2, <2>3 DEF IInv, TypeOK, globals
  <2>5. Staged'
    BY <1>r, <1>8, <1>13, <2>2, <2>3 DEF test, IInv, Staged, globals, fixed, memoryVars
  <2> QED BY <1>r, <2>4, <2>5 DEF IInv
<1>14. CASE UNCHANGED vars
  BY <1>r, <1>8, <1>14 DEF vars, IInv, TypeOK, Staged, fixed, csrs, globals, memoryVars
<1> QED BY <1>3, <1>4, <1>5, <1>6, <1>7, <1>9, <1>10, <1>11, <1>12, <1>13, <1>14 DEF Next

LEMMA Invariance == Spec => []IInv
BY InitEstablishes, StepPreserves, PTL DEF Spec

(* The registers and globals that kmain writes keep their types, whatever   *)
(* the CLINT node of the tree holds.                                       *)
THEOREM BootTypes == Spec => []TypeOK
<1>1. IInv => TypeOK
  BY DEF IInv
<1> QED BY <1>1, Invariance, PTL

(* No interrupt can be taken while mtvec has its reset value: mstatus masks *)
(* in machine mode and mie in supervisor mode.                             *)
THEOREM NoTrapWithoutVector == Spec => []MaskedWithoutVector
<1>1. IInv => MaskedWithoutVector
  BY DEF IInv, TypeOK, Staged, MaskedWithoutVector, InterruptsOn
<1> QED BY <1>1, Invariance, PTL

(* Supervisor code runs only after every part of kmain has succeeded, and   *)
(* then the timer registers are those of the CLINT node.                   *)
THEOREM ReadyBeforeSupervisor == Spec => []SupervisorReady
<1>1. ASSUME IInv, mode = "S"
      PROVE  /\ allocator /\ shutdown # "NULL"
             /\ ram_regions_index > 0 /\ RegionsFromTree /\ (debug => CountedHaveBytes)
             /\ result \in {"done", "failed"}
             /\ stvec = "s_mode_handle" /\ pmp_open
             /\ ClintFound
  BY <1>1 DEF IInv, Staged, RamInv
<1>2. ASSUME IInv, ClintFound
      PROVE  /\ Readable(platform.clint) /\ platform.clint.address_cells > 1
                  => clint_addr = FirstEntry(platform.clint).physicaddr
             /\ platform.clint.len <= platform.clint.address_cells + platform.clint.size_cells
  <2>1. IsNode(platform.clint) /\ platform.clint # NoNode
    BY <1>2, ClintAddrType DEF IInv, Staged, ClintFound
  <2>2. parse_reg(platform.clint, 0, 0).res = SUCCESS
    <3>1. parse_reg(platform.clint, 0, 0).res # SUCCESS => discover_clint = -2
      BY <2>1, Zenon DEF discover_clint
    <3> QED BY <1>2, <3>1 DEF ClintFound
  <2>3. clint_addr = parse_reg(platform.clint, 0, 0).addr
    BY <1>2 DEF ClintFound
  <2>4. Readable(platform.clint) /\ platform.clint.address_cells > 1
          => clint_addr = FirstEntry(platform.clint).physicaddr
    BY <2>1, <2>3, ParseReads, ZeroIsACell
  <2>5. platform.clint.len <= platform.clint.address_cells + platform.clint.size_cells
    BY <2>1, <2>2 DEF parse_reg, IsNode, SUCCESS, CALL_AGAIN
  <2> QED BY <2>4, <2>5
<1>3. IInv => SupervisorReady
  BY <1>1, <1>2 DEF SupervisorReady, ClintFound
<1> QED BY <1>3, Invariance, PTL

(* Booting does to the table of regions what module Memory does: every        *)
(* theorem about detect_memory on its own holds of it in the kernel.       *)
THEOREM BootRunsMemory == Spec => MemorySpec
<1>1. Init => MemoryInit
  BY DEF Init
<1>2. [Next]_vars => [MemoryNext]_memoryVars
  BY RamSteps
<1> QED BY <1>1, <1>2, PTL DEF Spec, MemorySpec
=============================================================================

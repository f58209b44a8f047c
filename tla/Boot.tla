-------------------------------- MODULE Boot ---------------------------------
(***************************************************************************)
(* The boot path of the hart that enters kmain (src/src/boot/kmain.c), up  *)
(* to the first trap in supervisor mode: the control and status registers  *)
(* that decide where traps go, and the globals the drivers set up.         *)
(* The stage detect_memory runs Memory, node by node.  The page allocator   *)
(* is modelled in PhysAlloc; here only whether it returns matters.         *)
(***************************************************************************)
EXTENDS Memory

CONSTANTS
  HartIds,      \* hart numbers the firmware may start the kernel on
  ClintNodes    \* "riscv,clint0" nodes a device tree may have

ASSUME ClintAssumption == \A node \in ClintNodes : IsNode(node)

NoNode == [len |-> -FDT_ERR_NOTFOUND]

\* Exception codes: illegal instruction, and the bits of RISCV_ALL_INTR_SOURCES_ON.
MCAUSE_ILLEGAL_INSTRUCTION == 2

(* Mutant of RISCV_ALL_INTR_SOURCES_ON: every bit of the register. *)
ALL_BITS_ON == 0 .. 31

RISCV_ALL_INTR_SOURCES_ON == {1, 3, 5, 7, 9, 11}

VARIABLES
  hart_id,          \* argument of kmain
  platform,         \* what the machine and its device tree are like; fixed for a run
  pc,               \* next call of kmain, "parked" in halt(), or where a trap went
  mode,             \* privilege level, "M" or "S"
  mstatus_MIE,      \* machine_interrupt_enable
  mie,              \* enabled interrupt sources
  medeleg, mideleg, \* exceptions and interrupts handled in supervisor mode
  pmp_open,         \* TRUE once pmpaddr0/pmpcfg0 give supervisor mode all of memory
  mtvec, stvec,     \* trap vectors
  clint_addr,       \* static of clint.c
  present_timer,    \* TRUE once it points to the CLINT's registers
  allocator,        \* TRUE once init_phys_allocator has returned
  shutdown          \* function pointer of power.c

csrs == <<mode, mstatus_MIE, mie, medeleg, mideleg, pmp_open, mtvec, stvec>>
globals == <<clint_addr, present_timer, memoryVars, allocator, shutdown>>
fixed == <<hart_id, platform>>
vars == <<fixed, pc, csrs, globals>>

Platforms ==
  [extensions : BOOLEAN, tree : {"NULL", "bad header", "invalid", "old", "ok"},
   clint : ClintNodes \cup {NoNode}]

(* At reset interrupts are off in mstatus; mie may have any value. *)
Init ==
  /\ hart_id \in HartIds
  /\ platform \in Platforms
  /\ pc = "kmain"
  /\ mode = "M" /\ mstatus_MIE = FALSE /\ mie \in {{}, {7}}
  /\ medeleg = {} /\ mideleg = {} /\ pmp_open = FALSE
  /\ mtvec = "reset" /\ stvec = "reset"
  /\ clint_addr = 0 /\ present_timer = FALSE /\ allocator = FALSE
  /\ shutdown = "NULL"
  /\ MemoryInit

(* halt(), entered from a panic, an assertion or kmain's other branch. *)
halt ==
  /\ pc' = "parked"
  /\ mstatus_MIE' = FALSE
  /\ UNCHANGED <<fixed, mode, mie, medeleg, mideleg, pmp_open, mtvec, stvec>>

Goto(label) == pc' = label /\ UNCHANGED fixed

kmain ==
  /\ pc = "kmain"
  /\ \/ hart_id # 0 /\ halt /\ UNCHANGED globals
     \/ /\ hart_id = 0
        /\ mstatus_MIE' = FALSE
        /\ Goto("ensure_extensions_present")
        /\ UNCHANGED <<mode, mie, medeleg, mideleg, pmp_open, mtvec, stvec, globals>>

ensure_extensions_present ==
  /\ pc = "ensure_extensions_present"
  /\ \/ ~platform.extensions /\ halt /\ UNCHANGED globals
     \/ platform.extensions /\ Goto("setup_interrupt_handler") /\ UNCHANGED <<csrs, globals>>

(* Mutant of setup_interrupt_handler: mie keeps what it had at reset. *)
setup_keeps_mie ==
  /\ pc = "setup_interrupt_handler"
  /\ medeleg' = {} /\ mideleg' = {}
  /\ Goto("check_device_tree")
  /\ UNCHANGED <<mode, mstatus_MIE, mie, pmp_open, mtvec, stvec, globals>>

(* The writes of mtvec and stvec are commented out. *)
setup_interrupt_handler ==
  /\ pc = "setup_interrupt_handler"
  /\ medeleg' = {} /\ mideleg' = {}
  /\ mie' = {}
  /\ Goto("check_device_tree")
  /\ UNCHANGED <<mode, mstatus_MIE, pmp_open, mtvec, stvec, globals>>

(* FdtCheck has it in full.  For an "old" tree, older than version 16 and   *)
(* with another name than / for its root, fdt_check_full calls strrchr of   *)
(* crt0.c, which never returns.                                            *)
check_device_tree ==
  /\ pc = "check_device_tree"
  /\ \/ platform.tree \in {"NULL", "bad header", "invalid"} /\ halt /\ UNCHANGED globals
     \/ platform.tree = "old" /\ Goto("spinning") /\ UNCHANGED <<csrs, globals>>
     \/ platform.tree = "ok" /\ Goto("init_interrupt_controller") /\ UNCHANGED <<csrs, globals>>

(* Mutant of discover_clint: the result of parse_reg is not looked at. *)
discover_unchecked == IF platform.clint = NoNode THEN -1 ELSE 0

(* Any other result of parse_reg than SUCCESS is an error, CALL_AGAIN too. *)
discover_clint ==
  CASE platform.clint = NoNode -> -1
    [] platform.clint # NoNode /\ parse_reg(platform.clint, 0, 0).res # SUCCESS -> -2
    [] OTHER -> 0

init_interrupt_controller ==
  /\ pc = "init_interrupt_controller"
  /\ \/ /\ discover_clint = -1 /\ halt
        /\ UNCHANGED globals
     \/ /\ discover_clint = -2 /\ halt
        /\ clint_addr' = parse_reg(platform.clint, 0, 0).addr
        /\ UNCHANGED <<present_timer, memoryVars, allocator, shutdown>>
     \/ /\ discover_clint = 0
        /\ clint_addr' = parse_reg(platform.clint, 0, 0).addr
        /\ present_timer' = TRUE
        /\ Goto("detect_memory")
        /\ UNCHANGED <<csrs, memoryVars, allocator, shutdown>>

(* Mutant of detect_memory: kmain repeats it until it succeeds. *)
detect_memory_retried ==
  /\ pc = "detect_memory"
  /\ \/ /\ MemoryNext
        /\ \/ result' # "halt" /\ UNCHANGED <<pc, fixed, csrs>>
           \/ result' = "halt" /\ halt
        /\ UNCHANGED <<clint_addr, present_timer, allocator, shutdown>>
     \/ result = "failed" /\ UNCHANGED vars
     \/ result = "done" /\ Goto("init_phys_allocator") /\ UNCHANGED <<csrs, globals>>

(* kmain ignores what detect_memory returns; an assertion that fails in it  *)
(* parks the hart.                                                         *)
detect_memory ==
  /\ pc = "detect_memory"
  /\ \/ /\ MemoryNext
        /\ \/ result' # "halt" /\ UNCHANGED <<pc, fixed, csrs>>
           \/ result' = "halt" /\ halt
        /\ UNCHANGED <<clint_addr, present_timer, allocator, shutdown>>
     \/ /\ result \in {"done", "failed"}
        /\ Goto("init_phys_allocator")
        /\ UNCHANGED <<csrs, globals>>

(* Without RAM it stops, on its first assertion or for want of memory; with *)
(* RAM it may stop as well, see PhysAlloc.                                 *)
init_phys_allocator ==
  /\ pc = "init_phys_allocator"
  /\ \/ halt /\ UNCHANGED globals
     \/ /\ ram_regions_index > 0
        /\ allocator' = TRUE
        /\ Goto("init_power_controller")
        /\ UNCHANGED <<csrs, clint_addr, present_timer, memoryVars, shutdown>>

init_power_controller ==
  /\ pc = "init_power_controller"
  /\ shutdown' = "syscon_shutdown"
  /\ Goto("riscv_switch_to_supervisor")
  /\ UNCHANGED <<csrs, clint_addr, present_timer, memoryVars, allocator>>

(* medeleg is given the mask of the interrupt sources, as mideleg is. *)
riscv_switch_to_supervisor ==
  /\ pc = "riscv_switch_to_supervisor"
  /\ stvec' = "s_mode_handle"
  /\ medeleg' = RISCV_ALL_INTR_SOURCES_ON /\ mideleg' = RISCV_ALL_INTR_SOURCES_ON
  /\ pmp_open' = TRUE
  /\ mstatus_MIE' = FALSE
  /\ mode' = "S"
  /\ Goto("test")
  /\ UNCHANGED <<mie, mtvec, globals>>

(* The kernel's supervisor code: an illegal instruction. *)
test ==
  /\ pc = "test"
  /\ IF MCAUSE_ILLEGAL_INSTRUCTION \in medeleg
     THEN Goto(stvec) /\ UNCHANGED mode
     ELSE Goto(mtvec) /\ mode' = "M"
  /\ UNCHANGED <<mstatus_MIE, mie, medeleg, mideleg, pmp_open, mtvec, stvec, globals>>

Next ==
  \/ kmain \/ ensure_extensions_present \/ setup_interrupt_handler \/ check_device_tree
  \/ init_interrupt_controller \/ detect_memory \/ init_phys_allocator
  \/ init_power_controller \/ riscv_switch_to_supervisor \/ test

(* The hart goes on executing. *)
Spec == Init /\ [][Next]_vars /\ WF_vars(Next)

-----------------------------------------------------------------------------
TypeOK ==
  /\ pc \in {"kmain", "ensure_extensions_present", "setup_interrupt_handler",
             "check_device_tree", "init_interrupt_controller", "detect_memory",
             "init_phys_allocator", "init_power_controller", "riscv_switch_to_supervisor",
             "test", "parked", "spinning", "reset", "s_mode_handle"}
  /\ mode \in {"M", "S"} /\ mstatus_MIE \in BOOLEAN
  /\ UNION {mie, medeleg, mideleg} \subseteq 0 .. 15
  /\ mtvec = "reset" /\ stvec \in {"reset", "s_mode_handle"}
  /\ clint_addr \in Cell
  /\ {present_timer, allocator, pmp_open} \subseteq BOOLEAN
  /\ shutdown \in {"NULL", "syscon_shutdown"}

(* An interrupt would be taken now if one were pending. *)
InterruptsOn == mie # {} /\ (mode = "M" => mstatus_MIE)

(* While the machine trap vector is not written no interrupt can be taken,  *)
(* neither in machine mode, where mstatus masks them, nor after the switch  *)
(* to supervisor mode, where only mie does.                                *)
MaskedWithoutVector == mtvec = "reset" => ~InterruptsOn

(* Supervisor code runs only after the whole of kmain's initialisation      *)
(* succeeded: the timer registers are those of the tree's CLINT, the RAM   *)
(* regions are those of its memory nodes, and in a debug build none of     *)
(* them is empty.                                                          *)
SupervisorReady ==
  mode = "S" =>
    /\ allocator /\ shutdown # "NULL"
    /\ ram_regions_index > 0 /\ RegionsFromTree /\ (debug => CountedHaveBytes)
    /\ result \in {"done", "failed"}
    /\ stvec = "s_mode_handle" /\ pmp_open
    /\ present_timer /\ platform.clint # NoNode
    /\ Readable(platform.clint) /\ platform.clint.address_cells > 1
         => clint_addr = FirstEntry(platform.clint).physicaddr
    /\ platform.clint.len <= platform.clint.address_cells + platform.clint.size_cells

(* Every stage of kmain comes to an end: the hart is parked by the one that *)
(* finds something wrong, or it runs supervisor code.  Only an old tree    *)
(* keeps hart 0 of a machine with the extensions in check_device_tree.     *)
BootSettles ==
  (platform.tree # "old" \/ hart_id # 0 \/ ~platform.extensions)
  => <>(pc = "parked" \/ mode = "S")
=============================================================================

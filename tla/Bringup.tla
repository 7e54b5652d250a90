------------------------------ MODULE Bringup -------------------------------
(***************************************************************************)
(* KernelMain from the PCI scan to the polling loop: it finds the xHC,     *)
(* enables it on the bus, takes it over (ControllerInit), and then the     *)
(* handlers of the loop allocate for each device that is enumerated.       *)
(* All of it draws on one table of PCI functions and one memory pool.      *)
(***************************************************************************)
EXTENDS ControllerInit

CONSTANTS
  Machines,    \* the machines the kernel may find itself on
  MaxDevices,  \* bound on the devices enumerated
  MaxRings     \* bound on the endpoints configured of one device

(* memory_pool is alignas(64) and has 32 pages (kMemoryPoolSize).          *)
ASSUME RoomAssumption == PoolSize >= 32 * Page

ASSUME MachinesAssumption ==
  /\ MaxDevices \in Nat /\ MaxRings \in Nat
  /\ \A m \in Machines : m.base \in Nat /\ m.base % 64 = 0 /\ m.scratchpads \in Nat

VARIABLES
  scanned,  \* devices and the error of ScanAllBus
  xhc,      \* xhc_dev: its place in the table, 0 for nullptr
  mmio,     \* xhc_mmio_base
  command,  \* the PCI command bits of the xHC that the kernel has set
  routed,   \* SwitchEhci2Xhci has routed the shared ports to the xHC
  known     \* how many devices have got memory by each of the three handlers

vars == <<initVars, scanned, xhc, mmio, command, routed, known>>

-----------------------------------------------------------------------------
(* Configuration space (external): what is behind an address of it.        *)
(* machine.space maps the functions that exist to their registers.         *)
(* Where it begins, and the enable bit that the ports want, are left out.  *)
Absent(reg) == CASE reg = 0 -> 65535 [] reg = 12 -> 255 [] reg = 8 -> <<255, 255, 255>>
                 [] OTHER -> 16777215

ConfigSpace(bdf, reg) ==
  IF bdf \in DOMAIN machine.space THEN machine.space[bdf][reg] ELSE Absent(reg)

(* The functions are numbered, and each has as many bytes. *)
Number(b, d, f) == (b * 32 + d) * 8 + f

At(address, bytes) ==
  LET n == address \div bytes
  IN  ConfigSpace(<<n \div 256, (n \div 8) % 32, n % 8>>, address % bytes)

(* ECAM: a page of memory *)
MakeEcamAddress(b, d, f, reg) == Number(b % 256, d % 32, f % 8) * 4096 + (reg % 4096)
ReadEcamConfig(b, d, f, reg)  == At(MakeEcamAddress(b, d, f, reg), 4096)

(* The older layout, through a window of memory *)
MakeIoAddress(b, d, f, reg) ==
  Number(b % 256, d % 32, f % 8) * 256 + ((reg % 256) - (reg % 4))
ReadIoConfig(b, d, f, reg) == At(MakeIoAddress(b, d, f, reg), 256)

(* The same through the ports CONFIG_ADDRESS and CONFIG_DATA *)
MakeAddress(b, d, f, reg) == Number(b, d, f) * 256 + ((reg % 256) - (reg % 4))
ReadPorts(b, d, f, reg)   == At(MakeAddress(b, d, f, reg), 256)

(* The three versions of pci.cpp, which are the same but for this. *)
ReadConfig(b, d, f, reg) ==
  CASE machine.access = "ecam"  -> ReadEcamConfig(b, d, f, reg)
    [] machine.access = "io"    -> ReadIoConfig(b, d, f, reg)
    [] machine.access = "ports" -> ReadPorts(b, d, f, reg)

TableSize == 32
INSTANCE PciScan WITH ReadReg <- ReadConfig

(* What PCI has every machine do: there is a host bridge; a device has a   *)
(* function 0, and says so in its header if it has others.                 *)
ASSUME PciAssumption ==
  \A m \in Machines :
    /\ m.access \in {"ecam", "io", "ports"}
    /\ DOMAIN m.space \subseteq (0..255) \X (0..31) \X (0..7) /\ <<0, 0, 0>> \in DOMAIN m.space
    /\ \A f \in DOMAIN m.space :
         /\ m.space[f][0] # NoVendor /\ m.space[f][12] \in 0..255
         /\ m.space[f][16] \in Nat /\ m.space[f][24] \in Nat
         /\ f[3] # 0 => /\ <<f[1], f[2], 0>> \in DOMAIN m.space
                       /\ m.space[<<f[1], f[2], 0>>][12] >= 128

Intel   == 32902   \* 0x8086
XhciClass == <<12, 3, 48>>
EhciClass == <<12, 3, 32>>
IsClass(dev, class) == ConfigSpace(dev, 8) = class
IsIntel(dev)        == ConfigSpace(dev, 0) = Intel

-----------------------------------------------------------------------------
(* KernelMain *)

Scan ==
  /\ pc = "Scan"
  /\ scanned' = ScanAllBus
  /\ pc' = "Find"
  /\ UNCHANGED <<machine, pool, err, buffers, regs, xhc, mmio, command, routed, known>>

Table == scanned.value

PreferredBug(matches) ==   \* the first that matches
  CHOOSE i \in matches : \A j \in matches : i <= j

(* The loop goes on over the table until an Intel controller; without one  *)
(* it is left with the last that matches.                                  *)
Preferred(matches) ==
  CHOOSE i \in matches :
    IF \E j \in matches : IsIntel(Table[j])
    THEN IsIntel(Table[i]) /\ \A j \in matches : IsIntel(Table[j]) => i <= j
    ELSE \A j \in matches : j <= i

FindXhc ==
  /\ pc = "Find"
  /\ LET matches == {i \in DOMAIN Table : IsClass(Table[i], XhciClass)}
     IN  xhc' = IF matches = {} THEN 0 ELSE Preferred(matches)
  /\ pc' = "ReadBar"
  /\ UNCHANGED <<machine, pool, err, buffers, regs, scanned, mmio, command, routed, known>>

(* With no xHC in the table KernelMain goes on with a null pointer.        *)
LocateXhc ==
  /\ pc = "ReadBar"
  /\ IF xhc = 0
     THEN pc' = "Undefined" /\ UNCHANGED mmio
     ELSE /\ LET bar == ReadBar(Table[xhc][1], Table[xhc][2], Table[xhc][3], 0).value
             IN  mmio' = <<bar[1], bar[2] - (bar[2] % 16)>>
          /\ pc' = "Command"
  /\ UNCHANGED <<machine, pool, err, buffers, regs, scanned, xhc, command, routed, known>>

EnableOnBus ==
  /\ pc = "Command"
  /\ command' = command \cup {"IO", "MEMORY", "MASTER"}
  /\ pc' = "Switch"
  /\ UNCHANGED <<machine, pool, err, buffers, regs, scanned, xhc, mmio, routed, known>>

SwitchEhci2Xhci ==
  /\ pc = "Switch"
  /\ routed' = ( /\ IsIntel(Table[xhc])
                 /\ \E i \in DOMAIN Table : IsClass(Table[i], EhciClass) /\ IsIntel(Table[i]) )
  /\ pc' = "DevMgr"
  /\ UNCHANGED <<machine, pool, err, buffers, regs, scanned, xhc, mmio, command, known>>

-----------------------------------------------------------------------------
(* What a device costs: itself with its contexts and the ring of its       *)
(* control pipe (AddressDevice), its class driver (NewClassDriver) and a   *)
(* ring for each of its endpoints (ConfigureEndpoints).  The sizes are     *)
(* those of the classes on a 64-bit machine.                               *)
AllocRing(p) == AllocMem(AllocMem(p, Request(32, 64, Page)), TrbBuffer)

AllocRings(p, n) ==
  LET after[k \in 0..MaxRings] == IF k = 0 THEN p ELSE AllocRing(after[k - 1])
  IN  after[n]

(* What a handler may leave of the pool *)
Served(p, handler) ==
  CASE handler = 1 -> {AllocRing(AllocMem(p, Request(3584, 64, Page)))}
    [] handler = 2 -> {AllocMem(p, Request(2288, 0, 0))}
    [] handler = 3 -> {AllocRings(p, n) : n \in 0..MaxRings}

(* A handler takes the null pointer of a request that fails for memory.    *)
EnumerateDevice(handler) ==
  /\ pc = "Ports"
  /\ err = "kSuccess"   \* without rings no event ever comes
  /\ known[handler] < (IF handler = 1 THEN MaxDevices ELSE known[handler - 1])
  /\ known' = [known EXCEPT ![handler] = @ + 1]
  /\ pool' \in Served(pool, handler)
  /\ pc' = IF pool'.nulls > pool.nulls THEN "Undefined" ELSE "Ports"
  /\ UNCHANGED <<machine, err, buffers, regs, scanned, xhc, mmio, command, routed>>

-----------------------------------------------------------------------------
InitKernel ==
  /\ machine \in Machines
  /\ pc = "Scan"
  /\ pool = Untouched(machine.base)
  /\ bios \in {FALSE, 1 \in ToSet(machine.capabilities)}
  /\ InitController
  /\ scanned = WithError(<<>>, "kSuccess")
  /\ xhc = 0 /\ mmio = <<0, 0>> /\ command = {} /\ routed = FALSE
  /\ known = [handler \in 1..3 |-> 0]

mainVars == <<scanned, xhc, mmio, command, routed, known>>

AfterScan ==
  \/ FindXhc \/ LocateXhc \/ EnableOnBus \/ SwitchEhci2Xhci
  \/ InitializeController /\ UNCHANGED mainVars

KernelMain == Scan \/ AfterScan

Next ==
  \/ KernelMain
  \/ \E handler \in 1..3 : EnumerateDevice(handler)
  \/ Hardware /\ UNCHANGED mainVars

(* The thread goes on after the scan, the hardware does what it is asked   *)
(* to do, and the firmware finds the time to let go when it is asked to.   *)
Fairness == /\ WF_vars(AfterScan)
            /\ WF_vars(Answers /\ UNCHANGED mainVars)
            /\ SF_vars(FirmwareLetsGo /\ UNCHANGED mainVars)

Spec == InitKernel /\ [][Next]_vars /\ Fairness

-----------------------------------------------------------------------------
Initializing ==
  { "DevMgr", "Own", "WaitOwn", "Stop", "WaitHalt", "Reset", "WaitReset", "WaitReady",
    "Slots", "Scratchpads", "Buffers", "Contexts", "CommandRing", "Register", "EventRing",
    "Segment", "Interrupter" }

Running == {"Run", "WaitRun", "Ports"}

(* Every variable has its type: the table has no more than 32 entries, and *)
(* xhc_dev is nullptr or points into it.                                   *)
TypeOK ==
  /\ pc \in {"Scan", "Find", "ReadBar", "Command", "Switch", "Undefined"}
           \cup Initializing \cup Running
  /\ pool.ptr \in Nat /\ pool.nulls \in Nat
  /\ buffers \in 0..machine.scratchpads
  /\ err \in {"kSuccess", "kNoEnoughMemory"}
  /\ {bios, os, run, reset, halted, cnr, routed} \subseteq BOOLEAN
  /\ programmed \subseteq Needed
  /\ scanned.error \in {"kSuccess", "kFull"}
  /\ Len(Table) <= TableSize
  /\ xhc \in 0..Len(Table)
  /\ command \subseteq {"IO", "MEMORY", "MASTER"}
  /\ known \in [1..3 -> 0..MaxDevices]

(* What a scan should find: every function on a bus that can be reached    *)
(* from a root through bridges.                                            *)
Functions(b)   == {f \in DOMAIN machine.space : f[1] = b}
Bridges        == {f \in DOMAIN machine.space : Bridge(machine.space[f][8])}
Secondary(f)   == (machine.space[f][24] \div 256) % 256
MultiFunction  == machine.space[<<0, 0, 0>>][12] >= 128
Roots          == IF MultiFunction THEN {f[3] : f \in {g \in Functions(0) : g[2] = 0}} ELSE {0}

(* The least set of buses with the roots that bridges do not lead out of   *)
Closed(buses) == \A f \in Bridges : f[1] \in buses => Secondary(f) \in buses

Below(roots) ==
  LET buses == roots \cup {Secondary(f) : f \in Bridges}
  IN  {b \in buses : \A S \in SUBSET buses : roots \subseteq S /\ Closed(S) => b \in S}

Reachable == UNION {Functions(b) : b \in Below(Roots)}

(* As the firmware leaves the bridges: buses are numbered downwards, each  *)
(* behind one bridge.                                                      *)
Numbered ==
  /\ \A f \in Bridges : Secondary(f) > f[1] /\ Secondary(f) \notin Roots
  /\ \A f, g \in Bridges : f # g => Secondary(f) # Secondary(g)

(* Where the registers of a function are, in 32 or 64 bits                 *)
RegistersAt(f) ==
  <<IF (machine.space[f][16] \div 4) % 2 = 1 THEN machine.space[f][20] ELSE 0,
    machine.space[f][16] - (machine.space[f][16] % 16)>>

(* The scan finds every function that can be reached, once, where the      *)
(* buses are numbered and the table holds them all, and reports kFull      *)
(* where it does not; the controller is an xHC if there is one in the      *)
(* table, and an Intel one if there is one (the comment at main.cpp:142).  *)
(* When its first register is touched they are those of its base address   *)
(* register, it may use the bus, and an Intel one has got the ports that   *)
(* an Intel EHCI, wherever it is, could have.                              *)
FindsController ==
  LET Xhcs == {i \in DOMAIN Table : IsClass(Table[i], XhciClass)}
  IN  pc # "Scan" =>
        /\ Numbered =>
             IF Cardinality(Reachable) <= TableSize
             THEN /\ scanned.error = "kSuccess"
                  /\ ToSet(Table) = Reachable /\ Len(Table) = Cardinality(Reachable)
             ELSE /\ scanned.error = "kFull"
                  /\ ToSet(Table) \subseteq Reachable /\ IsInjective(Table)
        /\ pc # "Find" =>
             /\ xhc = 0 <=> Xhcs = {}
             /\ xhc # 0 => xhc \in Xhcs
             /\ (\E i \in Xhcs : IsIntel(Table[i])) => IsIntel(Table[xhc])
        /\ pc \in Initializing \cup Running =>
             /\ mmio = RegistersAt(Table[xhc])
             /\ {"MEMORY", "MASTER"} \subseteq command
             /\ Numbered /\ Cardinality(Reachable) <= TableSize =>
                  ( routed <=>
                      /\ IsIntel(Table[xhc])
                      /\ \E f \in Reachable : IsClass(f, EhciClass) /\ IsIntel(f) )

(* Whatever the kernel has allocated, for the controller and for devices,  *)
(* lies in the pool, at its alignment, within its boundary and apart from  *)
(* the rest (memory.hpp:60-67).  Class drivers ask for no alignment: they  *)
(* lie at a multiple of 16 because everything before them does.            *)
BlocksSeparate ==
  /\ Separate(pool)
  /\ \A b \in pool.blocks : b.at % 16 = 0

(* Once the controller runs it has been given all it needs since its       *)
(* reset, unless Initialize ran out of memory: which it does not with up   *)
(* to 30 scratchpad buffers, each of them got.                             *)
Fitting == 30

RunsConfigured ==
  pc \in {"WaitRun", "Ports"} /\ run =>
    /\ err = "kSuccess" => Needed \subseteq programmed
    /\ machine.scratchpads <= Fitting =>
         /\ err = "kSuccess"
         /\ Cardinality({b \in pool.blocks : b.for = ScratchpadBuffer})
               = machine.scratchpads

(* From the scan on the kernel gets to its polling loop, where there is an *)
(* xHC: no wait of the bring-up is in vain.                                *)
ControllerRuns ==
  pc = "Find" ~> (pc = "Ports" \/ (xhc = 0 /\ pc = "Undefined"))
=============================================================================

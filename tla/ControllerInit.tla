--------------------------- MODULE ControllerInit ---------------------------
(***************************************************************************)
(* Controller::Initialize and Run (usb/xhci/xhci.cpp): the driver takes    *)
(* the host controller over from the firmware, stops and resets it, gives  *)
(* it its memory and starts it.  Every wait is for a bit the controller or *)
(* the firmware changes in its own time.                                   *)
(***************************************************************************)
EXTENDS MemoryPool, Sequences, SequencesExt

VARIABLES
  pc,          \* where the thread is
  machine,     \* what does not change: the hardware, and where the pool lies
  pool,        \* the pool of usb/memory.cpp
  err,         \* what Initialize returned
  buffers,     \* how many scratchpad buffers it has asked for
  bios, os,    \* USBLEGSUP: the two ownership semaphores
  run, reset,  \* USBCMD: run_stop, host_controller_reset
  halted, cnr, \* USBSTS: host_controller_halted, controller_not_ready
  programmed   \* the registers that hold what the driver wrote into them

regs     == <<bios, os, run, reset, halted, cnr, programmed>>
initVars == <<pc, machine, pool, err, buffers, regs>>

SlotCount == 8     \* Controller::kDeviceSize
Page      == 4096

(* What Initialize allocates, in its order *)
DeviceArray      == Request(8 * (SlotCount + 1), 0, 0)
ContextArray     == Request(8 * (SlotCount + 1), 64, Page)
ScratchpadArray  == Request(8 * machine.scratchpads, 64, Page)
ScratchpadBuffer == Request(Page, Page, Page)
TrbBuffer        == Request(32 * 16, 64, 65536)
SegmentTable     == Request(16, 64, 65536)

(* The second is not asked for when the first is refused. *)
AllocPair(p, first, second) ==
  LET q == AllocMem(p, first)
  IN  IF q.nulls > p.nulls THEN q ELSE AllocMem(q, second)

(* Served in full, or Initialize returns kNoEnoughMemory; to KernelMain,   *)
(* which logs the error and runs the controller.                           *)
AllocatesOrReturns(served, next) ==
  /\ pool' = served
  /\ IF pool'.nulls = pool.nulls
     THEN pc' = next /\ UNCHANGED err
     ELSE pc' = "Run" /\ err' = "kNoEnoughMemory"

(* The firmware may have handed the controller over before.                *)
InitController ==
  /\ err = "kSuccess" /\ buffers = 0
  /\ os \in {FALSE, ~bios /\ 1 \in ToSet(machine.capabilities)}
  /\ run \in BOOLEAN /\ halted = ~run   \* the firmware may have been using it
  /\ reset = FALSE /\ cnr = FALSE
  /\ programmed = {}

-----------------------------------------------------------------------------
InitializeDeviceManager ==
  /\ pc = "DevMgr"
  /\ AllocatesOrReturns(AllocPair(pool, DeviceArray, ContextArray), "Own")
  /\ UNCHANGED <<machine, buffers, regs>>

RequestHCOwnershipBug ==   \* asks and does not wait
  /\ pc = "Own"
  /\ os' = TRUE
  /\ pc' = "Stop"
  /\ UNCHANGED <<machine, pool, err, buffers, bios, run, reset, halted, cnr, programmed>>

(* RequestHCOwnership: without the legacy capability in the list of        *)
(* extended capabilities there is nothing to ask for; otherwise it asks    *)
(* and waits until the firmware has let go.                                *)
RequestHCOwnership ==
  /\ pc = "Own"
  /\ IF 1 \in ToSet(machine.capabilities) /\ ~os
     THEN pc' = "WaitOwn" /\ os' = TRUE
     ELSE pc' = "Stop" /\ UNCHANGED os
  /\ UNCHANGED <<machine, pool, err, buffers, bios, run, reset, halted, cnr, programmed>>

WaitForOwnership ==
  /\ pc = "WaitOwn"
  /\ ~bios /\ os
  /\ pc' = "Stop"
  /\ UNCHANGED <<machine, pool, err, buffers, regs>>

StopBug ==   \* run_stop is left set
  /\ pc = "Stop"
  /\ pc' = "WaitHalt"
  /\ UNCHANGED <<machine, pool, err, buffers, regs>>

(* The host controller must be halted before it is reset. *)
Stop ==
  /\ pc = "Stop"
  /\ run' = (run /\ halted)
  /\ pc' = "WaitHalt"
  /\ UNCHANGED <<machine, pool, err, buffers, bios, os, reset, halted, cnr, programmed>>

WaitForHalt ==
  /\ pc = "WaitHalt"
  /\ halted
  /\ pc' = "Reset"
  /\ UNCHANGED <<machine, pool, err, buffers, regs>>

StartReset ==
  /\ pc = "Reset"
  /\ reset' = TRUE
  /\ pc' = "WaitReset"
  /\ UNCHANGED <<machine, pool, err, buffers, bios, os, run, halted, cnr, programmed>>

WaitForResetBug ==   \* does not wait for either bit
  /\ pc = "WaitReset"
  /\ pc' = "Slots"
  /\ UNCHANGED <<machine, pool, err, buffers, regs>>

(* First the reset bit, then controller_not_ready *)
WaitForReset ==
  /\ \/ pc = "WaitReset" /\ ~reset /\ pc' = "WaitReady"
     \/ pc = "WaitReady" /\ ~cnr /\ pc' = "Slots"
  /\ UNCHANGED <<machine, pool, err, buffers, regs>>

(* One register write of Initialize *)
Writes(register, from, to) ==
  /\ pc = from
  /\ pc' = to
  /\ programmed' = programmed \cup {register}
  /\ UNCHANGED <<machine, pool, err, buffers, bios, os, run, reset, halted, cnr>>

SetMaxSlots == Writes("CONFIG", "Slots", "Scratchpads")

AllocateScratchpadArray ==
  /\ pc = "Scratchpads"
  /\ IF machine.scratchpads > 0
     THEN pc' = "Buffers" /\ pool' = AllocMem(pool, ScratchpadArray)
     ELSE pc' = "Contexts" /\ UNCHANGED pool
  /\ UNCHANGED <<machine, err, buffers, regs>>

(* Nobody looks whether a buffer was got. *)
AllocateScratchpadBuffer ==
  /\ pc = "Buffers"
  /\ pool' = AllocMem(pool, ScratchpadBuffer)
  /\ buffers' = buffers + 1
  /\ pc' = IF buffers' = machine.scratchpads THEN "Contexts" ELSE "Buffers"
  /\ UNCHANGED <<machine, err, regs>>

SetContexts == Writes("DCBAAP", "Contexts", "CommandRing")

InitializeCommandRing ==
  /\ pc = "CommandRing"
  /\ AllocatesOrReturns(AllocMem(pool, TrbBuffer), "Register")
  /\ UNCHANGED <<machine, buffers, regs>>

RegisterCommandRing == Writes("CRCR", "Register", "EventRing")

InitializeEventRing ==
  /\ pc = "EventRing"
  /\ AllocatesOrReturns(AllocPair(pool, TrbBuffer, SegmentTable), "Segment")
  /\ UNCHANGED <<machine, buffers, regs>>

(* ERSTSZ, ERDP and ERSTBA *)
SetSegmentTable == Writes("ERST", "Segment", "Interrupter")

(* IMAN of the primary interrupter and interrupter_enable of USBCMD *)
EnableInterrupter == Writes("IMAN", "Interrupter", "Run")

Run ==
  /\ pc = "Run"
  /\ run' = TRUE
  /\ pc' = "WaitRun"
  /\ UNCHANGED <<machine, pool, err, buffers, bios, os, reset, halted, cnr, programmed>>

WaitForRun ==
  /\ pc = "WaitRun"
  /\ ~halted
  /\ pc' = "Ports"
  /\ UNCHANGED <<machine, pool, err, buffers, regs>>

InitializeController ==
  \/ InitializeDeviceManager \/ RequestHCOwnership \/ WaitForOwnership
  \/ Stop \/ WaitForHalt \/ StartReset \/ WaitForReset
  \/ SetMaxSlots \/ AllocateScratchpadArray \/ AllocateScratchpadBuffer \/ SetContexts
  \/ InitializeCommandRing \/ RegisterCommandRing
  \/ InitializeEventRing \/ SetSegmentTable \/ EnableInterrupter
  \/ Run \/ WaitForRun

-----------------------------------------------------------------------------
(* The firmware and the controller (external) *)

(* The firmware gives the controller up when it is asked to, and not while *)
(* it is starting or stopping it.                                          *)
FirmwareLetsGo ==
  /\ os /\ bios /\ halted = ~run
  /\ bios' = FALSE
  /\ UNCHANGED <<pc, machine, pool, err, buffers, os, run, reset, halted, cnr, programmed>>

(* Until then it uses the controller: it may start and stop it. *)
FirmwareUses ==
  /\ bios /\ ~reset /\ halted = ~run
  /\ run' = ~run
  /\ UNCHANGED <<pc, machine, pool, err, buffers, bios, os, reset, halted, cnr, programmed>>

Halts ==
  /\ ~run /\ ~halted
  /\ halted' = TRUE
  /\ UNCHANGED <<pc, machine, pool, err, buffers, bios, os, run, reset, cnr, programmed>>

Starts ==
  /\ run /\ halted /\ ~reset /\ ~cnr
  /\ halted' = FALSE
  /\ UNCHANGED <<pc, machine, pool, err, buffers, bios, os, run, reset, cnr, programmed>>

(* A reset clears every register and may leave the controller busy. *)
Resets ==
  /\ reset
  /\ reset' = FALSE /\ run' = FALSE /\ halted' = TRUE
  /\ programmed' = {}
  /\ cnr' \in BOOLEAN
  /\ UNCHANGED <<pc, machine, pool, err, buffers, bios, os>>

GetsReady ==
  /\ cnr
  /\ cnr' = FALSE
  /\ UNCHANGED <<pc, machine, pool, err, buffers, bios, os, run, reset, halted, programmed>>

Answers  == FirmwareLetsGo \/ Halts \/ Starts \/ Resets \/ GetsReady
Hardware == Answers \/ FirmwareUses

-----------------------------------------------------------------------------
(* The order the controller needs: it is taken from the firmware before it *)
(* is touched, halted before it is reset (the comment in Initialize), and  *)
(* its registers are written while it is ready and not being reset.        *)
TakesOverInOrder ==
  [][LET commands == <<run, reset, programmed>>
     IN  pc' # pc /\ commands' # commands =>
           /\ ~bios /\ ~reset /\ ~cnr
           /\ reset' => halted
           /\ programmed' # programmed => halted]_initVars

Needed == {"CONFIG", "DCBAAP", "CRCR", "ERST", "IMAN"}
=============================================================================

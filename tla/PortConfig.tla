----------------------------- MODULE PortConfig -----------------------------
(***************************************************************************)
(* The core of the kernel's USB stack: how usb::xhci takes every root hub  *)
(* port from "nothing known" to "configured", one event at a time, and     *)
(* shares the only default USB address between the ports by means of       *)
(* addressing_port and port_config_phase (usb/xhci/xhci.cpp).              *)
(*                                                                         *)
(* The driver is one thread of control: main configures the ports that are *)
(* connected, then handles events for ever.  It runs against the host      *)
(* controller, which changes port registers, executes commands and moves   *)
(* transfers at its own pace; those are the external actions below.        *)
(***************************************************************************)
EXTENDS Integers, Sequences, FiniteSets

CONSTANTS
  NumPorts,        \* xhc.MaxPorts()
  NumSlots,        \* Controller::kDeviceSize, also written to CONFIG.MaxSlotsEn
  EndpointNumbers, \* per port, the endpoint numbers of its device that belong to an
                   \* interface NewClassDriver knows: 0 if there is no such interface
  SuperSpeedPorts, \* the USB3 ports: enabled by link training, before any reset
  HasScratchpad,   \* whether the controller asks for scratchpad buffers
  MaxUnplugs,      \* bound: how often a device is pulled out
  MaxFaults        \* bound: how many commands and transfers fail

Ports == 1 .. NumPorts
Slots == 1 .. NumSlots

(* Index 0 stands for the port in an output context nobody has written.    *)
ASSUME PortConfigAssumption ==
  /\ NumPorts \in Nat \ {0}
  /\ NumSlots \in Nat \ {0}
  /\ EndpointNumbers \in [0 .. NumPorts -> 0 .. 15]
  /\ SuperSpeedPorts \subseteq Ports
  /\ HasScratchpad \in BOOLEAN
  /\ MaxUnplugs \in Nat
  /\ MaxFaults \in Nat

(* The ports with a device the kernel has a class driver for.  Such a      *)
(* device has an interrupt IN endpoint: UsbDevice is about those without.  *)
HidPorts == {p \in Ports : EndpointNumbers[p] > 0}

Phases == {"NotConnected", "WaitingAddressed", "ResettingPort", "EnablingSlot",
           "AddressingDevice", "InitializingDevice", "ConfiguringEndpoints",
           "Configured"}

Commands == {"EnableSlot", "AddressDevice", "ConfigureEndpoint"}

(* The transfers the driver ever asks for, in the order it asks for them. *)
Transfers == {"DeviceDesc", "ConfigDesc", "SetConfig", "SetProtocol",
              "InterruptIn"}

VARIABLES
  phase,      \* port_config_phase, index 0 included: addressing_port may be 0
  addressing, \* addressing_port
  dev,        \* DeviceManager::devices_ with the state of each Device
  dcbaa,      \* DeviceManager::device_context_pointers_
  pc,         \* where the thread is: "Boot", "Loop", "Reset" or "Spin"
  after,      \* what follows Port::Reset when pc is "Reset" or "Spin"
  bootPort,   \* i of main's loop over the ports
  portsc,     \* hardware: the PORTSC registers
  addr,       \* hardware: the slot that addresses the device at a port, or 0
  slot,       \* hardware: the state of each device slot
  cmds,       \* hardware: the commands rung in and not executed
  events,     \* hardware: the event ring, from its dequeue pointer on
  unplugs,    \* bounds on the environment
  faults

driverVars == <<phase, addressing, dev, dcbaa, pc, after, bootPort>>
hwVars     == <<portsc, addr, slot, cmds, events>>
budgetVars == <<unplugs, faults>>
vars == <<driverVars, hwVars, budgetVars>>

-----------------------------------------------------------------------------
(* Types and initial state *)

NoDevice == [alloc |-> FALSE, port |-> 0, init |-> 0, hid |-> 0,
             tds |-> [t \in Transfers |-> 0]]

PortEvent(p)            == [type |-> "Port", of |-> "none", port |-> p, slot |-> 0, ok |-> TRUE]
CommandEvent(c, s, ok)  == [type |-> "Command", of |-> c, port |-> 0, slot |-> s, ok |-> ok]
TransferEvent(t, s, ok) == [type |-> "Transfer", of |-> t, port |-> 0, slot |-> s, ok |-> ok]

Events ==
  [type : {"Port"}, of : {"none"}, port : Ports, slot : {0}, ok : BOOLEAN] \cup
  [type : {"Command"}, of : Commands, port : {0}, slot : 0 .. NumSlots, ok : BOOLEAN] \cup
  [type : {"Transfer"}, of : Transfers, port : {0}, slot : Slots, ok : BOOLEAN]

(* The state of usb::Device and its class driver; port is the port number  *)
(* in the output context; tds counts the transfers of each kind that the   *)
(* driver has rung in and the hardware has not ended.                      *)
Devices == [alloc : BOOLEAN, port : 0 .. NumPorts, init : 0 .. 4, hid : 0 .. 2,
            tds : [Transfers -> Nat]]

PortStatus == [ccs : BOOLEAN, csc : BOOLEAN, ped : BOOLEAN, pr : BOOLEAN, prc : BOOLEAN]

CommandTRBs == [kind : Commands, slot : 0 .. NumSlots, port : 0 .. NumPorts]

Continuations == [to : {"Boot", "Loop", "Init"}, port : 0 .. NumPorts, slot : 0 .. NumSlots]

SlotStates == {"Disabled", "Enabled", "Addressed", "Configured"}

DcbaaEntries == {"null", "scratchpad", "device"}

Nowhere    == [to |-> "Boot", port |-> 0, slot |-> 0]
BackToLoop == [to |-> "Loop", port |-> 0, slot |-> 0]

(* Registers and slots have the type the hardware gives them, phases and  *)
(* devices the type of the driver's tables.                               *)
TypeOK ==
  /\ phase \in [0 .. NumPorts -> Phases]
  /\ addressing \in 0 .. NumPorts
  /\ dev \in [0 .. NumSlots -> Devices]
  /\ dcbaa \in [0 .. NumSlots -> DcbaaEntries]
  /\ pc \in {"Boot", "Loop", "Reset", "Spin"}
  /\ after \in Continuations
  /\ bootPort \in 1 .. NumPorts + 1
  /\ portsc \in [Ports -> PortStatus]
  /\ addr \in [Ports -> 0 .. NumSlots]
  /\ slot \in [Slots -> SlotStates]
  /\ cmds \in Seq(CommandTRBs)
  /\ events \in Seq(Events)
  /\ unplugs \in 0 .. MaxUnplugs
  /\ faults \in 0 .. MaxFaults

(* Devices may be plugged in when the controller starts to run, with no    *)
(* event for them; the controller that does report them is the one whose   *)
(* first steps are PlugIn.                                                 *)
Init ==
  /\ phase = [p \in 0 .. NumPorts |-> "NotConnected"]
  /\ addressing = 0
  /\ dev = [s \in 0 .. NumSlots |-> NoDevice]
  /\ dcbaa = [s \in 0 .. NumSlots |-> IF s = 0 /\ HasScratchpad THEN "scratchpad" ELSE "null"]
  /\ pc = "Boot"
  /\ after = Nowhere
  /\ bootPort = 1
  /\ \E C \in SUBSET Ports :
       /\ portsc = [p \in Ports |-> [ccs |-> p \in C, csc |-> p \in C,
                                     ped |-> p \in C \cap SuperSpeedPorts,
                                     pr |-> FALSE, prc |-> FALSE]]
  /\ addr = [p \in Ports |-> 0]
  /\ slot = [s \in Slots |-> "Disabled"]
  /\ cmds = <<>>
  /\ events = <<>>
  /\ unplugs = 0
  /\ faults = 0

-----------------------------------------------------------------------------
(* The driver's helpers *)

HasEvent == pc = "Loop" /\ events # <<>>
Front    == Head(events)
Pop      == events' = Tail(events)

Ring(cmd) == cmds' = Append(cmds, cmd)

WaitingPorts == {p \in Ports : phase[p] = "WaitingAddressed"}

(* A definition whose name ends in "Bug" is not part of the specification: *)
(* it is the next one with a mistake a change of the code could make, kept *)
(* to show which property notices it.                                      *)
IsLowestBug(w) == w \in WaitingPorts \ {1} /\ \A v \in WaitingPorts \ {1} : w <= v

(* The port the loop of the AddressDevice handler stops at. *)
IsLowest(w)  == w \in WaitingPorts /\ \A v \in WaitingPorts : w <= v

(* ResetPort's two tests: nobody is between reset and address, and nothing *)
(* has been done with the port.                                            *)
IdleBug == TRUE
Idle    == addressing = 0

IsFreshBug(p) == phase[p] \in {"NotConnected", "Configured"}
IsFresh(p)    == phase[p] = "NotConnected"

BeginResetBug(p, next) ==
  /\ addressing' = addressing
  /\ phase' = [phase EXCEPT ![p] = "ResettingPort"]
  /\ pc' = "Reset"
  /\ after' = next

(* ResetPort on a connected port up to the call of Port::Reset; next says  *)
(* what its caller does afterwards.  The port is NotConnected or Waiting.  *)
BeginReset(p, next) ==
  /\ addressing' = p
  /\ phase' = [phase EXCEPT ![p] = "ResettingPort"]
  /\ pc' = "Reset"
  /\ after' = next

QueueBug(p) == addressing # 0 /\ UNCHANGED <<phase, addressing, after>>

(* ResetPort on a connected port while another one is being addressed. *)
Queue(p) ==
  /\ addressing # 0
  /\ phase' = [phase EXCEPT ![p] = "WaitingAddressed"]
  /\ UNCHANGED <<addressing, after>>

(* The device d with n transfers of kind t outstanding, or n more. *)
Pending(d, t, n) == [d EXCEPT !.tds[t] = n]
Ask(d, t, n)     == Pending(d, t, d.tds[t] + n)

StartedBug(d) == [d EXCEPT !.init = 1]

(* Device::StartInitialize, called by InitializeDevice: GetDescriptor. *)
Started(d) == Ask([d EXCEPT !.init = 1], "DeviceDesc", 1)

LoadDCBAABug(s) == dcbaa' = [dcbaa EXCEPT ![s - 1] = "device"]
LoadDCBAA(s)    == dcbaa' = [dcbaa EXCEPT ![s] = "device"]

-----------------------------------------------------------------------------
(* The driver: main's loop over the ports *)

NextBootPort ==
  /\ bootPort' = bootPort + 1
  /\ pc' = IF bootPort = NumPorts THEN "Loop" ELSE "Boot"

(* IsConnected and ConfigurePort for one port.  The loop itself is the     *)
(* only thing that has moved a phase so far, so the port is NotConnected.  *)
BootPort ==
  /\ pc = "Boot"
  /\ \/ /\ portsc[bootPort].ccs
        /\ Idle
        /\ BeginReset(bootPort, Nowhere)
        /\ UNCHANGED bootPort
     \/ /\ portsc[bootPort].ccs
        /\ Queue(bootPort)
        /\ NextBootPort
     \/ /\ ~portsc[bootPort].ccs
        /\ NextBootPort
        /\ UNCHANGED <<phase, addressing, after>>
  /\ UNCHANGED <<dev, dcbaa, hwVars, budgetVars>>

(* Port::Reset: clear CSC, set PR.  PRC is masked out of the write, and a  *)
(* port without a device does not take the reset.                          *)
WriteReset ==
  /\ pc = "Reset"
  /\ portsc' = [portsc EXCEPT ![addressing] =
                  [@ EXCEPT !.csc = FALSE, !.pr = portsc[addressing].ccs, !.ped = FALSE]]
  /\ addr' = [addr EXCEPT ![addressing] = 0]
  /\ pc' = "Spin"
  /\ UNCHANGED <<phase, addressing, dev, dcbaa, after, bootPort, slot, cmds, events, budgetVars>>

(* The busy wait of Port::Reset ends and its caller goes on: main's loop,  *)
(* the end of ProcessEvent, or InitializeDevice of the port that handed    *)
(* the critical section over.                                              *)
FinishReset ==
  /\ pc = "Spin"
  /\ ~portsc[addressing].pr
  /\ after' = Nowhere
  /\ \/ /\ after.to = "Boot"
        /\ NextBootPort
        /\ UNCHANGED <<phase, dev, events>>
     \/ /\ after.to = "Loop"
        /\ Pop
        /\ pc' = "Loop"
        /\ UNCHANGED <<phase, dev, bootPort>>
     \/ /\ after.to = "Init"
        /\ phase' = [phase EXCEPT ![after.port] = "InitializingDevice"]
        /\ dev' = [dev EXCEPT ![after.slot] = Started(@)]
        /\ Pop
        /\ pc' = "Loop"
        /\ UNCHANGED bootPort
  /\ UNCHANGED <<addressing, dcbaa, portsc, addr, slot, cmds, budgetVars>>

-----------------------------------------------------------------------------
(* The driver: ProcessEvent, one action per event type and issuer *)

(* A handler that returns early, with or without an error, changes nothing *)
(* but the event ring.                                                     *)
Ignore == Pop /\ UNCHANGED <<driverVars, portsc, addr, slot, cmds>>

(* PortStatusChangeEvent of a port in kNotConnected: ResetPort. *)
OnPlugged(p) ==
  /\ IsFresh(p)
  /\ portsc[p].ccs
  /\ \/ /\ Idle
        /\ BeginReset(p, BackToLoop)
        /\ UNCHANGED events
     \/ Queue(p) /\ Pop /\ UNCHANGED pc
  /\ UNCHANGED <<dev, dcbaa, bootPort, portsc, addr, slot, cmds>>

(* PortStatusChangeEvent of a port in kResettingPort: EnableSlot. *)
OnPortReset(p) ==
  /\ phase[p] = "ResettingPort"
  /\ portsc[p].ped /\ portsc[p].prc
  /\ portsc' = [portsc EXCEPT ![p] = [@ EXCEPT !.prc = FALSE]]
  /\ phase' = [phase EXCEPT ![p] = "EnablingSlot"]
  /\ Ring([kind |-> "EnableSlot", slot |-> 0, port |-> 0])
  /\ Pop
  /\ UNCHANGED <<addressing, dev, dcbaa, pc, after, bootPort, addr, slot>>

OnPortStatusChange ==
  /\ HasEvent
  /\ Front.type = "Port"
  /\ \/ OnPlugged(Front.port)
     \/ OnPortReset(Front.port)
     \/ /\ ~(IsFresh(Front.port) /\ portsc[Front.port].ccs)
        /\ ~(phase[Front.port] = "ResettingPort" /\ portsc[Front.port].ped /\ portsc[Front.port].prc)
        /\ Ignore
  /\ UNCHANGED budgetVars

(* Completion of EnableSlot: AddressDevice for the slot the event names,   *)
(* without a look at the completion code.  AllocDevice leaves a device     *)
(* that is already there alone; LoadDCBAA publishes its context.           *)
OnEnableSlot ==
  /\ HasEvent
  /\ Front.type = "Command" /\ Front.of = "EnableSlot"
  /\ \/ /\ phase[addressing] = "EnablingSlot"
        /\ dev' = [dev EXCEPT ![Front.slot] = [@ EXCEPT !.alloc = TRUE]]
        /\ LoadDCBAA(Front.slot)
        /\ phase' = [phase EXCEPT ![addressing] = "AddressingDevice"]
        /\ Ring([kind |-> "AddressDevice", slot |-> Front.slot, port |-> addressing])
        /\ Pop
        /\ UNCHANGED <<addressing, pc, after, bootPort, portsc, addr, slot>>
     \/ phase[addressing] # "EnablingSlot" /\ Ignore
  /\ UNCHANGED budgetVars

(* Completion of AddressDevice: release the critical section, hand it to   *)
(* the lowest waiting port if that is still connected, then start the      *)
(* device.  The loop over the ports breaks at the first waiting port.      *)
HandsOver(s) ==
  /\ dev[s].alloc
  /\ dev[s].port = addressing
  /\ phase[dev[s].port] = "AddressingDevice"

OnAddressDevice ==
  /\ HasEvent
  /\ Front.type = "Command" /\ Front.of = "AddressDevice"
  /\ LET s == Front.slot IN
     \/ /\ HandsOver(s)
        /\ \E w \in WaitingPorts :
             /\ IsLowest(w)
             /\ portsc[w].ccs
             /\ BeginReset(w, [to |-> "Init", port |-> dev[s].port, slot |-> s])
        /\ UNCHANGED <<dev, events>>
     \/ /\ HandsOver(s)
        /\ \A w \in WaitingPorts : IsLowest(w) => ~portsc[w].ccs
        /\ addressing' = 0
        /\ phase' = [phase EXCEPT ![dev[s].port] = "InitializingDevice"]
        /\ dev' = [dev EXCEPT ![s] = Started(@)]
        /\ Pop
        /\ UNCHANGED <<pc, after>>
     \/ /\ ~HandsOver(s)
        /\ Pop
        /\ UNCHANGED <<phase, addressing, dev, pc, after>>
  /\ UNCHANGED <<dcbaa, bootPort, portsc, addr, slot, cmds, budgetVars>>

(* Device::OnEndpointsConfigured goes through class_drivers_, where the    *)
(* driver stands once per endpoint number: it asks for SetProtocol as many *)
(* times, none of them answered in between.                                *)
ClassStarted(d) == Ask([d EXCEPT !.hid = 1], "SetProtocol", EndpointNumbers[d.port])

(* Completion of ConfigureEndpoint: the class driver starts and the port   *)
(* is configured.                                                          *)
OnConfigureEndpoint ==
  /\ HasEvent
  /\ Front.type = "Command" /\ Front.of = "ConfigureEndpoint"
  /\ LET s == Front.slot IN
     \/ /\ dev[s].alloc /\ phase[dev[s].port] = "ConfiguringEndpoints"
        /\ dev' = [dev EXCEPT ![s] = ClassStarted(@)]
        /\ phase' = [phase EXCEPT ![dev[s].port] = "Configured"]
        /\ Pop
        /\ UNCHANGED <<addressing, dcbaa, pc, after, bootPort, portsc, addr, slot, cmds>>
     \/ ~(dev[s].alloc /\ phase[dev[s].port] = "ConfiguringEndpoints") /\ Ignore
  /\ UNCHANGED budgetVars

(* The class driver's step without its phase, or with a phase that only    *)
(* ever counts up.                                                         *)
DriverReactionBug(d, t) ==
  CASE t = "SetProtocol" /\ d.init = 4 -> Ask([d EXCEPT !.hid = 2], "InterruptIn", 1)
    [] t = "InterruptIn"               -> Ask(d, "InterruptIn", 1)
    [] OTHER                           -> d

DriverReactionCountsBug(d, t) ==
  CASE t = "SetProtocol" /\ d.init = 4 -> Ask([d EXCEPT !.hid = @ + 1], "InterruptIn", 1)
    [] t = "InterruptIn"               -> Ask(d, "InterruptIn", 1)
    [] OTHER                           -> d

(* HIDBaseDriver: the first answer to SetProtocol starts the reports, any  *)
(* other one is an error that changes nothing; the next report is asked    *)
(* for whenever one comes.                                                 *)
DriverReaction(d, t) ==
  CASE t = "SetProtocol" /\ d.init = 4 /\ d.hid = 1
                          -> Ask([d EXCEPT !.hid = 2], "InterruptIn", 1)
    [] t = "InterruptIn"  -> Ask(d, "InterruptIn", 1)
    [] OTHER              -> d

(* What a completed transfer makes of a device: the three phases of        *)
(* usb::Device up to SetConfiguration, then the class driver's step.       *)
(* Anything else is an error that changes nothing, and so is a device      *)
(* without a known interface.                                              *)
Reaction(d, t) ==
  CASE t = "DeviceDesc" /\ d.init = 1 -> Ask([d EXCEPT !.init = 2], "ConfigDesc", 1)
    [] t = "ConfigDesc" /\ d.init = 2 /\ d.port \in HidPorts
                                      -> Ask([d EXCEPT !.init = 3], "SetConfig", 1)
    [] t = "SetConfig" /\ d.init = 3  -> [d EXCEPT !.init = 4]
    [] OTHER                          -> DriverReaction(d, t)

NeedsEndpointsBug(d) == d.init = 4
NeedsEndpoints(d)    == d.init = 4 /\ phase[d.port] = "InitializingDevice"

ConfigureEndpointsBug(s, p) ==
  /\ phase' = [phase EXCEPT ![p] = "Configured"]
  /\ Ring([kind |-> "ConfigureEndpoint", slot |-> s, port |-> 0])

(* xhci::ConfigureEndpoints with a speed it knows. *)
ConfigureEndpoints(s, p) ==
  /\ phase' = [phase EXCEPT ![p] = "ConfiguringEndpoints"]
  /\ Ring([kind |-> "ConfigureEndpoint", slot |-> s, port |-> 0])

(* TransferEvent: a failed transfer is dropped.  Otherwise the device      *)
(* reacts, and an initialized device whose port is still initializing has  *)
(* its endpoints configured, unless the port's speed, read again, is none  *)
(* of those known (a port that lost its device may show any).              *)
OnTransfer ==
  /\ HasEvent
  /\ Front.type = "Transfer"
  /\ LET s == Front.slot
         d == Reaction(dev[s], Front.of)
     IN
     \/ /\ Front.ok /\ dev[s].alloc
        /\ dev' = [dev EXCEPT ![s] = d]
        /\ \/ NeedsEndpoints(d) /\ ConfigureEndpoints(s, d.port)
           \/ /\ NeedsEndpoints(d) => ~portsc[d.port].ccs
              /\ UNCHANGED <<phase, cmds>>
        /\ Pop
        /\ UNCHANGED <<addressing, dcbaa, pc, after, bootPort, portsc, addr, slot>>
     \/ ~(Front.ok /\ dev[s].alloc) /\ Ignore
  /\ UNCHANGED budgetVars

-----------------------------------------------------------------------------
(* The host controller and the devices (external) *)

(* A change bit of PORTSC goes up: an event when none was up before; when  *)
(* the other one was, controllers differ.                                  *)
Report(p, bit) ==
  \/ ~bit /\ events' = Append(events, PortEvent(p))
  \/ (portsc[p].csc \/ portsc[p].prc) /\ UNCHANGED events

PlugIn(p) ==
  /\ ~portsc[p].ccs
  /\ portsc' = [portsc EXCEPT ![p] = [@ EXCEPT !.ccs = TRUE, !.csc = TRUE,
                                                  !.ped = p \in SuperSpeedPorts]]
  /\ Report(p, portsc[p].csc)
  /\ UNCHANGED <<driverVars, addr, slot, cmds, budgetVars>>

PullOut(p) ==
  /\ unplugs < MaxUnplugs
  /\ unplugs' = unplugs + 1
  /\ portsc[p].ccs
  /\ portsc' = [portsc EXCEPT ![p] = [@ EXCEPT !.ccs = FALSE, !.csc = TRUE,
                                                  !.ped = FALSE, !.pr = FALSE]]
  /\ addr' = [addr EXCEPT ![p] = 0]
  /\ Report(p, portsc[p].csc)
  /\ UNCHANGED <<driverVars, slot, cmds, faults>>

ResetDone(p) ==
  /\ portsc[p].pr
  /\ portsc' = [portsc EXCEPT ![p] = [@ EXCEPT !.pr = FALSE, !.ped = TRUE, !.prc = TRUE]]
  /\ Report(p, portsc[p].prc)
  /\ UNCHANGED <<driverVars, addr, slot, cmds, budgetVars>>

(* The next command is done, with an event that carries slot s. *)
Complete(s, ok) ==
  /\ cmds' = Tail(cmds)
  /\ events' = Append(events, CommandEvent(Head(cmds).kind, s, ok))

Works(c) ==
  CASE c.kind = "EnableSlot" -> \E s \in Slots : slot[s] = "Disabled"
    [] c.kind = "AddressDevice" -> /\ c.slot # 0 /\ slot[c.slot] = "Enabled"
                                   /\ dcbaa[c.slot] = "device"
                                   /\ portsc[c.port].ped
    [] c.kind = "ConfigureEndpoint" -> c.slot # 0 /\ slot[c.slot] = "Addressed"

ExecEnableSlot ==
  /\ cmds # <<>> /\ Head(cmds).kind = "EnableSlot"
  /\ \E s \in Slots :
       /\ slot[s] = "Disabled"
       /\ slot' = [slot EXCEPT ![s] = "Enabled"]
       /\ Complete(s, TRUE)
  /\ UNCHANGED <<driverVars, portsc, addr, budgetVars>>

(* The controller talks to the device in the default state at the port and *)
(* writes the output context, from which the driver takes the port later.  *)
ExecAddressDevice ==
  /\ cmds # <<>> /\ Head(cmds).kind = "AddressDevice"
  /\ Works(Head(cmds))
  /\ LET c == Head(cmds) IN
     /\ slot' = [slot EXCEPT ![c.slot] = "Addressed"]
     /\ addr' = [addr EXCEPT ![c.port] = c.slot]
     /\ dev' = [dev EXCEPT ![c.slot] = [@ EXCEPT !.port = c.port]]
     /\ Complete(c.slot, TRUE)
  /\ UNCHANGED <<phase, addressing, dcbaa, pc, after, bootPort, portsc, budgetVars>>

ExecConfigureEndpoint ==
  /\ cmds # <<>> /\ Head(cmds).kind = "ConfigureEndpoint"
  /\ Works(Head(cmds))
  /\ slot' = [slot EXCEPT ![Head(cmds).slot] = "Configured"]
  /\ Complete(Head(cmds).slot, TRUE)
  /\ UNCHANGED <<driverVars, portsc, addr, budgetVars>>

(* A command fails: no slot is free, the device is gone, or just so.  A    *)
(* failed EnableSlot carries slot 0.                                       *)
FailCommand ==
  /\ cmds # <<>>
  /\ \/ ~Works(Head(cmds)) /\ UNCHANGED faults
     \/ Works(Head(cmds)) /\ faults < MaxFaults /\ faults' = faults + 1
  /\ Complete(Head(cmds).slot, FALSE)
  /\ UNCHANGED <<driverVars, portsc, addr, slot, unplugs>>

(* A transfer of slot s reaches the device that slot addresses, or not. *)
Answers(s, t) ==
  /\ dev[s].port # 0 /\ addr[dev[s].port] = s
  /\ t \in {"SetProtocol", "InterruptIn"} => slot[s] = "Configured"

(* One transfer is over.  A pipe that fails is halted: the transfers       *)
(* behind the one that failed are never carried out.                       *)
CompleteTransfer(s, t) ==
  /\ dev[s].tds[t] > 0
  /\ \/ /\ Answers(s, t)
        /\ events' = Append(events, TransferEvent(t, s, TRUE))
        /\ dev' = [dev EXCEPT ![s] = Pending(@, t, @.tds[t] - 1)]
        /\ UNCHANGED faults
     \/ /\ \/ ~Answers(s, t) /\ UNCHANGED faults
           \/ Answers(s, t) /\ faults < MaxFaults /\ faults' = faults + 1
        /\ events' = Append(events, TransferEvent(t, s, FALSE))
        /\ dev' = [dev EXCEPT ![s] = Pending(@, t, 0)]
  /\ UNCHANGED <<phase, addressing, dcbaa, pc, after, bootPort, portsc, addr, slot, cmds, unplugs>>

-----------------------------------------------------------------------------
(* The specification *)

Driver ==
  \/ BootPort \/ WriteReset \/ FinishReset
  \/ OnPortStatusChange \/ OnEnableSlot \/ OnAddressDevice \/ OnConfigureEndpoint
  \/ OnTransfer

ExecCommand ==
  ExecEnableSlot \/ ExecAddressDevice \/ ExecConfigureEndpoint \/ FailCommand

Next ==
  \/ Driver
  \/ ExecCommand
  \/ \E p \in Ports : PlugIn(p) \/ PullOut(p) \/ ResetDone(p)
  \/ \E s \in Slots, t \in Transfers : CompleteTransfer(s, t)

Spec == Init /\ [][Next]_vars

(* The thread runs for ever; the controller ends resets, executes commands *)
(* and ends control transfers.  Nobody has to plug a device in, to pull it *)
(* out or to press a key.                                                  *)
ControlTransfer(s) == \E t \in Transfers \ {"InterruptIn"} : CompleteTransfer(s, t)

Fairness ==
  /\ WF_vars(Driver)
  /\ WF_vars(ExecCommand)
  /\ \A p \in Ports : WF_vars(ResetDone(p))
  /\ \A s \in Slots : WF_vars(ControlTransfer(s))

FairSpec == Spec /\ Fairness

-----------------------------------------------------------------------------
(* Safety *)

InSequence == {"ResettingPort", "EnablingSlot", "AddressingDevice"}

(* p handed the critical section over; the handler is still busy with the  *)
(* reset of its successor and has not moved the phase of p yet.            *)
Leaving(p) == pc \in {"Reset", "Spin"} /\ after.to = "Init" /\ after.port = p

(* The comments of xhci.cpp on ConfigPhase and addressing_port: only the   *)
(* port in addressing_port is anywhere between reset and address, and it   *)
(* is (the port a handler is just about to initialize aside).              *)
AddressingExclusive ==
  \A p \in Ports : phase[p] \in InSequence <=> p = addressing \/ Leaving(p)

(* What the scheduling is for: two USB2 devices never listen to the        *)
(* default address at the same time, whatever is pulled out, plugged in    *)
(* again or fails, and while the register writes of ResetPort interleave   *)
(* with the hardware.                                                      *)
InDefaultState(p) ==
  (portsc[p].pr \/ portsc[p].ped) /\ addr[p] = 0 /\ p \notin SuperSpeedPorts

DefaultStateExclusive ==
  \A p, q \in Ports : InDefaultState(p) /\ InDefaultState(q) => p = q

(* The output contexts, which the hardware writes and the event handlers   *)
(* take the port from, name every port once, and only ports past their     *)
(* address: FindBySlot(slot)->root_hub_port_num is never a stale port.     *)
OneSlotPerPort ==
  \A s \in Slots : dev[s].port # 0 =>
    /\ phase[dev[s].port] \notin {"NotConnected", "WaitingAddressed", "ResettingPort",
                                  "EnablingSlot"}
    /\ \A t \in Slots : dev[t].port = dev[s].port => t = s

(* Ring::Push never looks for room, and an event handler reads the issuer  *)
(* in the ring: neither goes wrong because one command of the addressing   *)
(* sequence and one ConfigureEndpoint per slot are all that is ever        *)
(* outstanding, executed or not.                                           *)
CommandsOutstanding(Match(_, _)) ==
  Cardinality({i \in DOMAIN cmds : Match(cmds[i].kind, cmds[i].slot)}) +
  Cardinality({i \in DOMAIN events : events[i].type = "Command"
                                     /\ Match(events[i].of, events[i].slot)})

CommandsBounded ==
  /\ CommandsOutstanding(LAMBDA k, s : k # "ConfigureEndpoint") <= 1
  /\ \A t \in 0 .. NumSlots :
       CommandsOutstanding(LAMBDA k, s : k = "ConfigureEndpoint" /\ s = t) <= 1

(* Device::buf_ and HIDBaseDriver::buf_ are each shared by all transfers   *)
(* of a device that carry data, and no transfer ring is ever looked at for *)
(* room: of every kind of transfer one is outstanding at most (asked for   *)
(* and not ended, or its event still on the ring), of SetProtocol one per  *)
(* endpoint number; and nothing is outstanding beside another kind, but    *)
(* for the late answers to SetProtocol beside the first report.            *)
TransfersOutstanding(s, t) ==
  dev[s].tds[t] +
  Cardinality({i \in DOMAIN events : events[i].type = "Transfer"
                                     /\ events[i].of = t /\ events[i].slot = s})

TransfersBounded ==
  \A s \in Slots :
    LET n(t)     == TransfersOutstanding(s, t)
        Repeated == EndpointNumbers[dev[s].port]
    IN
    /\ \A t \in Transfers : n(t) <= IF t = "SetProtocol" THEN Repeated ELSE 1
    /\ \A t, u \in Transfers :
         n(t) > 0 /\ n(u) > 0 /\ t # u => {t, u} = {"SetProtocol", "InterruptIn"}

(* A port is reset once, and never while its device has an address. *)
NoResetAfterAddress ==
  [][\A p \in Ports : ~portsc[p].pr /\ portsc'[p].pr =>
       addr[p] = 0 /\ \A s \in Slots : dev[s].port # p]_vars

(* The phases are passed in order, none skipped and none taken back. *)
Successor ==
  {<<"NotConnected", "WaitingAddressed">>, <<"NotConnected", "ResettingPort">>,
   <<"WaitingAddressed", "ResettingPort">>, <<"ResettingPort", "EnablingSlot">>,
   <<"EnablingSlot", "AddressingDevice">>, <<"AddressingDevice", "InitializingDevice">>,
   <<"InitializingDevice", "ConfiguringEndpoints">>, <<"ConfiguringEndpoints", "Configured">>}

PhaseInOrder ==
  [][\A p \in Ports : phase'[p] # phase[p] => <<phase[p], phase'[p]>> \in Successor]_vars

-----------------------------------------------------------------------------
(* What holds as long as nothing is pulled out and nothing fails *)

Outstanding(k, p) ==
  \/ \E i \in DOMAIN cmds : cmds[i].kind = k /\ cmds[i].port = p
  \/ \E i \in DOMAIN events : events[i].type = "Command" /\ events[i].of = k

PortEventPending(p) == \E i \in DOMAIN events : events[i] = PortEvent(p)

TransferOwed(p) ==
  \E s \in Slots :
    /\ dev[s].port = p
    /\ \/ \E t \in Transfers : dev[s].tds[t] > 0
       \/ \E i \in DOMAIN events : events[i].type = "Transfer" /\ events[i].slot = s
       \/ p \notin HidPorts /\ dev[s].init = 2

(* No wake-up is lost: in each phase, what moves the port on is on its way *)
(* (an event, a command, a transfer, or another port to wait for).         *)
ProgressOwed ==
  \A p \in Ports :
    CASE phase[p] = "NotConnected" ->
           portsc[p].ccs => PortEventPending(p) \/ (pc # "Loop" /\ bootPort <= p)
      [] phase[p] = "WaitingAddressed"     -> addressing \notin {0, p}
      [] phase[p] = "ResettingPort"        ->
           pc \in {"Reset", "Spin"} \/ (portsc[p].ped /\ portsc[p].prc /\ PortEventPending(p))
      [] phase[p] = "EnablingSlot"         -> Outstanding("EnableSlot", 0)
      [] phase[p] = "AddressingDevice"     -> Outstanding("AddressDevice", p)
      [] phase[p] = "ConfiguringEndpoints" -> Outstanding("ConfigureEndpoint", 0)
      [] OTHER                             -> TransferOwed(p)

(* A port called configured has a device with an address and a slot with   *)
(* endpoints: the completion codes nobody reads would have said so.        *)
ConfiguredForReal ==
  \A p \in Ports : phase[p] = "Configured" =>
    \E s \in Slots : dev[s].port = p /\ addr[p] = s /\ slot[s] = "Configured"

(* The comment on kWaitingAddressed: a port waits for the sequence of      *)
(* another one, so a connected port does not wait when there is none.      *)
NoneLeftWaiting ==
  addressing = 0 => \A p \in WaitingPorts : ~portsc[p].ccs

(* devmgr.hpp: device_context_pointers_ is what DCBAAP points to; entry 0  *)
(* belongs to the scratchpad buffers Controller::Initialize put there.     *)
ScratchpadKept == HasScratchpad => dcbaa[0] = "scratchpad"

-----------------------------------------------------------------------------
(* Liveness and refinement *)

(* The comment on kWaitingAddressed: a waiting port gets its turn. *)
WaiterIsServed ==
  \A p \in Ports : phase[p] = "WaitingAddressed" ~> phase[p] # "WaitingAddressed"

(* A device with a known interface is polled for reports in the end. *)
Polled(p) == \E s \in Slots : dev[s].port = p /\ dev[s].hid = 2

DeviceIsPolled == \A p \in HidPorts : portsc[p].ccs ~> Polled(p)

Past == {"InitializingDevice", "ConfiguringEndpoints", "Configured"}

Lock == INSTANCE AddressLock WITH
  MayUnplug <- MaxUnplugs > 0,
  holder    <- addressing,
  waiting   <- WaitingPorts,
  served    <- {p \in Ports : phase[p] \in Past \/ Leaving(p)}

(* The port scheduler is a lock with queueing: see AddressLock. *)
ImplementsLock == Lock!LockSpec

(* ... and when nothing is lost, a lock that is handed over. *)
ImplementsFairLock == Lock!FairLockSpec
=============================================================================

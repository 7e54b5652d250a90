# Verification of mikanos-aarch64

TLA+ models of the MikanOS kernel port to aarch64, the TLC runs that check them
and theorems about them that TLAPS proves.  Paths are relative to the
repository; `xhci.cpp` stands for `src/kernel/usb/xhci/xhci.cpp`.

    tlc -config PortsFaulty.cfg MCPortConfig     # a run
    tlapm PortConfig_proofs.tla                  # the proofs of a module

## The system

The kernel is one thread of control on one processor, without interrupts: it is
loaded by a UEFI application, initializes the screen, scans PCI for an xHCI
host controller, takes that controller over, configures its root hub ports and
then polls the controller's event ring for ever.  Everything that is concurrent
happens between this thread and hardware: port registers change when devices
come and go, commands and transfers complete later, and one handler of the
thread (`Port::Reset`) waits in the middle of its work.

| component | state | operations | talks to | modules |
| --- | --- | --- | --- | --- |
| UEFI loader (`Main.c`) | memory map and its key, the file, segments in memory | `UefiMain` | boot services | `Loader` |
| PCI scan (`arch/*/pci.cpp`) | `devices`, `num_device` | `ScanAllBus`, `ReadBar` | configuration space | `PciScan`, in `Bringup` |
| Kernel main (`main.cpp`) | `xhc_dev`, `xhc_mmio_base` | `KernelMain`: find, enable, route, initialize, loop | all of the below | `Bringup`, `PortConfig`, `Screen` |
| Memory pool (`memory.cpp`) | `alloc_ptr` | `AllocMem`, `FreeMem` (does nothing) | used by all USB code | `MemoryPool`, in `Bringup` |
| Controller initialization (`xhci.cpp`) | operational registers | `Initialize`, `RequestHCOwnership`, `Run` | firmware, controller | `ControllerInit`, in `Bringup` |
| Port configuration (`xhci.cpp`, `port.cpp`, `devmgr.cpp`) | `port_config_phase`, `addressing_port`, `devices_`, `device_context_pointers_` | `ConfigurePort`, `ProcessEvent` and its handlers, `Port::Reset` | command ring, event ring, PORTSC registers, contexts the hardware writes, `usb::Device` | `PortConfig`, `AddressLock` |
| Command and transfer rings (`ring.cpp`: `Ring`) | `buf_`, `write_index_`, `cycle_bit_` | `Push` | hardware consumer, through memory | `TrbRing`, `TrbFifo` |
| Event ring (`ring.cpp`: `EventRing`) | `cycle_bit_`, the ERDP register | `Front`, `HasFront`, `Pop` | hardware producer, through memory | `EventRing`, `EventQueue` |
| xHCI transfers (`xhci/device.cpp`) | `transfer_rings_`, `setup_stage_map_` | `ControlIn`, `ControlOut`, `InterruptIn`, `OnTransferEventReceived` | rings, doorbells, `usb::Device` | `UsbDevice` |
| USB enumeration (`usb/device.cpp`) | `initialize_phase_`, `is_initialized_`, `ep_configs_`, `class_drivers_`, `event_waiters_`, `buf_` | `StartInitialize`, `OnControlCompleted`, `OnInterruptCompleted`, `OnEndpointsConfigured` | transfers, class drivers | `UsbDevice` |
| HID class drivers (`classdriver/`) | `initialize_phase_`, `buf_`, `previous_buf_`, observers | `SetEndpoint`, `OnEndpointsConfigured`, `OnControlCompleted`, `OnInterruptCompleted`, `OnDataReceived` | `usb::Device`, the mouse cursor | `UsbDevice`, `HidReports` |
| ArrayMap (`arraymap.hpp`) | `table_` | `Get`, `Put`, `Delete` | used by the two above | `ArrayMap`, in `UsbDevice` |
| Console, mouse cursor, graphics | buffer and cursor; pointer position; frame buffer | `PutString`, `Newline`; `MoveRelative`; `Write` | each other, through the frame buffer | `Screen` |

What is hard in it:

- **Ports share one address.**  A device that has been reset answers to USB
  address 0 until it is given its own; so reset, Enable Slot and Address Device
  of one port must not overlap with those of another.  The driver does this
  with `addressing_port` and a queue that exists only as the value
  `kWaitingAddressed` in `port_config_phase`.  Correct means: two devices never
  listen to address 0 at once; a port that queued up gets its turn; the phases
  are passed in order; what is called configured has an address and endpoints.
- **State read after an event is not the state of the event.**  Handlers read
  PORTSC, the output context and the issuer TRB when they run.
- **Failures.**  No handler reads the completion code of a command; a failed
  transfer is dropped.
- **Rings** share memory with hardware: cycle bits and wraps must agree, the
  producer never looks whether there is room, and the word that makes a TRB
  visible must not be seen before the others.
- **Fixed sizes** everywhere: 8 slots, 32 TRBs, 16 setup stages, 4 waiters, 32
  PCI devices, 256 bytes of descriptors, a pool that is never freed.
- **What others may do meanwhile.**  The firmware's memory map changes while the
  loader works, and its key with it; the firmware uses the controller until it
  lets go; a device fills the report buffer the driver reads; two drawers share
  the screen.

## What is modelled

### PortConfig

The core: ports, device manager, enumeration and polling as far as the order of
events goes, against the host controller.  One action is one pass of
`ProcessEvent`, except that a pass that resets a port is three: up to the call
of `Port::Reset`, its register write, and the end of its busy wait with
everything its caller does afterwards.  Between these the hardware acts.  Where
the thread is and what it does next is in `pc` and `after`:

| definition | code |
| --- | --- |
| `phase`, `addressing` | `port_config_phase` (index 0 is read when `addressing_port` is 0), `addressing_port` |
| `dev` | `devices_`: allocated or not, `initialize_phase_` of the device and of its class driver, the port in the output context, and in `tds` how many control or interrupt transfers of each kind are rung in and not ended |
| `dcbaa` | `device_context_pointers_` |
| `pc`, `after`, `bootPort` | `Boot`: main's loop; `Loop`: `ProcessEvent`; `Reset`, `Spin`: inside `Port::Reset`, then back to main, to the end of `ProcessEvent` (`Loop`) or to `InitializeDevice` of the port that handed over (`Init`) |
| `portsc`, `addr`, `slot`, `cmds`, `events` | hardware: PORTSC, which slot addresses the device at a port, slot states, the commands rung in, the event ring from its dequeue pointer |
| `BootPort` | one turn of `configure_port` in main.cpp, `ConfigurePort`, `ResetPort` |
| `OnPortStatusChange` | `OnEvent(PortStatusChangeEventTRB)`: `OnPlugged` is `ResetPort`, `OnPortReset` is `EnableSlot` |
| `WriteReset`, `FinishReset` | `Port::Reset`; `FinishReset` with `after.to = "Init"` also `InitializeDevice` |
| `OnEnableSlot`, `OnAddressDevice`, `OnConfigureEndpoint` | the three branches of `OnEvent(CommandCompletionEventTRB)` with `AddressDevice`, the hand-over and `CompleteConfiguration` |
| `OnTransfer` | `OnEvent(TransferEventTRB)`, `Reaction` being `OnTransferEventReceived` down to the class driver, and `ConfigureEndpoints` |
| `ClassStarted` | the loop of `OnEndpointsConfigured`: a driver that several endpoint numbers lead to (`EndpointNumbers`) asks SetProtocol once for each, and does not wait |
| `PlugIn`, `PullOut`, `ResetDone`, `Exec...`, `FailCommand`, `CompleteTransfer` | the controller and the devices, as the driver relies on them (external) |

Rings are queues here; a TRB is its type, slot, port and success.  The
controller's freedom is kept where controllers differ: a change bit that goes
up while the other one is still set may or may not send an event, a USB3 port
is enabled before its reset, ports connected at start are reported or found by
main's loop.  A port that has lost its device shows any speed.

### AddressLock

What the port scheduler promises, without registers, rings or events: a lock
over the ports with a queue.  A port takes it or waits, once; the holder that
has its address hands over to the lowest waiting port; the lock is only left
unclaimed while somebody waits when the port whose turn it is lost its device.
`PortConfig` implements it with `holder <- addressing`,
`waiting <- WaitingPorts` and `served` the ports past their address
(`ImplementsLock`, `ImplementsFairLock`).

### TrbRing

`Ring::Push` against the controller that reads the ring's memory at any moment.
A TRB is two words: its body (`data[0..2]`) and its control word (`data[3]`,
that is the TRB type and the cycle bit); every store is a step.

| definition | code |
| --- | --- |
| `body`, `kind`, `cycle` | `buf_`, as the controller sees it |
| `writeIndex`, `cycleBit` | `write_index_`, `cycle_bit_` |
| `writing`, `todo` | the TRB `CopyToLast` is storing and the words it has not stored; `"none"` outside of `Push` |
| `deq`, `ccs` | the controller's dequeue pointer and cycle state (external) |
| `done` | the TRBs executed whose events the driver has not handled: a handler reads the issuer TRB in the ring |
| `pushed` | history: what is visible to the controller and not executed |
| `Push`, `StoreBody`, `StoreControl`, `Advance` | `Push` from its call to its return: the TRB, the step to the next index, and at the end of the ring the link TRB, index 0 and the flip of `cycle_bit_` |
| `Handle` | `OnEvent` of the completion |
| `Consume`, `FollowLink` | the controller (external) |

`InOrder` says whether the controller sees the stores in program order.  `Push`
never looks whether there is room; its callers leave few TRBs outstanding (on the
command ring `CommandsBounded` says how few), which is `MaxOutstanding`.  It has
to be at most `BufSize - 2`: with every TRB before the link outstanding, the next
wrap rewrites the link before the controller has followed it and the ring is stuck.

### TrbFifo

What a ring promises: TRBs are executed once, in the order and with the body
they were pushed with, and the handler of a completion finds the TRB it is
about.  `TrbRing` implements it (`ImplementsFifo`) with `executed` the bodies
found at the slots in `done`.

### EventRing and EventQueue

The controller writes events, the cycle bit last; `ProcessEvent` looks for one,
works on it in place, and pops it.  `EventRing` implements `EventQueue`, a bounded
queue; that is what `PortConfig` and `UsbDevice` take for the event ring.

| definition | code |
| --- | --- |
| `body`, `cycle` | `buf_`, as both sides see it |
| `erdp`, `cycleBit` | the ERDP register, which is the driver's only dequeue pointer, and `cycle_bit_` |
| `front`, `got` | the TRB `ProcessEvent` found and what it has loaded from it |
| `Find`, `Load`, `Handle` | `ProcessEvent`: `HasFront`; the type and the fields of the TRB; `OnEvent` and `Pop` |
| `enq`, `pcs`, `storing`, `StoreEvent`, `Publish` | the controller (external), with its notice of a full ring when one TRB is left |

### Loader

`UefiMain`.  Each boot service is a step that answers or fails, and what follows
is what the code does then: `Halt()`, or going on where a failure is ignored.
Memory is an array of cells, so that what the kernel finds there can be
compared with its file.  The state of the memory map is `keyFresh`, whether
`memmap.map_key` is that of the firmware's current map, and `descriptors`,
whether `memmap_buf` holds it; a call that allocates, frees or opens, and a
timer (`Background`), may change both.

| definition | code |
| --- | --- |
| `FirstMap`, `Remap` | `GetMemoryMap`, at the start and after a failed exit |
| `OpenRootDir`, `OpenMemmapFile`, `SaveMemoryMap`, `OpenGOP`, `OpenPCI` | the functions and stretches of that name |
| `OpenKernelFile`, `ReadKernelFile`, `FreeKernelBuffer` | the kernel file in `kernel_buffer` |
| `FirstAddr`, `LastAddr`, `NumPages`, `AllocatePages` | `CalcLoadAddressRange` and the pages for that range |
| `CopySegment`, `Copied`, `CopyLoadSegments` | `CopyLoadSegments` |
| `Exit`, `ExitAgain` | the two calls of `ExitBootServices` |
| `ReadEntry`, `PassConfig` | entry address, pixel format, the jump |

### MemoryPool, PciScan, ControllerInit, Bringup

`MemoryPool` is `AllocMem` as an operator on a pool.  `PciScan` is `ScanAllBus`
with its table, and `ReadBar`.  The recursion of the code, over buses, devices,
functions and bridges, is a recursive function `ScanFrom` on the points the walk can be
at: a table as full as it is, and a function of a device of a bus that is asked next
(`Point`).  `ScanStep` is what the loops do there, `ScanFunction` where the walk
goes down a bridge.  How a register is read is a parameter; in `Bringup` it is
`ReadConfig`, which is one of the three versions of `pci.cpp` as the machine has it,
each with its way of putting an address together (`MakeEcamAddress`, `MakeIoAddress`,
`MakeAddress`).  `At` is configuration space behind such an address.

`ControllerInit` is `Controller::Initialize` and `Run`: every allocation, every
register write that starts something, every wait, against a firmware that starts
and stops the controller until it lets go (`FirmwareUses`, `FirmwareLetsGo`) and
a controller that takes its time (`Halts`, `Starts`, `Resets`, `GetsReady`).  The firmware
may also have let go before, and then nothing is asked of it.

`Bringup` puts them together as `KernelMain` does: `Scan`, `FindXhc`,
`LocateXhc`, `EnableOnBus`, `SwitchEhci2Xhci`, the actions of `ControllerInit`,
and then `EnumerateDevice`, what the handlers of the loop allocate for a device
(`handler` 1 is `AddressDevice`, 2 `NewClassDriver`, 3 `ConfigureEndpoints`, which
allocates a ring for each endpoint it configures: `AllocRings`, up to `MaxRings`).
`pc = "Undefined"` is where a null pointer is used: without a controller, or when
the pool has run out.

### UsbDevice, ArrayMap, HidReports

One device from its address to its reports.  Here control transfers are TRBs on
a ring that wraps, and completions find their request through
`setup_stage_map_`; `ArrayMap` has the operations of that table and of
`event_waiters_`.  Descriptors are records with their lengths, so that the cut at
256 bytes falls where it does in the code.

| definition | code |
| --- | --- |
| `dev` | `initialize_phase_`, `is_initialized_`, `buf_`, `ep_configs_`, `class_drivers_` |
| `control` | `transfer_rings_[0]`, `setup_stage_map_`, `event_waiters_`; `serving` is the request the controller works on |
| `rings`, `hid`, `told` | the other transfer rings; the class driver with `buf_` and `previous_buf_`; what observers were told last |
| `port = "Undefined"` | nothing more is said of a device for which `InitializePhase2` goes wrong, or whose driver has no interrupt IN endpoint when it asks for a report: `InterruptIn` then takes `transfer_rings_[-1]` |
| `ControlTransfer`, `InterruptIn` | `ControlIn` and `ControlOut`; `InterruptIn` |
| `Seen`, `Halting`, `Missing`, `CutOff`, `Interface`, `Endpoints` | `ConfigurationDescriptorReader` and the loops of `InitializePhase2`: what they get to see of `buf_`; a descriptor of length 0 is where the reader stays |
| `ReadsBeyond`, `ReadsForEver`, `WritesBeyond` | where these loops leave `buf_`, do not end, or leave the 16 entries of `ep_configs_` (`GoesWrong`) |
| `InitializePhase1` to `3`, `ProtocolSet`, `PassOver` | `OnTransferEventReceived` and `OnControlCompleted`, by what they end in |
| `OnEndpointsConfigured` with `Asked`, `OnInterruptCompleted` | the functions of that name, down to the class driver and `OnDataReceived` |
| `CarryOutStage`, `FailStage`, `SendReport`, `FailReport` | the controller and the device (external) |

`HidReports` says what the report stream promises: a report is taken before the
next one is sent, and what is told follows from it and the report before.  It
also states what the code makes of a key whose code is that of the modifiers held
before: it goes unnoticed, for `OnDataReceived` looks for it in the whole
previous report, the modifier byte included.

### Screen

`Console::PutString` and `MouseCursor::MoveRelative` on one frame buffer.  A pixel
stands for a character cell; the buffer is addressed as `PixelAt` does, so that a
position beyond the end of a line is one on the next.  `touched` notes what the
cursor has drawn on since the console last cleared it: there the screen and
the console's buffer may differ.  What the buffer should hold is defined from the
text alone (`Expected`): the newlines cut it into lines (`Its`, `LineOf`), each is cut
off at the width of the console, and the last that fit count.

Definitions whose name ends in `Bug` are mistakes a change of the code could
make, kept beside the definition they would replace; `PROJECT.json` names for
each property the mistake it notices.

## The runs

The runs of `PortConfig` have three ports, the fewest with a port in the critical section, one that is
handed it and one that still waits; port 3 is a USB3 port; at least one device
has no known class driver.  The devices present at start are any subset.
Deadlock is not checked there: with nothing plugged in, or with every report read and
no key pressed, the thread polls an empty ring for ever, which is no step here.

| run | instance | shows |
| --- | --- | --- |
| `PortsFaulty` | 2 slots, 1 unplug, 1 failure | whatever happens: exclusive addressing, no two devices at the default address, contexts never name a stale port, commands and transfers bounded, SetProtocol asked for twice included, phases in order, `AddressLock` implemented |
| `PortsFair` | 3 slots, nothing fails | no wake-up is lost (`ProgressOwed`), a configured port is configured, entry 0 of the context array is kept; under fairness every waiter is served, every known device is polled, the lock is handed over |
| `PortsUnplug` | 1 unplug | violated: a connected port waits with nobody in the critical section |
| `PortsFault` | 1 failure, fairness | violated: a command that fails once starves the waiting ports |
| `PortsSlots` | 2 slots for 3 devices | violated: slot 0 of a failed Enable Slot overwrites the scratchpad entry |
| `RingOrdered` | 4 TRBs and a link, 3 outstanding, stores in order | no torn TRB, no TRB overwritten in use, the ring is a queue, everything pushed is executed and handled; no deadlock |
| `RingWeak` | the same, stores in any order | violated: a new cycle bit on an old body |
| `Loader` | 6 pages of 3 cells, 2 descriptors fit, 1 service fails | the kernel that is entered is the one in the file, in pages of the loader's own, after all services have been left in order; a changed map is always fetched again |
| `EventRing` | 5 TRBs, 2 events | the ring is a queue through wraps and while it is full; what a handler works on is not touched; no event is left; no deadlock |
| `Bringup` | 168 machines, the pool of 131072 bytes, 3 devices of up to 2 endpoints | the scan finds what can be reached and reports a full table; the controller it chooses is driven through its own registers, with its bus and ports enabled; blocks are separate; a controller that runs has been given all it needs, with up to 30 scratchpad buffers; it is taken over in order, and runs in the end |
| `UsbDevice` | 13 descriptors, a ring of 6 TRBs, 2 key slots | completions are answered as the request they are about; reports are told once; a usable device keeps being polled |
| `Screen` | 3 lines of 4, 9 characters, 3 movements | the console holds and the screen shows the last lines |

Four TRBs are few enough for every position of both sides, a full ring and a
link that is reached while it is being written; three bodies tell a TRB from the
one of the lap before.

`Loader`: a segment of each kind (ends within a page, has bss into the next one,
is not loaded) fits the six pages, with room for pages in use that collide with
them or not; one failure reaches every early exit, alone and together with a map
that changes.  It ends in the kernel or in a halt, so deadlock is not checked.

`EventRing`: five TRBs hold three events, the notice of a full ring and the TRB
that stays free, at every position.

`Bringup`: eight topologies (one bus; none with a controller; nested bridges with
several controllers; two roots; a bridge the firmware has not numbered; 33 and 35
functions and exactly 32) with each version of `pci.cpp`; and one topology with
every number of scratchpad buffers around what the pool holds and pools that begin
in eight places relative to a page and to 64 KiB.  30 buffers fit wherever the
pool lies, 31 do not.  Three devices use the pool up where it is nearly full.  It ends
in the loop or at a null pointer, so deadlock is not checked.

`UsbDevice`: two requests without data and a link need six TRBs; then enumeration
wraps the ring, with a request of each length across the wrap.  The descriptors are
those of a keyboard, one with lamps, a mouse behind another interface, both in
one, and none that is known.  Three are longer than the 256 bytes of the buffer and are cut
off before the interface, before its endpoint, or after both; one is of a keyboard without an
IN endpoint, one has 17 endpoints, and three have a descriptor of length 0: before
the interface, before the endpoint, and as an endpoint, which is then counted twice.  Two key slots are
enough for a key that stays, moves to another slot, or has the modifiers' code.  A
device with no report to send rests, so deadlock is not checked.

`Screen`: nine characters scroll, cut and wrap three lines of four in every order of
the four strings; three movements cross the console, leave the screen, and come
back.  Text and movements are bounded, so deadlock is not checked.

One unplug and one failure reach every early return of the handlers and every
order of these two with the phases of three ports, plugging in again included
(`PlugIn` has no bound of its own: it needs an unplug).  Queues have no bound in
the model; they stay short by themselves, which `CommandsBounded` states for
commands.

The four runs that are expected to be violated are findings.  In three a comment says what
`kWaitingAddressed`, `addressing_port` or the context array mean and the run
shows a history where it is not so; nothing of `PortConfig` is violated as long as
devices stay, commands succeed and there are slots for all.  The fourth is the
comment in `CopyToLast` that `data[0..2]` must be written prior to `data[3]`:
the stores are plain stores without a barrier, and on aarch64 neither the compiler
nor the processor has to keep their order.  With the order kept (`RingOrdered` and
the proofs) the protocol is right.

**Fairness.**  Weak fairness of the thread (`Driver`): it polls and nothing
preempts it; of resets, commands and control transfers: the specification of
the controller bounds them.  None of a report on an interrupt endpoint (a key
that is never pressed), of plugging in or of pulling out.  In `TrbRing`: the thread
comes back from `Push` and handles its events; the controller, whose doorbell
is rung after `Push`, works off what it finds.  In `EventRing`: the polling loop,
nothing of the controller.  In `Loader`: `UefiMain` goes on; nothing is assumed of
the timer.  In `UsbDevice`: the polling loop and the stages of a request; none of
reports.  In `Bringup`: the thread after the scan (`AfterScan`), the controller
that does what it is told, and strong fairness of the firmware letting go, since
it may be starting or stopping the controller whenever it is asked.  `Scan` itself
is left out, as its end does not depend on anybody: `ControllerRuns` begins
where it has ended.

## What is proved

`PortConfig_proofs` proves for any number of ports and slots, any set of USB3
ports and known devices, any number of unplugs and failures:

- `TypeCorrect`: the type invariant;
- `Exclusive`: only the port in `addressing_port` is between reset and address;
- `DefaultAddress`: no two USB2 devices are in the default state;
- `PhasesInOrder`: the action property on the phases.

Only `PortConfigAssumption` is assumed: at least one port and one slot, and the
types of the other constants.  The inductive invariant `IInv` is

- `TypeOK`;
- `ControlInv`: `AddressingExclusive` plus what it needs to be inductive.  Main's
  loop only meets untouched ports (`BootInv`), or it could reset one twice;
  during a reset the holder is in its reset phase and a port that handed over is
  at its old phase, with the event still on the ring (`ResetInv`);
- `DefaultAddressInv`: the argument for the default address.  A port in reset
  holds the critical section and the thread waits for it (`ResetHolder`); a USB2
  port that is enabled without an address holds it too (`EnabledHolder`).  The
  holder only leaves when an output context names it, so it must be shown that
  a context only names ports whose Address Device command has been executed
  (`AddressCommands`, `OutputContexts`), and that such a port is never reset
  again, that being the reason why it cannot lose its address and stay enabled.

`Invariance` collects one lemma per part, each with a step per action.  The
lemmas before it say what the queues hold and which fields a step changes.

The same module proves `Refinement == Spec => ImplementsLock`: steps of the
hardware and of the handlers that only move a port inside or after the critical
section leave the lock alone (`Unseen`, `UnseenMove`); `ResetPort` takes the lock
or waits; the completion of Address Device hands it over or releases it.  Beyond
`IInv` this needs `WaitersConnected`: without unplugs a waiting port is connected,
so it is never passed over.

It goes on to the contents of the rings, still whatever is pulled out and whatever
fails:

- `OneSlot` (`OneSlotPerPort`), `Bounded` (`CommandsBounded`);
- `TransfersLimited` (`TransfersBounded`): one transfer of each kind, SetProtocol once for each
  endpoint number, and only late answers to it beside the first report;
- `ResetBeforeAddress` (`NoResetAfterAddress`), an action property.

The queues are taken as the sets of their items, and `QInv` adds to `IInv` why each
item is there: a command or its event, because a phase says so (`CommandInv`,
`EventInv`); a transfer, because the device at the port is being initialized or
is configured (`TransferInv`).  As a phase says so only once, nothing is there twice
(`Distinct`), and that bounds the rings.  Two parts come from the way the code hands
over: its event is still at the front, naming a slot whose context has the port,
while the next port is reset (`HandOverInv`); and the context of an Address Device
command names no port before the command is carried out, so no two contexts come to
name the same (`ContextInv`).  `AddressedLate` is why a reset never meets an address.

`PortConfig_progress` proves what holds as long as the outside is kind, each theorem
with the assumptions it states:

| theorem | property | nothing pulled out | nothing fails | a slot for every port |
| --- | --- | --- | --- | --- |
| `Scratchpad` | `ScratchpadKept` | | yes | yes |
| `Configured` | `ConfiguredForReal` | yes | yes | |
| `NoWakeUpLost` | `ProgressOwed` | yes | yes | yes |

None of them can be dropped: the findings `PortsUnplug`, `PortsFault` and `PortsSlots` are what happens
without.  `Scratchpad` is a count: each slot in use belongs to a port of its own that is past
Enable Slot (`SlotsInv`), so there is a free slot for the port that asks.
`Configured` needs that a port past its address has a context, that its device has
the address of that slot, and that the slot is configured once the event of
ConfigureEndpoint says so (`RealInv`).  `NoWakeUpLost` is proved from the conjunction `ProgressInv`:

- `PortsInv`: a port that is connected and untouched, or has ended its reset, has its
  event on the ring or is still ahead of main's loop, and its change bit is set, so that the handler
  will not ignore the event; nobody waits for a free critical section (`LoopInv`);
- `SequenceInv` and `SequenceOwed`: while a port enables a slot or is
  addressed, exactly the command or the event of that phase is there, and it works
  (`CommandsWork` shows that no command of the driver fails by itself);
- `DevicesInv`: a device being initialized has the transfer that its
  `initialize_phase_` waits for, or its event; one that has been, its ConfigureEndpoint;
- `RealInv` and `SlotsInv`, without which a command could fail.

`TrbRing_proofs` proves for rings of every size, any set of bodies and any
`MaxOutstanding` up to `BufSize - 2`, with stores in order (`InOrder`):

- `TypeCorrect`, `Untorn` (`NothingTorn`), `Undisturbed` (`NeverOverwritten`);
- `Refinement`: the ring implements `TrbFifo`.

The inductive invariant works with `End` and `EndBit`, where and with which cycle
bit the next TRB becomes visible: those of the driver, but already past the TRB
whose control word is stored, and past the wrap when that was the link's.  Then
`CycleInv` is one equation for the whole ring, `LapInv` gives the number of
visible TRBs from `End` and the dequeue pointer in the same lap or the next,
`PushedInv` and `DoneInv` say which slots hold them, and `RoomInv` keeps all of
that below a full lap, so that the slot being written is none of these
(`WriterAlone`).

`EventRing_proofs` proves for segments of every size and any set of events:

- `TypeCorrect`, `Stable` (`FrontIsStable`);
- `Refinement`: the ring implements `EventQueue`.

Its `IInv` says where the lap of the controller ends: TRBs before the enqueue
pointer carry its cycle state and the others the opposite (`CycleInv`), and the two
sides agree on that state exactly when the controller is not a lap ahead (`LapInv`).
So an event is seen when, and only when, the pointers differ (`SeesPosted`).  That
a TRB always stays free (`StoringInv`) keeps the enqueue pointer from meeting the
dequeue pointer from behind, where a full ring would look empty.

`Bringup_proofs` proves, for any set of machines, any number of devices and a pool of
at least 32 pages that begins at a multiple of 64, as `kMemoryPoolSize` and `alignas(64)` say:

- `Separated` (`BlocksSeparate`);
- `Provided` (`RunsConfigured`);
- `InOrder` (`TakesOverInOrder`);
- `TypeCorrect` (`TypeOK`);
- `ControllerFound` (`FindsController`).

Of a machine it is assumed what PCI has every machine do (`PciAssumption`): there is a
host bridge at 0:0.0, a device with any function has function 0 and says in its header if it
has others, nobody who is there has the vendor 0xffff, and a base address register holds a
number.

It begins with a theorem about the pool alone, `PoolSeparate`, for pools of every size at
every address and every sequence of requests whose alignment and boundary are
multiples of one another, as powers of two are.  The argument needs that all blocks lie
before `alloc_ptr` (`Behind`), and, for a block that is moved to a boundary, that
this does not cost it its alignment (`PlaceFacts`).  The parts of `IInv` are then

- `MemoryInv`: that of the kernel's own pool, untouched until `Initialize`, with all
  blocks at multiples of 16.  The arrays of the device manager leave `alloc_ptr` at no such
  place; what comes next asks for an alignment, and a class driver, which does
  not, only comes when the event ring has put `alloc_ptr` right again (`Steady`);
- `RoomInv`: how far `alloc_ptr` has got at each place, which bounds the scratchpad
  buffers that fit: one that asks for a page after the small arrays may lose most of a
  page, those behind it lose nothing.  `CountInv` counts them: as blocks are apart,
  one more block is one more buffer;
- `ProgramInv`: the registers that are written at each place.  A reset, which would
  clear them, is only under way while it is waited for (`ResetInv`);
- `EnabledInv`: from `LocateXhc` on, `mmio_base` and the command register are those of the
  controller that was chosen, and its ports are routed to it if they were another's;
- `OwnershipInv`, until where the firmware has the controller, and `HaltInv`, that nobody
  starts it between the halt and `Run`.  The arrays of the device manager always fit
  (`DeviceArraysFit`); otherwise the code would run a controller it has not taken over.

`TypeCorrect` and `ControllerFound` need what the scan returns, and so that it returns.  That is not
clear from its structure: bridges the firmware has left unset lead back to bus 0, and the
walk goes round.  But each step leaves it with a fuller table or nearer to the end of its bus
(`Rank`), and a full table ends it.  So a function that solves the recursion exists up to any rank,
by the least one for which none would (`Solvable`), and the walk is it (`FromSolves`); the
table never shrinks on the way (`FromGrows`).  What the scan finds is by the same induction on the
rank (`FindsEverything`), of a point of the walk: it adds exactly what is left of its bus with
everything behind the bridges there, each function once, or fills the table with some of that
and returns `kFull` (`Found`).  That the part behind one bridge has no function of the parts
behind its siblings or behind another root (`SiblingsApart`, `RootsApart`) is where
`Numbered` is needed, and is proved from what can be reached as the least set of buses that is
closed under bridges (`Below`, `BelowLeast`).  The length of a table without repetition is the
cardinality of its set (`ListCardinality`), which with the bound on the table tells when `kFull` is
returned (`ScanComplete`).  Over the actions `ScanInv` keeps the table and what `KernelMain` has chosen from it.

`Loader_proofs` proves for memories and pages of every size, any number of failing
services and kernel files of any number of program headers:

- `TypeCorrect`;
- `OwnPages` (`WritesOwnPages`), for any segments, overlapping or not;
- `IntactKernel` (`EntersIntactKernel`), for a `LinkedKernel`: segments that do not
  overlap, the lowest of which begins with the ELF header.  The code checks neither,
  and the property fails without; `MCLoader` states that the kernel of the run is one.

Three arguments meet there.  Arithmetic: the range that is rounded up to pages holds
every cell of every segment (`RangeCovers`).  Data: what the recursive function
`Copied` makes of memory (`CopiedCells`), by induction over the program headers; the induction
is over the set of the numbers for which the claim holds, and also shows that the
recursion has a solution (`Solution`) and that there is a last address
(`LastIsHighest`).  Control: which services may have failed, and how often the exit has been
tried, at each place (`ServicesInv`), that the range is owned from AllocatePages on
(`PagesInv`), and that what was copied stays (`KernelInv`).

`UsbDevice_proofs` proves, for any reports, rings of every size, transfers that fail at any stage
and descriptors of any number, order and kind, those included that are cut off, have more
endpoints than `ep_configs_` or a length of 0:

- `Refinement` (`ImplementsReports`);
- `RequestsAnswered` (`AnswersItsRequest`);
- `TypeCorrect` (`TypeOK`), which bounds `setup_stage_map_` and the event ring.

For descriptors with which `InitializePhase2` goes wrong they say that all is well up to there:
the model ends in `Undefined`, and what the code does from then on is outside of every claim.  That a device
which gets further has no more than 16 endpoints is a part of the invariant (`FewEndpoints`), and of `TypeOK`.
Assumed is that no descriptor is of endpoint 0 or has another length than its size or 0, that the reserved byte of a keyboard's
report is 0, for the code compares a key with that byte too (`ReportsAssumption`), and that
`Free` is not something a map holds (`FreeAssumption`).  `RequestsAnswered` also needs
`RoomAssumption`: the ring of the control pipe has room for two TRBs of each endpoint number
there may be a driver for (of an interface whose endpoints fit), since `CompleteConfiguration` lets all of them ask without
waiting.  A ring of 32 has it for all 15; the ring of 6 of the run has it for the
devices of the run.  `IInv` says:

- `Phases`: how far the port, the device and the driver are, in step, so that no ring
  is there before its endpoint is configured and no driver is replaced after;
- `OthersQuiet`: only the ring of the driver's interrupt endpoint is ever used;
- `Token`: on that ring there is either one TRB to be carried out or one report on its
  way, and never both or two, unless the endpoint is halted.  It holds across the wrap because
  what the driver wrote in this round has its cycle bit and the rest the
  opposite (`Marked`): a controller that has caught up finds nothing to carry out (`ReadyFacts`).

That all drivers have asked is a recursive function (`Asked`); what it comes to is proved by
induction over the set of endpoint numbers (`AskedShape`).

For `RequestsAnswered`, `PipeInv` adds what is on the control pipe.  The TRBs of a request
are counted back from the write position (`Stage(ring, k)` was pushed k TRBs ago) and so is
what the controller has not carried out (`Left`); neither count sees the wrap, which `PushAt` and
`AdvanceAt` deal with once.  In each phase the pipe is in one of four states:

- `Idle`: everything is answered and forgotten, but the status stage of a request with data
  may be under way, as it does not interrupt;
- `Reading`: a GET_DESCRIPTOR has been made.  While its data stage is to come there is no
  answer; from then on there is one, it names the data stage, `setup_stage_map_` leads from
  there to its setup stage, and `buf_` holds what was asked for;
- `Setting`: the same of SET_CONFIGURATION, which has no data, so that its status stage answers;
- `Asking`: n drivers have asked for the boot protocol, and some have been answered.  A request
  whose status stage is to come, or whose answer is on the ring, has its entry in the map; no
  two answers name the same TRB, so forgetting one entry leaves the others (`Distinct`).

Each answer is therefore one the device waits for (`AnswerSays`), which is also why
`PassOver` only ever drops failures.  The number of requests is bounded by counting the
endpoint numbers that have a driver (`DrivesFew`, `EndpointsCounted`); the maps are
filled from the front, so they do not overflow (`AskOne`).

`TypeCorrect` counts.  Each answer leads to an entry of the map, and no two to the same
(`Mapped`, `AnswersCounted`), so there are no more answers than entries; a pipe that has failed is
halted, so there is one failure of it (`FailInv`), and one event of the endpoint by
`Token`.  The entries are at the front of the map, no more than there are drivers
(`FrontInv`).  `CountInv` is these together with the values the fields take.  TLC has
checked `IInv`, `PipeInv` and `CountInv` on the devices of the run.

`Screen_proofs` proves, for consoles and displays of every size, texts of every length, any
movements of the mouse and any height of the task bar:

- `TextHeld` (`HoldsTheText`);
- `TextShown` (`ShowsTheText`).

Assumed is that the console fits on the screen above the task bar and has a line of
more than one character, that a line of pixels fits its pitch (`ScreenAssumption`), that a string
ends at its first null character (`StringsAssumption`), and that the cursor begins on
the screen (`CursorAssumption`).  The property about the buffer is inductive once it says
more: not only what the lines read as, but that the whole buffer, the row and the
column are functions of the text (`ConsoleInv`: `Held`, `RowOf`, `ColumnOf`).  Then a
character is a lemma about texts: appending it changes the last line (`AppendIts`), starts a
new one, or starts a new one and moves the window of lines by one (`Top`), and each of these is
what `PutChar` does to buffer, row and column.  That a string is its characters is
induction over the set of the positions reached (`PutAll`); so is redrawing line by line
(`Redraw`).  `ShowsTheText` needs that (`ScreenInv`), the size of the
frame buffer, and that a cursor which is off the screen has strayed (`CursorInv`): only then does
a pixel of the cursor not belong to one position, for `PixelAt` is injective on the
screen and not beyond it.

Every invariant and every action property the runs check has a theorem, and so has the safety of
each refinement (`AddressLock`, `TrbFifo`, `EventQueue` and `HidReports` are the abstract
specifications).  Only model-checked is liveness, which is out of the prover's reach, as `ENABLED`
is: `DeviceIsPolled`, `WaiterIsServed` and `ImplementsFairLock` in `PortsFair`, `NothingStuck`,
`NoEventLeft`, `Boots`, `ControllerRuns` and `KeepsPolling`.

## Further work

The model can be carried further where hazards have no property yet: a device that is pulled out
while it is in use, and caches between the loader and the kernel it enters.

## Not modelled

- Register, TRB and context bit layouts, descriptor bytes, glyph bitmaps, the order
  of colour bytes, the formatting of `printk` and the logger: data layout, abstracted
  to the fields the properties tell apart.
- `arch/*/halt`, `iofunc`, `asmfunc`, the C library stubs (`newlib_support.c`,
  `libcxx_support.cpp`) and the build files: single instructions and no state of their own.
- Caches and memory ordering beyond the stores of `Push` (`RingWeak`): that the
  kernel's pages are entered without cache maintenance, and that the words of
  an event are loaded without a barrier after its cycle bit, are listed as hazards.
- `InterruptOut`, which is never called, and `FreeMem`, which does nothing.
- A device whose reports are shorter than the driver's buffer.

`PROJECT.json` lists every part with its status, and every hazard with the
properties about it.

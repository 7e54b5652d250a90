----------------------------- MODULE UsbDevice ------------------------------
(***************************************************************************)
(* One HID device from its address to its reports: usb::xhci::Device, the  *)
(* usb::Device under it, and its class driver.  Each handler runs to its   *)
(* end when ProcessEvent finds the event of a transfer; the controller     *)
(* works through the transfer rings and posts events meanwhile.            *)
(***************************************************************************)
EXTENDS Integers, Sequences, SequencesExt, FiniteSets

CONSTANTS
  Free,            \* of ArrayMap; also no class driver
  Nothing,         \* of HidReports
  RingSize,        \* TRBs of a transfer ring, the link included (32)
  KeySlots,        \* keys of a keyboard's report (6)
  Configurations,  \* the configuration descriptors a device may have
  Reports(_)       \* the reports a keyboard or a mouse may send

ASSUME UsbDeviceAssumption ==
  /\ RingSize \in Nat \ 0..5    \* two requests without data, and a link
  /\ KeySlots \in 1..6

(* The length a descriptor says it has is its size, or 0.  Endpoint 0 has  *)
(* no descriptor.                                                          *)
ASSUME ConfigurationsAssumption ==
  \A c \in Configurations :
    /\ Len(c) \in Nat
    /\ \A i \in 1..Len(c) : c[i].size \in Nat \ {0} /\ c[i].length \in {0, c[i].size}
    /\ \A i \in 2..Len(c) :
         /\ c[i].type = "Endpoint" => c[i].number \in 1..15 /\ c[i].in \in BOOLEAN
         /\ c[i].type = "Interface" => c[i].endpoints \in Nat

MaxEndpoints == 16   \* ep_configs_

(* The control pipe takes a request of the driver of each endpoint number: *)
(* two TRBs of 32 for each of 15.                                          *)
ASSUME RoomAssumption ==
  \/ RingSize > 30
  \/ \A c \in Configurations : \A i \in 2..Len(c) :
       c[i].type = "Interface" =>
         2 * c[i].endpoints < RingSize \/ c[i].endpoints > MaxEndpoints

(* The reserved byte of a keyboard's report is 0. *)
ASSUME ReportsAssumption ==
  /\ \A r \in Reports("keyboard") :
       r \in Seq(0..255) /\ Len(r) = 2 + KeySlots /\ r[2] = 0
  /\ \A kind \in {"keyboard", "mouse"} : Nothing \notin Reports(kind)

(* Neither what is found in a map nor an entry with it is Free. *)
ASSUME FreeAssumption ==
  /\ Free \notin Nat /\ Free \notin [key : Nat, value : Nat]
  /\ Free \notin [key : [request : {"SetProtocol"}, value : {"Boot"}], value : {"keyboard", "mouse"}]

VARIABLES
  descriptors,  \* what follows the configuration descriptor, and it (external)
  port,         \* port_config_phase of the device's port
  dev,          \* usb::Device: phase, initialized, buf, endpoints, drivers
  control,      \* the control pipe: ring, setup_stage_map_, event_waiters_
  rings,        \* transfer_rings_ of the other endpoints, by their DCI
  hid,          \* the class driver
  events,       \* the event ring: transfer events not yet popped
  told          \* what the class driver told its observers last

vars == <<descriptors, port, dev, control, rings, hid, events, told>>

INSTANCE ArrayMap

-----------------------------------------------------------------------------
(* Transfer rings: Push of ring.cpp, and the controller's side of a ring.  *)
NoSetup == [request |-> "none", value |-> "none"]
Trb(type, setup, ioc) ==
  [type |-> type, setup |-> setup, ioc |-> ioc, cycle |-> FALSE]

Zero  == Trb("Reserved", NoSetup, FALSE)
Link  == Trb("Link", NoSetup, FALSE)

NewRing ==
  [ trbs |-> [i \in 1..RingSize |-> Zero], write |-> 1, cycle |-> TRUE,
    active |-> FALSE,                              \* its doorbell was rung
    deq |-> 1, ccs |-> TRUE, halted |-> FALSE ]    \* the controller's side

Store(ring, i, trb) == [ring EXCEPT !.trbs[i] = [trb EXCEPT !.cycle = ring.cycle]]

Push(ring, trb) ==
  LET r == Store(ring, ring.write, trb)
  IN  IF ring.write + 1 = RingSize
      THEN [Store(r, RingSize, Link) EXCEPT !.write = 1, !.cycle = ~ring.cycle]
      ELSE [r EXCEPT !.write = @ + 1]

RingDoorbell(ring) == [ring EXCEPT !.active = TRUE]

Ready(ring)  == ring.active /\ ~ring.halted /\ ring.trbs[ring.deq].cycle = ring.ccs
NextTrb(ring)  == ring.trbs[ring.deq]
Advance(ring) ==
  IF ring.deq + 1 = RingSize THEN [ring EXCEPT !.deq = 1, !.ccs = ~@]
  ELSE [ring EXCEPT !.deq = @ + 1]

-----------------------------------------------------------------------------
(* Requests on the control pipe.  The setup stage is found again by the    *)
(* place of the TRB that interrupts on completion: the data stage of a     *)
(* request with data, the status stage of one without.                     *)
Setup(request, value) == [request |-> request, value |-> value]

Wait(c, setup, issuer) ==
  IF issuer = Free THEN c ELSE [c EXCEPT !.waiters = Put(@, setup, issuer)]

ControlTransferBug(c, setup, data, issuer) ==   \* remembers the last TRB
  LET first  == Push(c.ring, Trb("SetupStage", setup, FALSE))
      second == Push(first, Trb("DataStage", NoSetup, TRUE))
      third  == Push(second, Trb("StatusStage", NoSetup, FALSE))
      last   == IF data THEN third ELSE Push(first, Trb("StatusStage", NoSetup, TRUE))
  IN  [Wait(c, setup, issuer) EXCEPT
         !.ring = RingDoorbell(last),
         !.setups = Put(@, IF data THEN second.write ELSE first.write, c.ring.write)]

(* ControlIn and ControlOut, which differ in directions only *)
ControlTransfer(c, setup, data, issuer) ==
  LET first == Push(c.ring, Trb("SetupStage", setup, FALSE))
      last  == IF data
               THEN Push(Push(first, Trb("DataStage", NoSetup, TRUE)),
                         Trb("StatusStage", NoSetup, FALSE))
               ELSE Push(first, Trb("StatusStage", NoSetup, TRUE))
  IN  [Wait(c, setup, issuer) EXCEPT
         !.ring = RingDoorbell(last),
         !.setups = Put(@, first.write, c.ring.write)]

GetDescriptor(c, type) == ControlTransfer(c, Setup("GetDescriptor", type), TRUE, Free)
SetConfiguration(c, value) ==
  ControlTransfer(c, Setup("SetConfiguration", value), FALSE, Free)

(* InterruptIn: without a ring it is an error nobody looks at.             *)
InterruptIn(rs, dci) ==
  IF dci \notin DOMAIN rs THEN rs
  ELSE [rs EXCEPT ![dci] = RingDoorbell(Push(@, Trb("Normal", NoSetup, TRUE)))]

-----------------------------------------------------------------------------
(* Descriptors: records with a type, the bytes they take, the length their *)
(* first byte says, and what the type has.                                 *)
BufferSize == 256
Start[i \in Nat] == IF i <= 1 THEN 0 ELSE Start[i - 1] + descriptors[i - 1].size
TotalLength == Start[Len(descriptors) + 1]
Received    == IF TotalLength < BufferSize THEN TotalLength ELSE BufferSize

(* What Next of the reader comes to: each descriptor whose first byte was  *)
(* received, the configuration descriptor not counted; it never gets past  *)
(* one whose length is 0.                                                  *)
Seen ==
  {i \in 2..Len(descriptors) :
     Start[i] < Received /\ \A j \in 1..i - 1 : descriptors[j].length # 0}
Halting   == {i \in {1} \cup Seen : descriptors[i].length = 0}
CutOff(i) == Start[i] + descriptors[i].size > Received

(* NewClassDriver: the boot interfaces of HID only *)
DriverFor(d) ==
  CASE d.type = "Interface" /\ d.class = <<3, 1, 1>> -> "keyboard"
    [] d.type = "Interface" /\ d.class = <<3, 1, 2>> -> "mouse"
    [] OTHER -> Free

Supported == {i \in Seen : DriverFor(descriptors[i]) # Free}
First(S)  == CHOOSE i \in S : \A j \in S : i <= j

EndpointsAfter(i) == {j \in Seen : j > i /\ descriptors[j].type = "Endpoint"}

(* The first interface there is a driver for and as many endpoints after   *)
(* it as it has, by their places.                                          *)
Interface  == First(Supported)
Endpoints  ==
  LET all   == EndpointsAfter(Interface)
      count == descriptors[Interface].endpoints
  IN  {j \in all : Cardinality({k \in all : k <= j}) <= count}
Missing    == Cardinality(Endpoints) < descriptors[Interface].endpoints

(* Past the end of what was received anything may be read.                 *)
ReadsBeyond ==
  \/ \E i \in Seen : /\ \/ descriptors[i].type = "Interface" /\ CutOff(i)
                        \/ Start[i] + 1 = Received
                     /\ Supported = {} \/ i <= Interface
  \/ /\ Supported # {}
     /\ \/ Missing /\ Halting = {}
        \/ \E j \in Endpoints : CutOff(j)

(* A descriptor of length 0 is read again and again: as an endpoint it is  *)
(* counted each time, as anything else for ever.                           *)
ReadsForEver ==
  /\ Halting # {}
  /\ Supported # {} => Missing /\ Halting \cap Endpoints = {}

(* More endpoints than ep_configs_ has entries: num_ep_configs_ and        *)
(* event_waiters_ are written over.                                        *)
WritesBeyond == Supported # {} /\ descriptors[Interface].endpoints > MaxEndpoints

GoesWrong == ReadsBeyond \/ ReadsForEver \/ WritesBeyond

Dci(i) == 2 * descriptors[i].number + (IF descriptors[i].in THEN 1 ELSE 0)

-----------------------------------------------------------------------------
(* The handlers: each pops the event it handles. *)
Event    == Head(events)
PopEvent == events' = Tail(events)

(* InitializeDevice, at the completion of Address Device *)
InitializeDevice ==
  /\ port = "AddressingDevice"
  /\ port' = "InitializingDevice"
  /\ dev' = [dev EXCEPT !.initialized = FALSE, !.phase = 1]
  /\ control' = GetDescriptor(control, "Device")
  /\ UNCHANGED <<descriptors, rings, hid, events, told>>

IssuerTrb ==
  IF Event.dci = 1 THEN control.ring.trbs[Event.at] ELSE rings[Event.dci].trbs[Event.at]

Completed == events # <<>> /\ Event.code # "Error"

(* OnTransferEventReceived on a stage of a request: its setup stage is     *)
(* looked up, and forgotten.                                               *)
SetupOf(event) ==
  LET at == Get(control.setups, event.at)
  IN  IF at = Free THEN NoSetup ELSE control.ring.trbs[at].setup

Answered == [control EXCEPT !.setups = Delete(@, Event.at)]

(* What OnControlCompleted accepts in each phase *)
Expected(setup) ==
  IF dev.initialized THEN Get(control.waiters, setup) # Free
  ELSE \/ /\ dev.phase \in {1, 2} /\ setup.request = "GetDescriptor"
          /\ dev.buf = <<"Device", "Configuration">>[dev.phase]
       \/ dev.phase = 3 /\ setup.request = "SetConfiguration"

Answer(phase) ==
  /\ Completed /\ IssuerTrb.type # "Normal"
  /\ Expected(SetupOf(Event)) /\ dev.phase = phase
  /\ PopEvent

(* A transfer that failed, or an answer nobody expects, is passed over:    *)
(* neither a retry nor anything else follows.                              *)
PassOver ==
  /\ events # <<>>
  /\ IF Event.code = "Error" THEN UNCHANGED control
     ELSE IssuerTrb.type # "Normal" /\ ~Expected(SetupOf(Event)) /\ control' = Answered
  /\ PopEvent
  /\ UNCHANGED <<descriptors, port, dev, rings, hid, told>>

InitializePhase1 ==
  /\ Answer(1)
  /\ dev' = [dev EXCEPT !.phase = 2]
  /\ control' = GetDescriptor(Answered, "Configuration")
  /\ UNCHANGED <<descriptors, port, rings, hid, told>>

(* Without a supported interface the device is left as it is; where this   *)
(* goes wrong the driver never gets on, or anything may happen.            *)
InitializePhase2 ==
  /\ Answer(2)
  /\ \/ /\ GoesWrong
        /\ port' = "Undefined" /\ control' = Answered
        /\ UNCHANGED <<dev, hid>>
     \/ /\ ~GoesWrong /\ Supported = {}
        /\ control' = Answered
        /\ UNCHANGED <<port, dev, hid>>
     \/ /\ ~GoesWrong /\ Supported # {}
        /\ LET kind    == DriverFor(descriptors[Interface])
               numbers == {descriptors[j].number : j \in Endpoints}
               bytes   == IF kind = "keyboard" THEN 2 + KeySlots ELSE 3
           IN  /\ dev' = [dev EXCEPT
                            !.phase = 3, !.endpoints = Endpoints,
                            !.drivers = [n \in DOMAIN @ |-> IF n \in numbers THEN kind ELSE @[n]]]
               /\ hid' = [ kind |-> kind, phase |-> 0, in |-> 0,
                           buf  |-> [i \in 1..bytes |-> 0], previous |-> [i \in 1..bytes |-> 0] ]
        /\ control' = SetConfiguration(Answered, "TheValue")
        /\ UNCHANGED port
  /\ UNCHANGED <<descriptors, rings, told>>

LastOf(endpoints) == IF endpoints = {} THEN 0 ELSE Dci(Max(endpoints))

InterruptInDciBug ==   \* whatever its direction
  LastOf({i \in dev.endpoints : descriptors[i].transfer = "Interrupt"})

(* SetEndpoint of each endpoint: the last interrupt IN endpoint stays.     *)
InterruptInDci ==
  LastOf({i \in dev.endpoints : descriptors[i].transfer = "Interrupt" /\ descriptors[i].in})

(* The device is initialized: OnEvent goes on to ConfigureEndpoints, which *)
(* makes the rings and issues the command.                                 *)
InitializePhase3 ==
  /\ Answer(3)
  /\ control' = Answered
  /\ dev' = [dev EXCEPT !.phase = 4, !.initialized = TRUE]
  /\ hid' = [hid EXCEPT !.in = InterruptInDci]
  /\ IF port = "InitializingDevice"
     THEN /\ port' = "ConfiguringEndpoints"
          /\ rings' = [d \in {Dci(i) : i \in dev.endpoints} |-> NewRing]
     ELSE UNCHANGED <<port, rings>>
  /\ UNCHANGED <<descriptors, told>>

(* The driver of each endpoint number in turn asks for the boot protocol:  *)
(* one that has two numbers asks twice.                                    *)
Ask(c, n) ==
  IF dev.drivers[n] = Free THEN c
  ELSE ControlTransfer(c, Setup("SetProtocol", "Boot"), FALSE, dev.drivers[n])

Asked[n \in 0..15] == IF n = 0 THEN control ELSE Ask(Asked[n - 1], n)

(* CompleteConfiguration, at the completion of Configure Endpoint          *)
OnEndpointsConfigured ==
  /\ port = "ConfiguringEndpoints"
  /\ control' = Asked[15]
  /\ hid' = [hid EXCEPT !.phase = 1]
  /\ port' = "Configured"
  /\ UNCHANGED <<descriptors, dev, rings, events, told>>

(* HIDBaseDriver::OnControlCompleted: the second answer is an error.  A    *)
(* driver without an interrupt IN endpoint has EndpointID 0 for it, and    *)
(* reads transfer_rings_[-1].                                              *)
ProtocolSet ==
  /\ Answer(4)
  /\ control' = Answered
  /\ IF hid.phase = 1
     THEN /\ hid' = [hid EXCEPT !.phase = 2]
          /\ rings' = InterruptIn(rings, hid.in)
          /\ port' = IF hid.in = 0 THEN "Undefined" ELSE port
     ELSE UNCHANGED <<hid, rings, port>>
  /\ UNCHANGED <<descriptors, dev, told>>

Int8(byte) == IF byte < 128 THEN byte ELSE byte - 256

Fresh(keys, old) == SelectSeq(keys, LAMBDA key : key \notin old)

(* OnDataReceived: keys that are nowhere in the previous report, or the    *)
(* movement of the mouse                                                   *)
DataReceived(h) ==
  IF h.kind = "keyboard"
  THEN Fresh(SubSeq(h.buf, 3, 2 + KeySlots), {0} \cup ToSet(h.previous))
  ELSE <<Int8(h.buf[2]), Int8(h.buf[3])>>

OnInterruptCompletedBug ==   \* the report becomes the previous one too early
  /\ Completed /\ IssuerTrb.type = "Normal" /\ PopEvent
  /\ hid' = [hid EXCEPT !.previous = hid.buf]
  /\ told' = DataReceived(hid')
  /\ rings' = InterruptIn(rings, hid.in)
  /\ UNCHANGED <<descriptors, port, dev, control>>

(* The buffer is read and copied before it is given to the controller again. *)
OnInterruptCompleted ==
  /\ Completed /\ IssuerTrb.type = "Normal" /\ PopEvent
  /\ told' = DataReceived(hid)
  /\ hid' = [hid EXCEPT !.previous = hid.buf]
  /\ rings' = InterruptIn(rings, hid.in)
  /\ UNCHANGED <<descriptors, port, dev, control>>

(* Of a driver that went wrong nothing is said any more. *)
Driver ==
  /\ port # "Undefined"
  /\ \/ InitializeDevice \/ PassOver
     \/ InitializePhase1 \/ InitializePhase2 \/ InitializePhase3
     \/ OnEndpointsConfigured \/ ProtocolSet \/ OnInterruptCompleted

-----------------------------------------------------------------------------
(* The controller and the device (external) *)
Post(dci, at, code) ==
  events' = Append(events, [dci |-> dci, at |-> at, code |-> code, of |-> control.serving])

(* One stage of a request; the data stage fills Device::buf_. *)
CarryOutStage ==
  /\ Ready(control.ring)
  /\ LET trb == NextTrb(control.ring)
     IN  /\ control' = [control EXCEPT
                          !.ring = Advance(@),
                          !.serving = IF trb.type = "SetupStage" THEN trb.setup ELSE @]
         /\ dev' = [dev EXCEPT !.buf = IF trb.type = "DataStage" THEN control.serving.value ELSE @]
         /\ IF trb.ioc THEN Post(1, control.ring.deq, "Success") ELSE UNCHANGED events
  /\ UNCHANGED <<descriptors, port, rings, hid, told>>

(* A stage fails: the controller tells of it, and the pipe is halted. *)
FailStage ==
  /\ Ready(control.ring)
  /\ control' = [control EXCEPT !.ring.halted = TRUE]
  /\ Post(1, control.ring.deq, "Error")
  /\ UNCHANGED <<descriptors, port, dev, rings, hid, told>>

SendReport ==
  \E dci \in DOMAIN rings, report \in Reports(hid.kind) :
    /\ dci % 2 = 1 /\ Ready(rings[dci])
    /\ rings' = [rings EXCEPT ![dci] = Advance(@)]
    /\ hid' = [hid EXCEPT !.buf = report]
    /\ Post(dci, rings[dci].deq, "Success")
    /\ UNCHANGED <<descriptors, port, dev, control, told>>

FailReport ==
  \E dci \in DOMAIN rings :
    /\ Ready(rings[dci])
    /\ rings' = [rings EXCEPT ![dci].halted = TRUE]
    /\ Post(dci, rings[dci].deq, "Error")
    /\ UNCHANGED <<descriptors, port, dev, control, hid, told>>

Hardware == CarryOutStage \/ FailStage \/ SendReport \/ FailReport

-----------------------------------------------------------------------------
Init ==
  /\ descriptors \in Configurations
  /\ port = "AddressingDevice"
  /\ dev = [ phase |-> 0, initialized |-> FALSE, buf |-> "none",
             endpoints |-> {}, drivers |-> [n \in 1..15 |-> Free] ]
  /\ control = [ ring |-> NewRing, setups |-> NoEntries(16), waiters |-> NoEntries(4),
                 serving |-> NoSetup ]
  /\ rings = <<>>
  /\ hid = [kind |-> "unknown", phase |-> 0, in |-> 0, buf |-> <<>>, previous |-> <<>>]
  /\ events = <<>> /\ told = <<>>

Next == Driver \/ Hardware

(* The polling loop goes on, and the controller carries out what it is     *)
(* asked for, or fails; nobody needs to press a key.                       *)
Spec == Init /\ [][Next]_vars /\ WF_vars(Driver) /\ WF_vars(CarryOutStage)

-----------------------------------------------------------------------------
(* Every variable has its type.  The control pipe has one request at a     *)
(* time to remember until the drivers ask, then one of each endpoint       *)
(* number that has a driver; and what is on the event ring is an answer to *)
(* one of these, the failure of the pipe, or one event of the endpoint.    *)
Askers == {n \in DOMAIN dev.drivers : dev.drivers[n] # Free}

TypeOK ==
  /\ port \in { "AddressingDevice", "InitializingDevice", "ConfiguringEndpoints",
                "Configured", "Undefined" }
  /\ Cardinality(dev.endpoints) <= MaxEndpoints
  /\ dev.phase \in 0..4 /\ dev.initialized = (dev.phase = 4)
  /\ dev.buf \in {"none", "Device", "Configuration"}
  /\ Cardinality(Taken(control.setups)) <= IF dev.phase = 4 THEN Cardinality(Askers) ELSE 1
  /\ \A r \in {control.ring} \cup {rings[d] : d \in DOMAIN rings} :
       /\ r.write \in 1..RingSize - 1 /\ r.deq \in 1..RingSize - 1
       /\ {r.cycle, r.ccs, r.active, r.halted} \subseteq BOOLEAN
  /\ DOMAIN rings \subseteq 2..31
  /\ hid.phase \in 0..2 /\ hid.in \in 0..31
  /\ \A n \in DOMAIN dev.drivers : dev.drivers[n] \in {Free, hid.kind}
  /\ Len(events) <= Cardinality(Taken(control.setups)) + 2

(* A completed request is answered as what it was: through the map the     *)
(* handler finds the setup stage the controller carried out, though stages *)
(* that do not interrupt are still under way and the ring has wrapped; and *)
(* the request is one the device is waiting for.                           *)
AnswersItsRequest ==
  \A i \in DOMAIN events :
    LET e == events[i]
    IN  e.code # "Error" /\ e.dci = 1 =>
          /\ SetupOf(e) = e.of
          /\ i = 1 => Expected(SetupOf(e))

Pending ==   \* the report that has been sent and not been taken
  IF \E i \in DOMAIN events : events[i].dci # 1 /\ events[i].code # "Error"
  THEN hid.buf ELSE Nothing

(* What the class driver sees is what HidReports promises: no report is    *)
(* written over, taken twice or lost, and what is told follows from it and *)
(* the report before.                                                      *)
Stream ==
  INSTANCE HidReports WITH
    kind    <- hid.kind,
    pending <- Pending,
    last    <- hid.previous

ImplementsReports == Stream!Spec

(* Where the descriptors fit the buffer and have an interface for a class  *)
(* driver that has an interrupt IN endpoint, and nothing goes wrong with   *)
(* them, the device gets to the point where it can send a report, and      *)
(* after each report gets there again; or a transfer fails.                *)
Usable ==
  /\ TotalLength <= BufferSize /\ ~GoesWrong
  /\ \E i \in DOMAIN descriptors : DriverFor(descriptors[i]) # Free
  /\ \E i \in Endpoints : descriptors[i].transfer = "Interrupt" /\ descriptors[i].in

Stuck  == control.ring.halted \/ \E d \in DOMAIN rings : rings[d].halted
CanSend == \E d \in DOMAIN rings : d % 2 = 1 /\ Ready(rings[d])

KeepsPolling ==
  /\ (port = "AddressingDevice" /\ Usable) ~> (CanSend \/ Stuck)
  /\ (hid.phase = 2 /\ port # "Undefined") ~> (CanSend \/ Stuck)
=============================================================================

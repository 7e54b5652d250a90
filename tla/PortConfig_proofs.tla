-------------------------- MODULE PortConfig_proofs --------------------------
(***************************************************************************)
(* Proofs about PortConfig, for any number of ports and slots, of devices  *)
(* pulled out and of failures.                                             *)
(***************************************************************************)
EXTENDS PortConfig, TLAPS, FiniteSetTheorems

(* The critical section, in every state of the thread: AddressingExclusive *)
(* does not say which phase the ports have that a reset in progress is     *)
(* about, nor that main's loop only meets ports nobody has touched.        *)
Resetting == pc \in {"Reset", "Spin"}

BootInv ==
  /\ pc = "Boot" => /\ bootPort \in Ports
                    /\ \A p \in Ports : p >= bootPort => phase[p] = "NotConnected"
  /\ Resetting /\ after.to = "Boot" =>
       /\ bootPort \in Ports
       /\ \A p \in Ports : p > bootPort => phase[p] = "NotConnected"

ResetInv ==
  Resetting =>
    /\ addressing \in Ports
    /\ phase[addressing] = "ResettingPort"
    /\ after.to # "Boot" => events # <<>>
    /\ after.to = "Init" => /\ after.port \in Ports \ {addressing}
                            /\ phase[after.port] = "AddressingDevice"

ControlInv ==
  /\ phase[0] = "NotConnected"
  /\ BootInv
  /\ ResetInv
  /\ AddressingExclusive

(* The default address: a port in reset holds the critical section, and so *)
(* does a USB2 port that is enabled without an address.  A handler leaves  *)
(* the critical section when an output context names the port, and then    *)
(* the device at the port, if it is still there, has an address.           *)
Early == {"NotConnected", "WaitingAddressed", "ResettingPort", "EnablingSlot"}

ResetHolder ==
  \A p \in Ports : portsc[p].pr => p = addressing /\ pc = "Spin"

EnabledHolder ==
  \A p \in Ports \ SuperSpeedPorts : portsc[p].ped /\ addr[p] = 0 => p = addressing

AddressCommands ==
  \A i \in 1 .. Len(cmds) : cmds[i].kind = "AddressDevice" =>
    cmds[i].port \in Ports /\ phase[cmds[i].port] \notin Early

OutputContexts ==
  \A s \in 0 .. NumSlots : dev[s].port # 0 =>
    /\ phase[dev[s].port] \notin Early
    /\ dev[s].port \notin SuperSpeedPorts /\ portsc[dev[s].port].ped
         => addr[dev[s].port] # 0

DefaultAddressInv ==
  ResetHolder /\ EnabledHolder /\ AddressCommands /\ OutputContexts

IInv == TypeOK /\ ControlInv /\ DefaultAddressInv

-----------------------------------------------------------------------------
(* The queues: what they hold stays what it was. *)

LEMMA FrontType ==
  ASSUME TypeOK, events # <<>>
  PROVE  Front \in Events /\ Tail(events) \in Seq(Events)
BY DEF TypeOK, Front

LEMMA PortEventType == \A p \in Ports : PortEvent(p) \in Events
BY DEF PortEvent, Events

LEMMA CommandEventType ==
  \A c \in Commands, s \in 0 .. NumSlots, ok \in BOOLEAN : CommandEvent(c, s, ok) \in Events
BY DEF CommandEvent, Events

LEMMA TransferEventType ==
  \A t \in Transfers, s \in Slots, ok \in BOOLEAN : TransferEvent(t, s, ok) \in Events
BY DEF TransferEvent, Events

LEMMA ReportType ==
  ASSUME TypeOK, NEW p \in Ports, NEW bit, Report(p, bit)
  PROVE  events' \in Seq(Events)
<1>1. events' = Append(events, PortEvent(p)) \/ events' = events
  BY DEF Report
<1>2. events \in Seq(Events) /\ PortEvent(p) \in Events
  BY PortEventType DEF TypeOK
<1> QED
  BY <1>1, <1>2

LEMMA CommandType ==
  ASSUME TypeOK, cmds # <<>>
  PROVE  Head(cmds) \in CommandTRBs /\ Tail(cmds) \in Seq(CommandTRBs)
BY DEF TypeOK

LEMMA CompleteType ==
  ASSUME TypeOK, cmds # <<>>, NEW s \in 0 .. NumSlots, NEW ok \in BOOLEAN, Complete(s, ok)
  PROVE  events' \in Seq(Events) /\ cmds' \in Seq(CommandTRBs)
<1>1. Head(cmds).kind \in Commands
  BY CommandType DEF CommandTRBs
<1>2. CommandEvent(Head(cmds).kind, s, ok) \in Events
  BY <1>1, CommandEventType
<1> QED
  BY <1>2, CommandType DEF Complete, TypeOK

(* The records the steps update stay what they are. *)
LEMMA PortStatusType ==
  ASSUME NEW r \in PortStatus, NEW b \in BOOLEAN
  PROVE  /\ [r EXCEPT !.csc = FALSE, !.pr = r.ccs, !.ped = FALSE] \in PortStatus
         /\ [r EXCEPT !.prc = FALSE] \in PortStatus
         /\ [r EXCEPT !.ccs = TRUE, !.csc = TRUE, !.ped = b] \in PortStatus
         /\ [r EXCEPT !.ccs = FALSE, !.csc = TRUE, !.ped = FALSE, !.pr = FALSE] \in PortStatus
         /\ [r EXCEPT !.pr = FALSE, !.ped = TRUE, !.prc = TRUE] \in PortStatus
BY DEF PortStatus

LEMMA InitFieldType ==
  ASSUME NEW d \in Devices, NEW i \in 0 .. 4, NEW e, e = [d EXCEPT !.init = i]
  PROVE  e \in Devices /\ e.port = d.port /\ e.init = i /\ e.hid = d.hid /\ e.tds = d.tds
BY DEF Devices

LEMMA HidFieldType ==
  ASSUME NEW d \in Devices, NEW h \in 0 .. 2, NEW e, e = [d EXCEPT !.hid = h]
  PROVE  e \in Devices /\ e.port = d.port /\ e.init = d.init /\ e.hid = h /\ e.tds = d.tds
BY DEF Devices

LEMMA AllocatedType ==
  ASSUME NEW d \in Devices
  PROVE  LET e == [d EXCEPT !.alloc = TRUE] IN
         /\ e \in Devices /\ e.port = d.port /\ e.init = d.init /\ e.hid = d.hid
         /\ e.tds = d.tds
BY DEF Devices

LEMMA AddressedType ==
  ASSUME NEW d \in Devices, NEW p \in 0 .. NumPorts
  PROVE  LET e == [d EXCEPT !.port = p] IN
         e \in Devices /\ e.init = d.init /\ e.hid = d.hid /\ e.tds = d.tds
BY DEF Devices

(* What is asked for, done or given up changes one count of a device. *)
LEMMA PendingType ==
  ASSUME NEW d \in Devices, NEW t \in Transfers, NEW n \in Nat
  PROVE  LET e == Pending(d, t, n) IN
         /\ e \in Devices /\ e.port = d.port /\ e.init = d.init /\ e.hid = d.hid
         /\ e.tds = [d.tds EXCEPT ![t] = n]
<1>1. d.tds \in [Transfers -> Nat]
  BY DEF Devices
<1>2. PICK c : c = [d.tds EXCEPT ![t] = n]
  OBVIOUS
<1>3. c \in [Transfers -> Nat]
  BY <1>1, <1>2
<1>4. PICK e : e = [d EXCEPT !.tds = c]
  OBVIOUS
<1>5. e \in Devices /\ e.port = d.port /\ e.init = d.init /\ e.hid = d.hid /\ e.tds = c
  BY <1>3, <1>4 DEF Devices
<1>6. Pending(d, t, n) = e
  BY <1>2, <1>4 DEF Pending
<1> QED
  BY <1>2, <1>5, <1>6

LEMMA AskType ==
  ASSUME NEW d \in Devices, NEW t \in Transfers, NEW n \in Nat
  PROVE  LET e == Ask(d, t, n) IN
         /\ e \in Devices /\ e.port = d.port /\ e.init = d.init /\ e.hid = d.hid
         /\ e.tds = [d.tds EXCEPT ![t] = d.tds[t] + n]
<1>1. d.tds[t] \in Nat
  BY DEF Devices
<1>2. d.tds[t] + n \in Nat
  BY <1>1
<1> QED
  BY <1>2, PendingType DEF Ask

LEMMA StartedType ==
  ASSUME NEW d \in Devices
  PROVE  LET e == Started(d) IN
         /\ e \in Devices /\ e.port = d.port /\ e.hid = d.hid
         /\ e.tds = [d.tds EXCEPT !["DeviceDesc"] = d.tds["DeviceDesc"] + 1]
<1>1. PICK c : c = [d EXCEPT !.init = 1]
  OBVIOUS
<1>2. c \in Devices /\ c.port = d.port /\ c.hid = d.hid /\ c.tds = d.tds
  <2>1. 1 \in 0 .. 4
    OBVIOUS
  <2> QED
    BY <1>1, <2>1, InitFieldType
<1>3. "DeviceDesc" \in Transfers
  BY DEF Transfers
<1>4. Started(d) = Ask(c, "DeviceDesc", 1)
  BY <1>1 DEF Started
<1> QED
  BY <1>2, <1>3, <1>4, AskType

LEMMA EndpointNumbersType ==
  /\ 0 \in 0 .. NumPorts
  /\ \A p \in 0 .. NumPorts : EndpointNumbers[p] \in Nat
<1>1. EndpointNumbers \in [0 .. NumPorts -> 0 .. 15] /\ 0 .. 15 \subseteq Nat
  BY PortConfigAssumption
<1>2. \A p \in 0 .. NumPorts : EndpointNumbers[p] \in Nat
  BY <1>1
<1> QED
  BY <1>2, PortConfigAssumption

LEMMA ClassStartedType ==
  ASSUME NEW d \in Devices
  PROVE  LET e == ClassStarted(d)
             n == EndpointNumbers[d.port]
         IN
         /\ e \in Devices /\ e.port = d.port /\ e.init = d.init /\ n \in Nat
         /\ e.tds = [d.tds EXCEPT !["SetProtocol"] = d.tds["SetProtocol"] + n]
<1>1. PICK c : c = [d EXCEPT !.hid = 1]
  OBVIOUS
<1>2. c \in Devices /\ c.port = d.port /\ c.init = d.init /\ c.tds = d.tds
  <2>1. 1 \in 0 .. 2
    OBVIOUS
  <2> QED
    BY <1>1, <2>1, HidFieldType
<1>3. "SetProtocol" \in Transfers
  BY DEF Transfers
<1>4. EndpointNumbers[d.port] \in Nat
  <2>1. d.port \in 0 .. NumPorts
    BY DEF Devices
  <2> QED
    BY <2>1, EndpointNumbersType
<1>5. ClassStarted(d) = Ask(c, "SetProtocol", EndpointNumbers[d.port])
  BY <1>1 DEF ClassStarted
<1> QED
  BY <1>2, <1>3, <1>4, <1>5, AskType

(* The phase of a port that goes with a transfer. *)
PhaseOf(t) ==
  IF t \in {"SetProtocol", "InterruptIn"} THEN "Configured" ELSE "InitializingDevice"

(* The transfers that a device is only ever asked for one by one. *)
Singles == Transfers \ {"SetProtocol"}

(* u is what the reaction of d to t, e, asks for next. *)
AsksNext(d, t, e, u) ==
  /\ e.tds = [d.tds EXCEPT ![u] = d.tds[u] + 1]
  /\ PhaseOf(u) = PhaseOf(t)
  /\ u = "InterruptIn" => e.hid = 2 \/ t = "InterruptIn"
  /\ e.init = 4 => t \in {"SetProtocol", "InterruptIn"}
  /\ t = "SetProtocol" => d.hid # 2 /\ u = "InterruptIn"

LEMMA ReactionType ==
  ASSUME NEW d \in Devices, NEW t
  PROVE  LET e == Reaction(d, t) IN
         /\ e \in Devices /\ e.port = d.port
         /\ d.hid = 2 => e.hid = 2
         /\ e.tds = d.tds \/ \E u \in Singles : AsksNext(d, t, e, u)
<1> DEFINE Good(e) == /\ e \in Devices /\ e.port = d.port
                      /\ d.hid = 2 => e.hid = 2
                      /\ e.tds = d.tds \/ \E u \in Singles : AsksNext(d, t, e, u)
<1>0. /\ "ConfigDesc" \in Singles /\ "SetConfig" \in Singles /\ "InterruptIn" \in Singles
      /\ Singles \subseteq Transfers
  BY DEF Singles, Transfers
<1>1. ASSUME NEW c \in Devices, NEW u \in Singles, c.port = d.port, c.tds = d.tds,
             PhaseOf(u) = PhaseOf(t), d.hid = 2 => c.hid = 2,
             u = "InterruptIn" => c.hid = 2 \/ t = "InterruptIn",
             c.init = 4 => t \in {"SetProtocol", "InterruptIn"},
             t = "SetProtocol" => d.hid # 2 /\ u = "InterruptIn"
      PROVE  Good(Ask(c, u, 1))
  <2>1. PICK e : e = Ask(c, u, 1)
    OBVIOUS
  <2>2. /\ e \in Devices /\ e.port = d.port /\ e.init = c.init /\ e.hid = c.hid
        /\ e.tds = [d.tds EXCEPT ![u] = d.tds[u] + 1]
    BY <1>0, <1>1, <2>1, AskType
  <2>3. AsksNext(d, t, e, u)
    BY <1>1, <2>2 DEF AsksNext
  <2> QED
    BY <1>1, <2>1, <2>2, <2>3
<1>2. ASSUME t = "DeviceDesc" PROVE Good(Ask([d EXCEPT !.init = 2], "ConfigDesc", 1))
  <2>1. PICK c : c = [d EXCEPT !.init = 2]
    OBVIOUS
  <2>2. c \in Devices /\ c.port = d.port /\ c.hid = d.hid /\ c.tds = d.tds /\ c.init = 2
    <3>1. 2 \in 0 .. 4
      OBVIOUS
    <3> QED
      BY <2>1, <3>1, InitFieldType
  <2>3. PhaseOf("ConfigDesc") = PhaseOf(t)
    BY <1>2 DEF PhaseOf
  <2> HIDE DEF Good
  <2>4. Good(Ask(c, "ConfigDesc", 1))
    BY <1>0, <1>1, <1>2, <2>2, <2>3
  <2> QED
    BY <2>1, <2>4
<1>3. ASSUME t = "ConfigDesc" PROVE Good(Ask([d EXCEPT !.init = 3], "SetConfig", 1))
  <2>1. PICK c : c = [d EXCEPT !.init = 3]
    OBVIOUS
  <2>2. c \in Devices /\ c.port = d.port /\ c.hid = d.hid /\ c.tds = d.tds /\ c.init = 3
    <3>1. 3 \in 0 .. 4
      OBVIOUS
    <3> QED
      BY <2>1, <3>1, InitFieldType
  <2>3. PhaseOf("SetConfig") = PhaseOf(t)
    BY <1>3 DEF PhaseOf
  <2> HIDE DEF Good
  <2>4. Good(Ask(c, "SetConfig", 1))
    BY <1>0, <1>1, <1>3, <2>2, <2>3
  <2> QED
    BY <2>1, <2>4
<1>4. Good([d EXCEPT !.init = 4])
  <2>1. PICK c : c = [d EXCEPT !.init = 4]
    OBVIOUS
  <2>2. 4 \in 0 .. 4
    OBVIOUS
  <2>3. c \in Devices /\ c.port = d.port /\ c.hid = d.hid /\ c.tds = d.tds
    BY <2>1, <2>2, InitFieldType
  <2> QED
    BY <2>1, <2>3
<1>5. ASSUME t = "SetProtocol", d.hid = 1 PROVE Good(Ask([d EXCEPT !.hid = 2], "InterruptIn", 1))
  <2>1. PICK c : c = [d EXCEPT !.hid = 2]
    OBVIOUS
  <2>2. c \in Devices /\ c.port = d.port /\ c.hid = 2 /\ c.tds = d.tds
    <3>1. 2 \in 0 .. 2
      OBVIOUS
    <3> QED
      BY <2>1, <3>1, HidFieldType
  <2>3. PhaseOf("InterruptIn") = PhaseOf(t)
    BY <1>5 DEF PhaseOf
  <2> HIDE DEF Good
  <2>4. Good(Ask(c, "InterruptIn", 1))
    BY <1>0, <1>1, <1>5, <2>2, <2>3
  <2> QED
    BY <2>1, <2>4
<1>6. ASSUME t = "InterruptIn" PROVE Good(Ask(d, "InterruptIn", 1))
  <2> HIDE DEF Good
  <2> QED
    BY <1>0, <1>1, <1>6
<1>7. Good(d)
  OBVIOUS
<1>8. Good(DriverReaction(d, t))
  <2> HIDE DEF Good
  <2> QED
    BY <1>5, <1>6, <1>7 DEF DriverReaction
<1>9. Good(Reaction(d, t))
  <2> HIDE DEF Good
  <2> QED
    BY <1>2, <1>3, <1>4, <1>8 DEF Reaction
<1> QED
  BY <1>9

-----------------------------------------------------------------------------
(* Type correctness *)

LEMMA InitType == Init => TypeOK
<1> SUFFICES ASSUME Init PROVE TypeOK
  OBVIOUS
<1>1. NoDevice \in Devices
  <2>1. [t \in Transfers |-> 0] \in [Transfers -> Nat]
    OBVIOUS
  <2> QED
    BY <2>1, PortConfigAssumption DEF NoDevice, Devices
<1>2. Nowhere \in Continuations
  BY PortConfigAssumption DEF Nowhere, Continuations
<1>3. portsc \in [Ports -> PortStatus]
  <2>1. PICK C \in SUBSET Ports :
          portsc = [p \in Ports |-> [ccs |-> p \in C, csc |-> p \in C,
                                     ped |-> p \in C \cap SuperSpeedPorts,
                                     pr |-> FALSE, prc |-> FALSE]]
    BY DEF Init
  <2>2. \A a, b, c \in BOOLEAN :
          [ccs |-> a, csc |-> b, ped |-> c, pr |-> FALSE, prc |-> FALSE] \in PortStatus
    BY DEF PortStatus
  <2>3. \A p \in Ports : (p \in C) \in BOOLEAN /\ (p \in C \cap SuperSpeedPorts) \in BOOLEAN
    OBVIOUS
  <2> QED
    BY <2>1, <2>2, <2>3, Zenon
<1>4. phase \in [0 .. NumPorts -> Phases] /\ dcbaa \in [0 .. NumSlots -> DcbaaEntries]
  BY DEF Init, Phases, DcbaaEntries
<1>5. addr \in [Ports -> 0 .. NumSlots] /\ slot \in [Slots -> SlotStates]
  BY PortConfigAssumption DEF Init, SlotStates
<1>6. dev \in [0 .. NumSlots -> Devices] /\ after \in Continuations
  BY <1>1, <1>2 DEF Init
<1>7. cmds \in Seq(CommandTRBs) /\ events \in Seq(Events)
  BY DEF Init
<1>8. /\ addressing \in 0 .. NumPorts /\ bootPort \in 1 .. NumPorts + 1
      /\ unplugs \in 0 .. MaxUnplugs /\ faults \in 0 .. MaxFaults
      /\ pc \in {"Boot", "Loop", "Reset", "Spin"}
  BY PortConfigAssumption DEF Init
<1> QED
  BY <1>3, <1>4, <1>5, <1>6, <1>7, <1>8 DEF TypeOK

LEMMA TypeStep == IInv /\ [Next]_vars => TypeOK'
<1> SUFFICES ASSUME IInv, [Next]_vars PROVE TypeOK'
  OBVIOUS
<1> USE PortConfigAssumption
<1>0. TypeOK /\ ControlInv
  BY DEF IInv
<1>a. Ports \subseteq 0 .. NumPorts /\ Slots \subseteq 0 .. NumSlots
  BY DEF Ports, Slots
<1>b. \A p \in 0 .. NumPorts, x \in Phases :
        [phase EXCEPT ![p] = x] \in [0 .. NumPorts -> Phases]
  BY <1>0 DEF TypeOK
<1>c. \A s \in 0 .. NumSlots, d \in Devices :
        [dev EXCEPT ![s] = d] \in [0 .. NumSlots -> Devices]
  BY <1>0 DEF TypeOK
<1>d. \A p \in Ports, r \in PortStatus :
        [portsc EXCEPT ![p] = r] \in [Ports -> PortStatus]
  BY <1>0 DEF TypeOK
<1>1. CASE BootPort
  <2>1. bootPort \in Ports
    BY <1>0, <1>1 DEF BootPort, ControlInv, BootInv
  <2>2. phase' \in [0 .. NumPorts -> Phases]
    BY <1>0, <1>1, <2>1, <1>a, <1>b DEF BootPort, BeginReset, Queue, TypeOK, Phases
  <2>3. addressing' \in 0 .. NumPorts /\ after' \in Continuations
    BY <1>0, <1>1, <2>1, <1>a DEF BootPort, BeginReset, Queue, TypeOK, Nowhere, Continuations
  <2>4. pc' \in {"Boot", "Loop", "Reset", "Spin"} /\ bootPort' \in 1 .. NumPorts + 1
    BY <1>0, <1>1, <2>1 DEF BootPort, BeginReset, NextBootPort, TypeOK, Ports
  <2> QED
    BY <1>0, <1>1, <2>2, <2>3, <2>4 DEF BootPort, TypeOK, hwVars, budgetVars
<1>2. CASE WriteReset
  <2>1. addressing \in Ports
    BY <1>0, <1>2 DEF WriteReset, ControlInv, ResetInv, Resetting
  <2>2. portsc' \in [Ports -> PortStatus]
    <3> DEFINE r == portsc[addressing]
    <3>1. r \in PortStatus
      BY <1>0, <2>1 DEF TypeOK
    <3>2. [r EXCEPT !.csc = FALSE, !.pr = r.ccs, !.ped = FALSE] \in PortStatus
      BY <3>1, PortStatusType, Zenon
    <3> QED
      <4> DEFINE r2 == [r EXCEPT !.csc = FALSE, !.pr = r.ccs, !.ped = FALSE]
      <4>1. portsc' = [portsc EXCEPT ![addressing] = r2]
        BY <1>2 DEF WriteReset
      <4>2. r2 \in PortStatus
        BY <3>2
      <4> HIDE DEF r2
      <4> QED
        BY <1>0, <2>1, <4>1, <4>2 DEF TypeOK
  <2>3. addr' \in [Ports -> 0 .. NumSlots]
    BY <1>0, <1>2, <2>1 DEF WriteReset, TypeOK
  <2> QED
    BY <1>0, <1>2, <2>2, <2>3 DEF WriteReset, TypeOK, budgetVars
<1>3. CASE FinishReset
  <2>1. after.to # "Boot" => Tail(events) \in Seq(Events)
    BY <1>0, <1>3, FrontType DEF FinishReset, ControlInv, ResetInv, Resetting
  <2>2. after.slot \in 0 .. NumSlots /\ after.port \in 0 .. NumPorts
    BY <1>0 DEF TypeOK, Continuations
  <2>3. Started(dev[after.slot]) \in Devices
    BY <1>0, <2>2, StartedType DEF TypeOK
  <2>4. after.to = "Boot" => bootPort \in Ports
    BY <1>0, <1>3 DEF FinishReset, ControlInv, BootInv, Resetting
  <2>5. phase' \in [0 .. NumPorts -> Phases]
    BY <1>0, <1>3, <2>2, <1>b DEF FinishReset, TypeOK, Phases
  <2>6. dev' \in [0 .. NumSlots -> Devices] /\ events' \in Seq(Events)
    <3>1. \/ dev' = dev
          \/ dev' = [dev EXCEPT ![after.slot] = Started(dev[after.slot])]
      BY <1>3 DEF FinishReset
    <3>2. events' = events \/ (after.to # "Boot" /\ events' = Tail(events))
      BY <1>3 DEF FinishReset, Pop
    <3> QED
      <4>1. dev' \in [0 .. NumSlots -> Devices]
        BY <1>0, <2>2, <2>3, <3>1 DEF TypeOK
      <4>2. events \in Seq(Events)
        BY <1>0 DEF TypeOK
      <4>3. events' \in Seq(Events)
        BY <2>1, <3>2, <4>2
      <4> QED
        BY <4>1, <4>3
  <2>7. pc' \in {"Boot", "Loop", "Reset", "Spin"} /\ bootPort' \in 1 .. NumPorts + 1
    BY <1>0, <1>3, <2>4 DEF FinishReset, NextBootPort, TypeOK, Ports
  <2>8. after' \in Continuations
    BY <1>3 DEF FinishReset, Nowhere, Continuations
  <2> QED
    BY <1>0, <1>3, <2>5, <2>6, <2>7, <2>8 DEF FinishReset, TypeOK, budgetVars
<1>4. CASE OnPortStatusChange
  <2>1. Front \in Events /\ Tail(events) \in Seq(Events) /\ Front.port \in Ports
    BY <1>0, <1>4, FrontType DEF OnPortStatusChange, HasEvent, Events
  <2>2. CASE OnPlugged(Front.port)
    <3>1. phase' \in [0 .. NumPorts -> Phases] /\ addressing' \in 0 .. NumPorts
      <4>1. \E x \in Phases : phase' = [phase EXCEPT ![Front.port] = x]
        BY <2>2 DEF OnPlugged, BeginReset, Queue, Phases
      <4>2. addressing' \in {addressing, Front.port}
        BY <2>2 DEF OnPlugged, BeginReset, Queue
      <4> QED
        <5>1. PICK x \in Phases : phase' = [phase EXCEPT ![Front.port] = x]
          BY <4>1
        <5>2. phase' \in [0 .. NumPorts -> Phases]
          BY <1>0, <5>1 DEF TypeOK
        <5>3. addressing' \in 0 .. NumPorts
          BY <1>0, <2>1, <1>a, <4>2 DEF TypeOK
        <5> QED
          BY <5>2, <5>3
    <3>2. pc' \in {"Boot", "Loop", "Reset", "Spin"} /\ after' \in Continuations
      BY <1>0, <2>2 DEF OnPlugged, BeginReset, Queue, BackToLoop, TypeOK, Continuations
    <3>3. events' \in Seq(Events)
      BY <1>0, <2>1, <2>2 DEF OnPlugged, Pop, TypeOK
    <3> QED
      BY <1>0, <1>4, <2>2, <3>1, <3>2, <3>3 DEF OnPlugged, OnPortStatusChange, TypeOK, budgetVars
  <2>3. CASE OnPortReset(Front.port)
    <3>1. portsc' \in [Ports -> PortStatus]
      BY <1>0, <2>1, <2>3, <1>d, PortStatusType DEF OnPortReset, TypeOK
    <3>2. phase' \in [0 .. NumPorts -> Phases]
      BY <2>1, <2>3, <1>a, <1>b DEF OnPortReset, Phases
    <3>3. cmds' \in Seq(CommandTRBs) /\ events' \in Seq(Events)
      BY <1>0, <2>1, <2>3 DEF OnPortReset, Ring, Pop, CommandTRBs, Commands, TypeOK
    <3> QED
      BY <1>0, <1>4, <2>3, <3>1, <3>2, <3>3 DEF OnPortReset, OnPortStatusChange, TypeOK, budgetVars
  <2>4. CASE Ignore
    BY <1>0, <1>4, <2>1, <2>4 DEF Ignore, OnPortStatusChange, TypeOK, Pop, driverVars, budgetVars
  <2> QED
    BY <1>4, <2>2, <2>3, <2>4 DEF OnPortStatusChange
<1>5. CASE OnEnableSlot
  <2>1. Tail(events) \in Seq(Events) /\ Front.slot \in 0 .. NumSlots
    BY <1>0, <1>5, FrontType, <1>a DEF OnEnableSlot, HasEvent, Events
  <2>2. CASE Ignore
    BY <1>0, <1>5, <2>1, <2>2 DEF Ignore, OnEnableSlot, TypeOK, Pop, driverVars, budgetVars
  <2>3. CASE phase[addressing] = "EnablingSlot" /\ ~Ignore
    <3>1. dev' \in [0 .. NumSlots -> Devices]
      <4>1. dev' = [dev EXCEPT ![Front.slot] = [dev[Front.slot] EXCEPT !.alloc = TRUE]]
        BY <1>5, <2>3 DEF OnEnableSlot
      <4>2. dev[Front.slot] \in Devices
        BY <1>0, <2>1 DEF TypeOK
      <4>3. [dev[Front.slot] EXCEPT !.alloc = TRUE] \in Devices
        BY <4>2, AllocatedType
      <4> QED
        BY <2>1, <1>c, <4>1, <4>3
    <3>2. dcbaa' \in [0 .. NumSlots -> DcbaaEntries]
      BY <1>0, <1>5, <2>1, <2>3 DEF OnEnableSlot, LoadDCBAA, DcbaaEntries, TypeOK
    <3>3. phase' \in [0 .. NumPorts -> Phases]
      BY <1>0, <1>5, <2>3, <1>b DEF OnEnableSlot, Phases, TypeOK
    <3>4. cmds' \in Seq(CommandTRBs) /\ events' \in Seq(Events)
      <4>1. [kind |-> "AddressDevice", slot |-> Front.slot, port |-> addressing] \in CommandTRBs
        BY <1>0, <2>1 DEF CommandTRBs, Commands, TypeOK
      <4>2. /\ cmds' = Append(cmds, [kind |-> "AddressDevice", slot |-> Front.slot,
                                     port |-> addressing])
            /\ events' = Tail(events)
        BY <1>5, <2>3 DEF OnEnableSlot, Ring, Pop
      <4> QED
        BY <1>0, <2>1, <4>1, <4>2 DEF TypeOK
    <3> QED
      BY <1>0, <1>5, <2>3, <3>1, <3>2, <3>3, <3>4 DEF OnEnableSlot, TypeOK, budgetVars
  <2> QED
    BY <1>5, <2>2, <2>3 DEF OnEnableSlot
<1>6. CASE OnAddressDevice
  <2>1. Tail(events) \in Seq(Events) /\ Front.slot \in 0 .. NumSlots
    BY <1>0, <1>6, FrontType, <1>a DEF OnAddressDevice, HasEvent, Events
  <2>2. /\ dev[Front.slot].port \in 0 .. NumPorts
        /\ Started(dev[Front.slot]) \in Devices
    <3>1. dev[Front.slot] \in Devices
      BY <1>0, <2>1 DEF TypeOK
    <3>2. dev[Front.slot].port \in 0 .. NumPorts
      BY <3>1 DEF Devices
    <3> QED
      BY <3>1, <3>2, StartedType
  <2>3. phase' \in [0 .. NumPorts -> Phases] /\ addressing' \in 0 .. NumPorts
    <3>1. \/ UNCHANGED <<phase, addressing>>
          \/ /\ addressing' = 0
             /\ phase' = [phase EXCEPT ![dev[Front.slot].port] = "InitializingDevice"]
          \/ \E w \in Ports : /\ addressing' = w
                              /\ phase' = [phase EXCEPT ![w] = "ResettingPort"]
      BY <1>6 DEF OnAddressDevice, BeginReset, WaitingPorts
    <3> QED
      <4>1. addressing' \in 0 .. NumPorts
        BY <1>0, <1>a, <3>1 DEF TypeOK
      <4>2. phase' \in [0 .. NumPorts -> Phases]
        BY <1>0, <3>1 DEF TypeOK, Phases
      <4> QED
        BY <4>1, <4>2
  <2>4. dev' \in [0 .. NumSlots -> Devices] /\ events' \in Seq(Events)
    <3>1. dev' = dev \/ dev' = [dev EXCEPT ![Front.slot] = Started(dev[Front.slot])]
      BY <1>6 DEF OnAddressDevice
    <3>2. events' = events \/ events' = Tail(events)
      BY <1>6 DEF OnAddressDevice, Pop
    <3> DEFINE d == Started(dev[Front.slot])
    <3>3. dev' = dev \/ dev' = [dev EXCEPT ![Front.slot] = d]
      BY <3>1
    <3>4. dev \in [0 .. NumSlots -> Devices] /\ events \in Seq(Events)
      BY <1>0 DEF TypeOK
    <3>5. d \in Devices
      BY <2>2
    <3> HIDE DEF d
    <3>6. dev' \in [0 .. NumSlots -> Devices]
      BY <3>3, <3>4, <3>5
    <3> QED
      BY <2>1, <3>2, <3>4, <3>6
  <2>5. pc' \in {"Boot", "Loop", "Reset", "Spin"} /\ after' \in Continuations
    BY <1>0, <1>6, <2>1, <2>2 DEF OnAddressDevice, BeginReset, TypeOK, Continuations
  <2> QED
    BY <1>0, <1>6, <2>3, <2>4, <2>5 DEF OnAddressDevice, TypeOK, budgetVars
<1>7. CASE OnConfigureEndpoint
  <2>1. Tail(events) \in Seq(Events) /\ Front.slot \in 0 .. NumSlots
    BY <1>0, <1>7, FrontType, <1>a DEF OnConfigureEndpoint, HasEvent, Events
  <2>2. /\ dev[Front.slot].port \in 0 .. NumPorts
        /\ ClassStarted(dev[Front.slot]) \in Devices
    <3>1. dev[Front.slot] \in Devices
      BY <1>0, <2>1 DEF TypeOK
    <3>2. dev[Front.slot].port \in 0 .. NumPorts
      BY <3>1 DEF Devices
    <3> QED
      BY <3>1, <3>2, ClassStartedType
  <2>3. phase' \in [0 .. NumPorts -> Phases]
    BY <1>0, <1>7, <2>1, <2>2, <1>b DEF OnConfigureEndpoint, Ignore, driverVars, TypeOK, Phases
  <2>4. dev' \in [0 .. NumSlots -> Devices] /\ events' \in Seq(Events)
    <3>1. \/ dev' = dev
          \/ dev' = [dev EXCEPT ![Front.slot] = ClassStarted(dev[Front.slot])]
      BY <1>7 DEF OnConfigureEndpoint, Ignore, driverVars
    <3>2. events' = Tail(events)
      BY <1>7 DEF OnConfigureEndpoint, Ignore, Pop
    <3> QED
      <4> DEFINE e == ClassStarted(dev[Front.slot])
      <4>1. dev' = dev \/ dev' = [dev EXCEPT ![Front.slot] = e]
        BY <3>1
      <4>2. e \in Devices
        BY <2>2
      <4> HIDE DEF e
      <4>3. dev' \in [0 .. NumSlots -> Devices]
        BY <1>0, <4>1, <4>2 DEF TypeOK
      <4> QED
        BY <2>1, <3>2, <4>3
  <2> QED
    BY <1>0, <1>7, <2>3, <2>4 DEF OnConfigureEndpoint, Ignore, driverVars, TypeOK, budgetVars
<1>8. CASE OnTransfer
  <2>1. Tail(events) \in Seq(Events) /\ Front.slot \in 0 .. NumSlots
    BY <1>0, <1>8, FrontType, <1>a DEF OnTransfer, HasEvent, Events
  <2> DEFINE d == Reaction(dev[Front.slot], Front.of)
  <2>2. d \in Devices /\ d.port \in 0 .. NumPorts
    BY <1>0, <2>1, ReactionType DEF TypeOK, Devices
  <2>3. phase' \in [0 .. NumPorts -> Phases]
    BY <1>0, <1>8, <2>2, <1>b DEF OnTransfer, ConfigureEndpoints, Ignore, driverVars, TypeOK, Phases
  <2>4. cmds' \in Seq(CommandTRBs)
    <3> DEFINE c == [kind |-> "ConfigureEndpoint", slot |-> Front.slot, port |-> 0]
    <3>1. c \in CommandTRBs
      BY <2>1 DEF CommandTRBs, Commands
    <3>2. cmds' = cmds \/ cmds' = Append(cmds, c)
      BY <1>8 DEF OnTransfer, ConfigureEndpoints, Ring, Ignore
    <3>3. cmds \in Seq(CommandTRBs)
      BY <1>0 DEF TypeOK
    <3> HIDE DEF c
    <3> QED
      BY <3>1, <3>2, <3>3
  <2>5. dev' \in [0 .. NumSlots -> Devices] /\ events' \in Seq(Events)
    <3>1. dev' = dev \/ dev' = [dev EXCEPT ![Front.slot] = d]
      BY <1>8 DEF OnTransfer, Ignore, driverVars
    <3>2. events' = Tail(events)
      BY <1>8 DEF OnTransfer, Ignore, Pop
    <3>3. dev \in [0 .. NumSlots -> Devices] /\ d \in Devices
      BY <1>0, <2>2 DEF TypeOK
    <3> HIDE DEF d
    <3>4. dev' \in [0 .. NumSlots -> Devices]
      BY <3>1, <3>3
    <3> QED
      BY <2>1, <3>2, <3>4
  <2> QED
    BY <1>0, <1>8, <2>3, <2>4, <2>5 DEF OnTransfer, Ignore, driverVars, TypeOK, budgetVars
<1>9. CASE ExecEnableSlot
  <2>1. slot' \in [Slots -> SlotStates]
    BY <1>0, <1>9 DEF ExecEnableSlot, TypeOK, SlotStates
  <2>2. events' \in Seq(Events) /\ cmds' \in Seq(CommandTRBs)
    BY <1>0, <1>9, <1>a, CompleteType DEF ExecEnableSlot
  <2> QED
    BY <1>0, <1>9, <2>1, <2>2 DEF ExecEnableSlot, TypeOK, driverVars, budgetVars
<1>10. CASE ExecAddressDevice
  <2>1. Head(cmds).slot \in 0 .. NumSlots /\ Head(cmds).port \in 0 .. NumPorts
    BY <1>0, <1>10, CommandType DEF ExecAddressDevice, CommandTRBs
  <2>2. slot' \in [Slots -> SlotStates] /\ addr' \in [Ports -> 0 .. NumSlots]
    BY <1>0, <1>10, <2>1 DEF ExecAddressDevice, TypeOK, SlotStates
  <2>3. dev' \in [0 .. NumSlots -> Devices]
    <3>1. dev[Head(cmds).slot] \in Devices
      BY <1>0, <2>1 DEF TypeOK
    <3>2. [dev[Head(cmds).slot] EXCEPT !.port = Head(cmds).port] \in Devices
      BY <3>1, <2>1, AddressedType
    <3> QED
      BY <1>10, <2>1, <3>2, <1>c DEF ExecAddressDevice
  <2>4. events' \in Seq(Events) /\ cmds' \in Seq(CommandTRBs)
    BY <1>0, <1>10, <2>1, CompleteType DEF ExecAddressDevice
  <2> QED
    BY <1>0, <1>10, <2>2, <2>3, <2>4 DEF ExecAddressDevice, TypeOK, budgetVars
<1>11. CASE ExecConfigureEndpoint
  <2>1. Head(cmds).slot \in 0 .. NumSlots
    BY <1>0, <1>11, CommandType DEF ExecConfigureEndpoint, CommandTRBs
  <2>2. slot' \in [Slots -> SlotStates]
    BY <1>0, <1>11 DEF ExecConfigureEndpoint, TypeOK, SlotStates
  <2>3. events' \in Seq(Events) /\ cmds' \in Seq(CommandTRBs)
    BY <1>0, <1>11, <2>1, CompleteType DEF ExecConfigureEndpoint
  <2> QED
    BY <1>0, <1>11, <2>2, <2>3 DEF ExecConfigureEndpoint, TypeOK, driverVars, budgetVars
<1>12. CASE FailCommand
  <2>1. Head(cmds).slot \in 0 .. NumSlots
    BY <1>0, <1>12, CommandType DEF FailCommand, CommandTRBs
  <2>2. events' \in Seq(Events) /\ cmds' \in Seq(CommandTRBs)
    BY <1>0, <1>12, <2>1, CompleteType DEF FailCommand
  <2> QED
    BY <1>0, <1>12, <2>2 DEF FailCommand, TypeOK, driverVars
<1>13. ASSUME NEW p \in Ports, PlugIn(p) PROVE TypeOK'
  <2>1. portsc' \in [Ports -> PortStatus]
    <3>1. (p \in SuperSpeedPorts) \in BOOLEAN /\ portsc[p] \in PortStatus
      BY <1>0 DEF TypeOK
    <3>2. [portsc[p] EXCEPT !.ccs = TRUE, !.csc = TRUE, !.ped = p \in SuperSpeedPorts]
            \in PortStatus
      BY <3>1, PortStatusType, Zenon
    <3> QED
      BY <1>13, <3>2, <1>d DEF PlugIn
  <2>2. events' \in Seq(Events)
    BY <1>0, <1>13, ReportType DEF PlugIn
  <2> QED
    BY <1>0, <1>13, <2>1, <2>2 DEF PlugIn, TypeOK, driverVars, budgetVars
<1>14. ASSUME NEW p \in Ports, PullOut(p) PROVE TypeOK'
  <2>1. portsc' \in [Ports -> PortStatus]
    BY <1>0, <1>14, <1>d, PortStatusType DEF PullOut, TypeOK
  <2>2. events' \in Seq(Events)
    BY <1>0, <1>14, ReportType DEF PullOut
  <2>3. addr' \in [Ports -> 0 .. NumSlots] /\ unplugs' \in 0 .. MaxUnplugs
    BY <1>0, <1>14 DEF PullOut, TypeOK
  <2> QED
    BY <1>0, <1>14, <2>1, <2>2, <2>3 DEF PullOut, TypeOK, driverVars
<1>15. ASSUME NEW p \in Ports, ResetDone(p) PROVE TypeOK'
  <2>1. portsc' \in [Ports -> PortStatus]
    BY <1>0, <1>15, <1>d, PortStatusType DEF ResetDone, TypeOK
  <2>2. events' \in Seq(Events)
    BY <1>0, <1>15, ReportType DEF ResetDone
  <2> QED
    BY <1>0, <1>15, <2>1, <2>2 DEF ResetDone, TypeOK, driverVars, budgetVars
<1>16. ASSUME NEW s \in Slots, NEW t \in Transfers, CompleteTransfer(s, t) PROVE TypeOK'
  <2>1. dev[s] \in Devices
    BY <1>0, <1>a DEF TypeOK
  <2>2. events' \in Seq(Events)
    <3>1. \E ok \in BOOLEAN : events' = Append(events, TransferEvent(t, s, ok))
      BY <1>16 DEF CompleteTransfer
    <3> QED
      BY <1>0, <3>1, TransferEventType DEF TypeOK
  <2>3. dev' \in [0 .. NumSlots -> Devices]
    <3>1. PICK n \in Nat : dev' = [dev EXCEPT ![s] = Pending(dev[s], t, n)]
      <4>1. dev[s].tds[t] \in Nat /\ dev[s].tds[t] > 0
        BY <1>16, <2>1 DEF CompleteTransfer, Devices
      <4>2. dev[s].tds[t] - 1 \in Nat
        BY <4>1
      <4> QED
        BY <1>16, <4>2 DEF CompleteTransfer
    <3>2. Pending(dev[s], t, n) \in Devices
      BY <2>1, PendingType
    <3> QED
      BY <3>1, <3>2, <1>a, <1>c
  <2>4. faults' \in 0 .. MaxFaults
    <3>1. faults' = faults \/ (faults < MaxFaults /\ faults' = faults + 1)
      BY <1>16 DEF CompleteTransfer
    <3> QED
      BY <1>0, <3>1 DEF TypeOK
  <2> QED
    BY <1>0, <1>16, <2>2, <2>3, <2>4 DEF CompleteTransfer, TypeOK
<1>17. CASE UNCHANGED vars
  BY <1>0, <1>17 DEF TypeOK, vars, driverVars, hwVars, budgetVars
<1> QED
  BY <1>1, <1>2, <1>3, <1>4, <1>5, <1>6, <1>7, <1>8, <1>9, <1>10, <1>11, <1>12, <1>13, <1>14,
     <1>15, <1>16, <1>17 DEF Next, Driver, ExecCommand

-----------------------------------------------------------------------------
(* The critical section *)

LEMMA InitControl == Init => ControlInv
<1> SUFFICES ASSUME Init PROVE ControlInv
  OBVIOUS
<1>1. /\ phase = [p \in 0 .. NumPorts |-> "NotConnected"]
      /\ addressing = 0 /\ pc = "Boot" /\ bootPort = 1
  BY DEF Init
<1>2. BootInv /\ ResetInv
  BY <1>1, PortConfigAssumption DEF BootInv, ResetInv, Resetting, Ports
<1>3. AddressingExclusive
  BY <1>1, PortConfigAssumption DEF AddressingExclusive, InSequence, Leaving, Ports
<1> QED
  BY <1>1, <1>2, <1>3, PortConfigAssumption DEF ControlInv

(* Between two resets, what is left of ControlInv. *)
LEMMA ControlQuiet ==
  ASSUME ControlInv, pc \in {"Boot", "Loop"}
  PROVE  /\ phase[0] = "NotConnected"
         /\ \A p \in Ports : phase[p] \in InSequence <=> p = addressing
BY DEF ControlInv, AddressingExclusive, Leaving

LEMMA ControlLoop ==
  ASSUME pc' = "Loop", phase'[0] = "NotConnected",
         \A p \in Ports : phase'[p] \in InSequence <=> p = addressing'
  PROVE  ControlInv'
BY DEF ControlInv, BootInv, ResetInv, Resetting, AddressingExclusive, Leaving

LEMMA ControlUnchanged ==
  ASSUME ControlInv, UNCHANGED <<phase, addressing, pc, after, bootPort>>,
         pc # "Loop" /\ events # <<>> => events' # <<>>
  PROVE  ControlInv'
BY DEF ControlInv, BootInv, ResetInv, Resetting, AddressingExclusive, Leaving

LEMMA AppendNotEmpty ==
  ASSUME TypeOK, NEW e, events' = Append(events, e)
  PROVE  events' # <<>>
<1>1. events \in Seq(Events)
  BY DEF TypeOK
<1>2. Len(events') = Len(events) + 1 /\ Len(events) \in Nat
  BY <1>1
<1> QED
  BY <1>2

LEMMA HandlersQuiet ==
  ASSUME ControlInv, TypeOK, HasEvent
  PROVE  /\ pc = "Loop" /\ phase[0] = "NotConnected" /\ addressing \in 0 .. NumPorts
         /\ \A p \in Ports : phase[p] \in InSequence <=> p = addressing
         /\ phase \in [0 .. NumPorts -> Phases]
         /\ Front \in Events
BY ControlQuiet, FrontType DEF HasEvent, TypeOK

LEMMA BootStep == IInv /\ BootPort => ControlInv'
<1> SUFFICES ASSUME IInv, BootPort PROVE ControlInv'
  OBVIOUS
<1> USE PortConfigAssumption DEF Ports
<1>1. /\ TypeOK /\ pc = "Boot" /\ bootPort \in Ports /\ phase[0] = "NotConnected"
      /\ \A p \in Ports : phase[p] \in InSequence <=> p = addressing
      /\ \A p \in Ports : p >= bootPort => phase[p] = "NotConnected"
  BY ControlQuiet DEF IInv, BootPort, ControlInv, BootInv
<1>2. phase \in [0 .. NumPorts -> Phases] /\ addressing \in 0 .. NumPorts
  BY <1>1 DEF TypeOK
<1>3. CASE Idle /\ BeginReset(bootPort, Nowhere) /\ UNCHANGED bootPort
  <2>1. /\ addressing' = bootPort /\ pc' = "Reset" /\ after'.to = "Boot"
        /\ phase' = [phase EXCEPT ![bootPort] = "ResettingPort"] /\ addressing = 0
    BY <1>3 DEF BeginReset, Nowhere, Idle
  <2>2. BootInv' /\ ResetInv'
    BY <1>1, <1>2, <1>3, <2>1 DEF BootInv, ResetInv, Resetting
  <2>3. AddressingExclusive'
    BY <1>1, <1>2, <2>1 DEF AddressingExclusive, Leaving, InSequence
  <2> QED
    BY <1>1, <1>2, <2>1, <2>2, <2>3 DEF ControlInv
<1>4. CASE Queue(bootPort) /\ NextBootPort
  <2>1. /\ addressing' = addressing /\ pc' \in {"Boot", "Loop"} /\ bootPort' = bootPort + 1
        /\ phase' = [phase EXCEPT ![bootPort] = "WaitingAddressed"]
        /\ pc' = "Boot" => bootPort # NumPorts
    BY <1>4 DEF Queue, NextBootPort
  <2>2. BootInv' /\ ResetInv'
    BY <1>1, <1>2, <2>1 DEF BootInv, ResetInv, Resetting
  <2>3. AddressingExclusive'
    BY <1>1, <1>2, <2>1 DEF AddressingExclusive, Leaving, InSequence
  <2> QED
    BY <1>1, <1>2, <2>1, <2>2, <2>3 DEF ControlInv
<1>5. CASE NextBootPort /\ UNCHANGED <<phase, addressing, after>>
  <2>1. /\ pc' \in {"Boot", "Loop"} /\ bootPort' = bootPort + 1
        /\ pc' = "Boot" => bootPort # NumPorts
    BY <1>5 DEF NextBootPort
  <2>2. BootInv' /\ ResetInv'
    BY <1>1, <1>5, <2>1 DEF BootInv, ResetInv, Resetting
  <2>3. AddressingExclusive'
    BY <1>1, <1>5, <2>1 DEF AddressingExclusive, Leaving
  <2> QED
    BY <1>1, <1>5, <2>2, <2>3 DEF ControlInv
<1> QED
  BY <1>3, <1>4, <1>5 DEF BootPort

LEMMA ResetStep == IInv /\ (WriteReset \/ FinishReset) => ControlInv'
<1> SUFFICES ASSUME IInv, WriteReset \/ FinishReset PROVE ControlInv'
  OBVIOUS
<1> USE PortConfigAssumption DEF Ports
<1>1. TypeOK /\ ControlInv
  BY DEF IInv
<1>2. /\ Resetting /\ phase[0] = "NotConnected" /\ addressing \in Ports
      /\ phase[addressing] = "ResettingPort"
      /\ phase \in [0 .. NumPorts -> Phases]
  BY <1>1 DEF WriteReset, FinishReset, Resetting, ControlInv, ResetInv, TypeOK
<1>3. CASE WriteReset
  BY <1>1, <1>2, <1>3
     DEF WriteReset, ControlInv, BootInv, ResetInv, Resetting, AddressingExclusive, Leaving
<1>4. CASE FinishReset
  <2>1. CASE after.to = "Boot"
    <3>1. /\ UNCHANGED <<phase, addressing>> /\ bootPort' = bootPort + 1
          /\ pc' \in {"Boot", "Loop"} /\ (pc' = "Boot" => bootPort # NumPorts)
      BY <1>4, <2>1 DEF FinishReset, NextBootPort
    <3>2. bootPort \in Ports /\ \A p \in Ports : p > bootPort => phase[p] = "NotConnected"
      BY <1>1, <1>2, <2>1 DEF ControlInv, BootInv
    <3>3. BootInv' /\ ResetInv'
      BY <3>1, <3>2 DEF BootInv, ResetInv, Resetting
    <3>4. AddressingExclusive'
      BY <1>1, <2>1, <3>1 DEF ControlInv, AddressingExclusive, Leaving
    <3> QED
      BY <1>2, <3>1, <3>3, <3>4 DEF ControlInv
  <2>2. CASE after.to = "Loop"
    <3>1. pc' = "Loop" /\ UNCHANGED <<phase, addressing>>
      BY <1>4, <2>2 DEF FinishReset
    <3>2. \A p \in Ports : phase[p] \in InSequence <=> p = addressing
      BY <1>1, <2>2 DEF ControlInv, AddressingExclusive, Leaving
    <3> QED
      BY <1>2, <3>1, <3>2, ControlLoop
  <2>3. CASE after.to = "Init"
    <3>1. /\ pc' = "Loop" /\ UNCHANGED addressing
          /\ phase' = [phase EXCEPT ![after.port] = "InitializingDevice"]
      BY <1>4, <2>3 DEF FinishReset
    <3>2. after.port \in Ports \ {addressing}
      BY <1>1, <1>2, <2>3 DEF ControlInv, ResetInv
    <3>3. \A p \in Ports : phase[p] \in InSequence <=> p = addressing \/ p = after.port
      BY <1>1, <1>2, <2>3 DEF ControlInv, AddressingExclusive, Leaving, Resetting
    <3>4. \A p \in Ports : phase'[p] \in InSequence <=> p = addressing'
      BY <1>2, <3>1, <3>2, <3>3 DEF InSequence
    <3> QED
      BY <1>2, <3>1, <3>2, <3>4, ControlLoop
  <2> QED
    BY <1>4, <2>1, <2>2, <2>3 DEF FinishReset
<1> QED
  BY <1>3, <1>4

LEMMA PortEventStep == IInv /\ OnPortStatusChange => ControlInv'
<1> SUFFICES ASSUME IInv, OnPortStatusChange PROVE ControlInv'
  OBVIOUS
<1> USE PortConfigAssumption DEF Ports
<1> DEFINE p0 == Front.port
<1>1. /\ TypeOK /\ ControlInv /\ HasEvent /\ events # <<>>
  BY DEF IInv, OnPortStatusChange, HasEvent
<1>2. /\ pc = "Loop" /\ phase[0] = "NotConnected" /\ addressing \in 0 .. NumPorts
      /\ \A p \in Ports : phase[p] \in InSequence <=> p = addressing
      /\ phase \in [0 .. NumPorts -> Phases]
  BY <1>1, HandlersQuiet
<1>3. p0 \in Ports
  BY <1>1, FrontType DEF OnPortStatusChange, Events
<1>4. CASE OnPlugged(p0)
  <2>1. phase[p0] = "NotConnected"
    BY <1>4 DEF OnPlugged, IsFresh
  <2>2. CASE Idle /\ BeginReset(p0, BackToLoop) /\ UNCHANGED events
    <3>1. /\ addressing = 0 /\ addressing' = p0 /\ pc' = "Reset" /\ after'.to = "Loop"
          /\ phase' = [phase EXCEPT ![p0] = "ResettingPort"]
      BY <2>2 DEF Idle, BeginReset, BackToLoop
    <3>2. BootInv' /\ ResetInv'
      BY <1>1, <1>2, <1>3, <2>2, <3>1 DEF BootInv, ResetInv, Resetting
    <3>3. AddressingExclusive'
      BY <1>2, <1>3, <3>1 DEF AddressingExclusive, Leaving, InSequence
    <3> QED
      BY <1>2, <1>3, <3>1, <3>2, <3>3 DEF ControlInv
  <2>3. CASE Queue(p0) /\ UNCHANGED pc
    <3>1. /\ UNCHANGED <<addressing, pc>>
          /\ phase' = [phase EXCEPT ![p0] = "WaitingAddressed"]
      BY <2>3 DEF Queue
    <3>2. \A p \in Ports : phase'[p] \in InSequence <=> p = addressing'
      BY <1>2, <1>3, <2>1, <3>1 DEF InSequence
    <3> QED
      BY <1>2, <1>3, <3>1, <3>2, ControlLoop
  <2> QED
    BY <1>4, <2>2, <2>3 DEF OnPlugged
<1>5. CASE OnPortReset(p0)
  <2>1. /\ UNCHANGED <<addressing, pc>> /\ phase[p0] = "ResettingPort"
        /\ phase' = [phase EXCEPT ![p0] = "EnablingSlot"]
    BY <1>5 DEF OnPortReset
  <2>2. \A p \in Ports : phase'[p] \in InSequence <=> p = addressing'
    BY <1>2, <1>3, <2>1 DEF InSequence
  <2> QED
    BY <1>2, <1>3, <2>1, <2>2, ControlLoop
<1>6. CASE Ignore
  BY <1>1, <1>2, <1>6, ControlUnchanged DEF Ignore, driverVars
<1> QED
  BY <1>4, <1>5, <1>6 DEF OnPortStatusChange

LEMMA CommandEventStep ==
  IInv /\ (OnEnableSlot \/ OnAddressDevice \/ OnConfigureEndpoint) => ControlInv'
<1> SUFFICES ASSUME IInv, OnEnableSlot \/ OnAddressDevice \/ OnConfigureEndpoint
             PROVE  ControlInv'
  OBVIOUS
<1> USE PortConfigAssumption DEF Ports
<1> DEFINE s == Front.slot
           q == dev[s].port
<1>1. TypeOK /\ ControlInv /\ HasEvent /\ events # <<>>
  BY DEF IInv, OnEnableSlot, OnAddressDevice, OnConfigureEndpoint, HasEvent
<1>2. /\ pc = "Loop" /\ phase[0] = "NotConnected" /\ addressing \in 0 .. NumPorts
      /\ \A p \in Ports : phase[p] \in InSequence <=> p = addressing
      /\ phase \in [0 .. NumPorts -> Phases]
  BY <1>1, HandlersQuiet
<1>3. s \in 0 .. NumSlots
  BY <1>1, FrontType DEF Events, Slots
<1>4. q \in 0 .. NumPorts
  BY <1>1, <1>3 DEF TypeOK, Devices
<1>5. CASE OnEnableSlot
  <2>1. CASE Ignore
    BY <1>1, <1>2, <2>1, ControlUnchanged DEF Ignore, driverVars
  <2>2. CASE ~Ignore
    <3>1. /\ UNCHANGED <<addressing, pc>> /\ phase[addressing] = "EnablingSlot"
          /\ phase' = [phase EXCEPT ![addressing] = "AddressingDevice"]
      BY <1>5, <2>2 DEF OnEnableSlot
    <3>2. \A p \in Ports : phase'[p] \in InSequence <=> p = addressing'
      BY <1>2, <3>1 DEF InSequence
    <3> QED
      BY <1>2, <3>1, <3>2, ControlLoop
  <2> QED
    BY <2>1, <2>2
<1>6. CASE OnAddressDevice
  <2>1. CASE HandsOver(s) /\ \E w \in WaitingPorts :
               BeginReset(w, [to |-> "Init", port |-> q, slot |-> s]) /\ UNCHANGED events
    <3>1. PICK w \in Ports :
            /\ phase[w] = "WaitingAddressed" /\ UNCHANGED events
            /\ addressing' = w /\ pc' = "Reset"
            /\ phase' = [phase EXCEPT ![w] = "ResettingPort"]
            /\ after' = [to |-> "Init", port |-> q, slot |-> s]
      BY <2>1 DEF WaitingPorts, BeginReset
    <3>2. q = addressing /\ phase[q] = "AddressingDevice" /\ q \in Ports /\ q # w
      BY <1>2, <1>4, <2>1, <3>1 DEF HandsOver
    <3>3. after'.to = "Init" /\ after'.port = q
      BY <3>1
    <3>4. BootInv' /\ ResetInv'
      BY <1>1, <1>2, <3>1, <3>2, <3>3 DEF BootInv, ResetInv, Resetting
    <3>5. AddressingExclusive'
      BY <1>2, <3>1, <3>2, <3>3 DEF AddressingExclusive, Leaving, InSequence
    <3> QED
      BY <1>2, <3>1, <3>4, <3>5 DEF ControlInv
  <2>2. CASE /\ HandsOver(s) /\ addressing' = 0 /\ UNCHANGED pc
             /\ phase' = [phase EXCEPT ![q] = "InitializingDevice"]
    <3>1. q = addressing /\ phase[q] = "AddressingDevice" /\ q \in Ports
      BY <1>2, <1>4, <2>2 DEF HandsOver
    <3>2. \A p \in Ports : phase'[p] \in InSequence <=> p = addressing'
      BY <1>2, <2>2, <3>1 DEF InSequence
    <3> QED
      BY <1>2, <2>2, <3>1, <3>2, ControlLoop
  <2>3. CASE UNCHANGED <<phase, addressing, pc, after>>
    BY <1>1, <1>2, <1>6, <2>3, ControlUnchanged DEF OnAddressDevice
  <2> QED
    BY <1>6, <2>1, <2>2, <2>3 DEF OnAddressDevice
<1>7. CASE OnConfigureEndpoint
  <2>1. CASE Ignore
    BY <1>1, <1>2, <2>1, ControlUnchanged DEF Ignore, driverVars
  <2>2. CASE ~Ignore
    <3>1. /\ UNCHANGED <<addressing, pc>> /\ phase[q] = "ConfiguringEndpoints"
          /\ phase' = [phase EXCEPT ![q] = "Configured"]
      BY <1>7, <2>2 DEF OnConfigureEndpoint
    <3>2. \A p \in Ports : phase'[p] \in InSequence <=> p = addressing'
      <4>1. phase[q] \notin InSequence /\ "Configured" \notin InSequence
        BY <3>1 DEF InSequence
      <4>2. \A p \in Ports : phase'[p] \in InSequence <=> phase[p] \in InSequence
        <5> HIDE DEF q
        <5> QED
          BY <1>2, <3>1, <4>1, PortConfigAssumption DEF Ports
      <4> QED
        BY <1>2, <3>1, <4>2
    <3> QED
      BY <1>2, <1>4, <3>1, <3>2, ControlLoop
  <2> QED
    BY <2>1, <2>2
<1> QED
  BY <1>5, <1>6, <1>7

LEMMA TransferEventStep == IInv /\ OnTransfer => ControlInv'
<1> SUFFICES ASSUME IInv, OnTransfer PROVE ControlInv'
  OBVIOUS
<1> USE PortConfigAssumption DEF Ports
<1> DEFINE s == Front.slot
           d == Reaction(dev[s], Front.of)
<1>1. TypeOK /\ ControlInv /\ HasEvent /\ events # <<>>
  BY DEF IInv, OnTransfer, HasEvent
<1>2. /\ pc = "Loop" /\ phase[0] = "NotConnected" /\ addressing \in 0 .. NumPorts
      /\ \A p \in Ports : phase[p] \in InSequence <=> p = addressing
      /\ phase \in [0 .. NumPorts -> Phases]
  BY <1>1, HandlersQuiet
<1>3. CASE UNCHANGED phase
  BY <1>1, <1>2, <1>3, ControlUnchanged DEF OnTransfer, Ignore, driverVars
<1>4. CASE NeedsEndpoints(d) /\ ConfigureEndpoints(s, d.port) /\ UNCHANGED <<addressing, pc>>
  <2>1. s \in 0 .. NumSlots
    BY <1>1, FrontType DEF Events, Slots
  <2>2. dev[s] \in Devices
    BY <1>1, <2>1 DEF TypeOK
  <2>3. d.port \in 0 .. NumPorts
    BY <2>2, ReactionType DEF Devices
  <2>4. /\ phase[d.port] = "InitializingDevice"
        /\ phase' = [phase EXCEPT ![d.port] = "ConfiguringEndpoints"]
    BY <1>4 DEF NeedsEndpoints, ConfigureEndpoints
  <2> HIDE DEF d
  <2>5. \A p \in Ports : phase'[p] \in InSequence <=> p = addressing'
    BY <1>2, <1>4, <2>3, <2>4 DEF InSequence
  <2> QED
    BY <1>2, <1>4, <2>3, <2>4, <2>5, ControlLoop
<1> QED
  BY <1>3, <1>4 DEF OnTransfer, Ignore, driverVars

LEMMA ControlStep == IInv /\ [Next]_vars => ControlInv'
<1> SUFFICES ASSUME IInv, [Next]_vars PROVE ControlInv'
  OBVIOUS
<1>0. TypeOK /\ ControlInv
  BY DEF IInv
<1>1. CASE Driver
  BY <1>1, BootStep, ResetStep, PortEventStep, CommandEventStep, TransferEventStep DEF Driver
<1>2. CASE ExecCommand
  <2>1. UNCHANGED <<phase, addressing, pc, after, bootPort>>
    BY <1>2 DEF ExecCommand, ExecEnableSlot, ExecAddressDevice, ExecConfigureEndpoint,
       FailCommand, driverVars
  <2>2. \E e : events' = Append(events, e)
    BY <1>2 DEF ExecCommand, ExecEnableSlot, ExecAddressDevice, ExecConfigureEndpoint,
       FailCommand, Complete
  <2>3. events' # <<>>
    BY <1>0, <2>2, AppendNotEmpty
  <2> QED
    BY <1>0, <2>1, <2>3, ControlUnchanged
<1>3. ASSUME NEW p \in Ports, PlugIn(p) \/ PullOut(p) \/ ResetDone(p) PROVE ControlInv'
  <2>1. UNCHANGED <<phase, addressing, pc, after, bootPort>>
    BY <1>3 DEF PlugIn, PullOut, ResetDone, driverVars
  <2>2. events' = events \/ events' = Append(events, PortEvent(p))
    BY <1>3 DEF PlugIn, PullOut, ResetDone, Report
  <2>3. events # <<>> => events' # <<>>
    BY <1>0, <2>2, AppendNotEmpty
  <2> QED
    BY <1>0, <2>1, <2>3, ControlUnchanged
<1>4. ASSUME NEW s \in Slots, NEW k \in Transfers, CompleteTransfer(s, k) PROVE ControlInv'
  <2>1. UNCHANGED <<phase, addressing, pc, after, bootPort>>
    BY <1>4 DEF CompleteTransfer
  <2>2. \E e : events' = Append(events, e)
    BY <1>4 DEF CompleteTransfer
  <2>3. events' # <<>>
    BY <1>0, <2>2, AppendNotEmpty
  <2> QED
    BY <1>0, <2>1, <2>3, ControlUnchanged
<1>5. CASE UNCHANGED vars
  BY <1>0, <1>5, ControlUnchanged DEF vars, driverVars, hwVars
<1> QED
  BY <1>1, <1>2, <1>3, <1>4, <1>5 DEF Next

-----------------------------------------------------------------------------
(* The phases *)

LEMMA PhaseStep ==
  IInv /\ [Next]_vars =>
    \A p \in 0 .. NumPorts : phase'[p] = phase[p] \/ <<phase[p], phase'[p]>> \in Successor
<1> SUFFICES ASSUME IInv, [Next]_vars
             PROVE  \A p \in 0 .. NumPorts :
                      phase'[p] = phase[p] \/ <<phase[p], phase'[p]>> \in Successor
  OBVIOUS
<1>0. TypeOK /\ ControlInv /\ phase \in [0 .. NumPorts -> Phases]
  BY DEF IInv, TypeOK
<1>1. \/ phase' = phase
      \/ \E q, x : phase' = [phase EXCEPT ![q] = x] /\ <<phase[q], x>> \in Successor
  <2>1. CASE BootPort
    <3>1. phase[bootPort] = "NotConnected"
      BY <1>0, <2>1 DEF BootPort, ControlInv, BootInv, Ports
    <3> QED
      BY <2>1, <3>1 DEF BootPort, BeginReset, Queue, Successor
  <2>2. CASE FinishReset
    <3>1. after.to = "Init" => phase[after.port] = "AddressingDevice"
      BY <1>0, <2>2 DEF FinishReset, ControlInv, ResetInv, Resetting
    <3> QED
      BY <2>2, <3>1 DEF FinishReset, Successor
  <2>3. CASE OnPortStatusChange
    BY <2>3 DEF OnPortStatusChange, OnPlugged, OnPortReset, BeginReset, Queue, IsFresh, Ignore,
       driverVars, Successor
  <2>4. CASE OnEnableSlot
    BY <2>4 DEF OnEnableSlot, Ignore, driverVars, Successor
  <2>5. CASE OnAddressDevice
    BY <2>5 DEF OnAddressDevice, BeginReset, WaitingPorts, HandsOver, Successor
  <2>6. CASE OnConfigureEndpoint
    BY <2>6 DEF OnConfigureEndpoint, Ignore, driverVars, Successor
  <2>7. CASE OnTransfer
    BY <2>7 DEF OnTransfer, NeedsEndpoints, ConfigureEndpoints, Ignore, driverVars, Successor
  <2>8. CASE WriteReset \/ ExecCommand \/ UNCHANGED vars
    BY <2>8 DEF WriteReset, ExecCommand, ExecEnableSlot, ExecAddressDevice,
       ExecConfigureEndpoint, FailCommand, driverVars, vars
  <2>9. ASSUME NEW p \in Ports, PlugIn(p) \/ PullOut(p) \/ ResetDone(p) PROVE phase' = phase
    BY <2>9 DEF PlugIn, PullOut, ResetDone, driverVars
  <2>10. ASSUME NEW t \in Slots, NEW k \in Transfers, CompleteTransfer(t, k) PROVE phase' = phase
    BY <2>10 DEF CompleteTransfer
  <2> QED
    BY <2>1, <2>2, <2>3, <2>4, <2>5, <2>6, <2>7, <2>8, <2>9, <2>10 DEF Next, Driver
<1> QED
  BY <1>0, <1>1

LEMMA LateStep ==
  ASSUME IInv, [Next]_vars, NEW p \in 0 .. NumPorts, phase[p] \notin Early
  PROVE  phase'[p] \notin Early
BY PhaseStep DEF Successor, Early

-----------------------------------------------------------------------------
(* The default address *)

LEMMA InitDefault == Init => DefaultAddressInv
<1> SUFFICES ASSUME Init PROVE DefaultAddressInv
  OBVIOUS
<1>1. \A p \in Ports : ~portsc[p].pr /\ (p \notin SuperSpeedPorts => ~portsc[p].ped)
  <2>1. PICK C \in SUBSET Ports :
          portsc = [p \in Ports |-> [ccs |-> p \in C, csc |-> p \in C,
                                     ped |-> p \in C \cap SuperSpeedPorts,
                                     pr |-> FALSE, prc |-> FALSE]]
    BY DEF Init
  <2>2. \A p \in Ports : portsc[p].pr = FALSE /\ portsc[p].ped = (p \in C \cap SuperSpeedPorts)
    BY <2>1
  <2> QED
    BY <2>2
<1>2. \A s \in 0 .. NumSlots : dev[s].port = 0
  BY DEF Init, NoDevice
<1>3. Len(cmds) = 0
  BY DEF Init
<1> QED
  BY <1>1, <1>2, <1>3
     DEF DefaultAddressInv, ResetHolder, EnabledHolder, AddressCommands, OutputContexts

LEMMA ResetHolderStep == IInv /\ [Next]_vars => ResetHolder'
<1> SUFFICES ASSUME IInv, [Next]_vars PROVE ResetHolder'
  OBVIOUS
<1>0. TypeOK /\ ControlInv /\ ResetHolder /\ portsc \in [Ports -> PortStatus]
  BY DEF IInv, DefaultAddressInv, TypeOK
<1>1. CASE WriteReset
  <2>1. UNCHANGED addressing /\ pc' = "Spin"
    BY <1>1 DEF WriteReset
  <2>2. \A p \in Ports : p # addressing => portsc'[p] = portsc[p]
    BY <1>0, <1>1 DEF WriteReset
  <2> QED
    BY <1>0, <2>1, <2>2 DEF ResetHolder
<1>2. CASE FinishReset
  BY <1>0, <1>2 DEF FinishReset, ResetHolder
<1>3. CASE pc \in {"Boot", "Loop"} /\ Driver
  <2>1. \A p \in Ports : ~portsc[p].pr
    BY <1>0, <1>3 DEF ResetHolder
  <2>2. portsc' = portsc \/ \E p : portsc' = [portsc EXCEPT ![p] = [portsc[p] EXCEPT !.prc = FALSE]]
    BY <1>3 DEF Driver, BootPort, WriteReset, FinishReset, OnPortStatusChange, OnPlugged,
       OnPortReset, OnEnableSlot, OnAddressDevice, OnConfigureEndpoint, OnTransfer, Ignore, hwVars
  <2>3. \A p \in Ports : ~portsc'[p].pr
    BY <1>0, <2>1, <2>2 DEF PortStatus
  <2> QED
    BY <2>3 DEF ResetHolder
<1>4. CASE Driver
  BY <1>1, <1>2, <1>3, <1>4 DEF Driver, BootPort, OnPortStatusChange, OnEnableSlot,
     OnAddressDevice, OnConfigureEndpoint, OnTransfer, HasEvent
<1>5. CASE ExecCommand
  BY <1>0, <1>5 DEF ExecCommand, ExecEnableSlot, ExecAddressDevice, ExecConfigureEndpoint,
     FailCommand, driverVars, ResetHolder
<1>6. ASSUME NEW q \in Ports, PlugIn(q) \/ PullOut(q) \/ ResetDone(q) PROVE ResetHolder'
  <2>1. UNCHANGED <<addressing, pc>>
    BY <1>6 DEF PlugIn, PullOut, ResetDone, driverVars
  <2>2. \A p \in Ports : portsc'[p].pr => portsc[p].pr
    <3>1. CASE PlugIn(q)
      BY <1>0, <3>1 DEF PlugIn, PortStatus
    <3>2. CASE PullOut(q)
      BY <1>0, <3>2 DEF PullOut, PortStatus
    <3>3. CASE ResetDone(q)
      BY <1>0, <3>3 DEF ResetDone, PortStatus
    <3> QED
      BY <1>6, <3>1, <3>2, <3>3
  <2> QED
    BY <1>0, <2>1, <2>2 DEF ResetHolder
<1>7. ASSUME NEW t \in Slots, NEW k \in Transfers, CompleteTransfer(t, k) PROVE ResetHolder'
  BY <1>0, <1>7 DEF CompleteTransfer, ResetHolder
<1>8. CASE UNCHANGED vars
  BY <1>0, <1>8 DEF vars, driverVars, hwVars, ResetHolder
<1> QED
  BY <1>4, <1>5, <1>6, <1>7, <1>8 DEF Next

(* The slot number of an AddressDevice command that works is not 0. *)
LEMMA ExecAddress ==
  ASSUME TypeOK, ExecAddressDevice
  PROVE  LET c == Head(cmds) IN
         /\ c = cmds[1] /\ 1 \in 1 .. Len(cmds) /\ c.kind = "AddressDevice"
         /\ c.slot \in 1 .. NumSlots
         /\ UNCHANGED <<phase, addressing, pc, portsc>>
         /\ addr' = [addr EXCEPT ![c.port] = c.slot]
         /\ dev' = [dev EXCEPT ![c.slot] = [dev[c.slot] EXCEPT !.port = c.port]]
         /\ cmds' = Tail(cmds)
<1> DEFINE c == Head(cmds)
<1>1. cmds \in Seq(CommandTRBs) /\ cmds # <<>> /\ c.kind = "AddressDevice" /\ Works(c)
  BY DEF TypeOK, ExecAddressDevice
<1>2. c \in CommandTRBs /\ c = cmds[1] /\ 1 \in 1 .. Len(cmds)
  BY <1>1
<1>3. c.slot \in 0 .. NumSlots
  BY <1>2 DEF CommandTRBs
<1>4. c.slot # 0
  <2> HIDE DEF c
  <2> QED
    BY <1>1 DEF Works
<1>5. c.slot \in 1 .. NumSlots
  <2> HIDE DEF c
  <2> QED
    BY <1>3, <1>4, PortConfigAssumption
<1> QED
  BY <1>1, <1>2, <1>5 DEF ExecAddressDevice, Complete

(* No other step changes a port number in an output context ... *)
LEMMA DevicePorts ==
  ASSUME IInv, [Next]_vars, ~ExecAddressDevice, NEW s \in 0 .. NumSlots
  PROVE  dev'[s].port = dev[s].port
<1>0. TypeOK /\ dev \in [0 .. NumSlots -> Devices]
  BY DEF IInv, TypeOK
<1>1. \/ dev' = dev
      \/ \E t : dev' = [dev EXCEPT ![t] = Started(dev[t])]
      \/ \E t : dev' = [dev EXCEPT ![t] = [dev[t] EXCEPT !.alloc = TRUE]]
      \/ \E t : dev' = [dev EXCEPT ![t] = ClassStarted(dev[t])]
      \/ \E t \in Slots, k \in Transfers, n \in Nat :
           dev' = [dev EXCEPT ![t] = Pending(dev[t], k, n)]
      \/ \E t, of : dev' = [dev EXCEPT ![t] = Reaction(dev[t], of)]
  <2>1. CASE Driver
    <3>1. CASE BootPort \/ WriteReset \/ OnPortStatusChange
      BY <3>1 DEF BootPort, WriteReset, OnPortStatusChange, OnPlugged, OnPortReset, Ignore,
         driverVars
    <3>2. CASE FinishReset
      BY <3>2 DEF FinishReset
    <3>3. CASE OnEnableSlot
      BY <3>3 DEF OnEnableSlot, Ignore, driverVars
    <3>4. CASE OnAddressDevice
      BY <3>4 DEF OnAddressDevice
    <3>5. CASE OnConfigureEndpoint
      BY <3>5 DEF OnConfigureEndpoint, Ignore, driverVars
    <3>6. CASE OnTransfer
      BY <3>6 DEF OnTransfer, Ignore, driverVars
    <3> QED
      BY <2>1, <3>1, <3>2, <3>3, <3>4, <3>5, <3>6 DEF Driver
  <2>2. CASE ExecCommand
    BY <2>2 DEF ExecCommand, ExecEnableSlot, ExecConfigureEndpoint, FailCommand, driverVars
  <2>3. ASSUME NEW p \in Ports, PlugIn(p) \/ PullOut(p) \/ ResetDone(p) PROVE dev' = dev
    BY <2>3 DEF PlugIn, PullOut, ResetDone, driverVars
  <2>4. ASSUME NEW t \in Slots, NEW k \in Transfers, CompleteTransfer(t, k)
        PROVE  \E n \in Nat : dev' = [dev EXCEPT ![t] = Pending(dev[t], k, n)]
    <3>1. t \in 0 .. NumSlots
      BY PortConfigAssumption DEF Slots
    <3>2. dev[t].tds[k] \in Nat /\ dev[t].tds[k] > 0
      BY <1>0, <2>4, <3>1 DEF CompleteTransfer, Devices
    <3>3. dev[t].tds[k] - 1 \in Nat
      BY <3>2
    <3> QED
      BY <2>4, <3>3 DEF CompleteTransfer
  <2>5. CASE UNCHANGED vars
    BY <2>5 DEF vars, driverVars
  <2> QED
    BY <2>1, <2>2, <2>3, <2>4, <2>5 DEF Next
<1>2. dev[s] \in Devices
  BY <1>0
<1>3. \A of : Reaction(dev[s], of).port = dev[s].port
  BY <1>2, ReactionType
<1>4. /\ Started(dev[s]).port = dev[s].port
      /\ [dev[s] EXCEPT !.alloc = TRUE].port = dev[s].port
      /\ ClassStarted(dev[s]).port = dev[s].port
      /\ \A k \in Transfers, n \in Nat : Pending(dev[s], k, n).port = dev[s].port
  <2>1. Started(dev[s]).port = dev[s].port
    BY <1>2, StartedType
  <2>2. [dev[s] EXCEPT !.alloc = TRUE].port = dev[s].port
    BY <1>2, AllocatedType
  <2>3. ClassStarted(dev[s]).port = dev[s].port
    BY <1>2, ClassStartedType
  <2>4. \A k \in Transfers, n \in Nat : Pending(dev[s], k, n).port = dev[s].port
    BY <1>2, PendingType
  <2> QED
    BY <2>1, <2>2, <2>3, <2>4
<1>5. ASSUME NEW t, NEW d, dev' = [dev EXCEPT ![t] = d], t = s => d.port = dev[s].port
      PROVE  dev'[s].port = dev[s].port
  BY <1>0, <1>5
<1>6. ASSUME NEW t, dev' = [dev EXCEPT ![t] = Started(dev[t])]
      PROVE  dev'[s].port = dev[s].port
  BY <1>4, <1>5, <1>6, Zenon
<1>7. ASSUME NEW t, dev' = [dev EXCEPT ![t] = [dev[t] EXCEPT !.alloc = TRUE]]
      PROVE  dev'[s].port = dev[s].port
  BY <1>4, <1>5, <1>7, Zenon
<1>8. ASSUME NEW t, dev' = [dev EXCEPT ![t] = ClassStarted(dev[t])]
      PROVE  dev'[s].port = dev[s].port
  BY <1>4, <1>5, <1>8, Zenon
<1>9. ASSUME NEW t, NEW k \in Transfers, NEW n \in Nat,
             dev' = [dev EXCEPT ![t] = Pending(dev[t], k, n)]
      PROVE  dev'[s].port = dev[s].port
  BY <1>4, <1>5, <1>9, Zenon
<1>10. ASSUME NEW t, NEW of, dev' = [dev EXCEPT ![t] = Reaction(dev[t], of)]
       PROVE  dev'[s].port = dev[s].port
  BY <1>3, <1>5, <1>10, Zenon
<1> QED
  BY <1>1, <1>6, <1>7, <1>8, <1>9, <1>10, Zenon

(* ... nor an address, except that it is lost with the port's enabled bit. *)
LEMMA Addresses ==
  ASSUME IInv, [Next]_vars, NEW p \in Ports, ~ResetDone(p), p \notin SuperSpeedPorts, portsc'[p].ped
  PROVE  /\ portsc[p].ped
         /\ addr'[p] = 0 => addr[p] = 0
<1>0. /\ TypeOK /\ portsc \in [Ports -> PortStatus] /\ addr \in [Ports -> 0 .. NumSlots]
      /\ portsc[p] \in PortStatus
  BY DEF IInv, TypeOK
<1>1. CASE WriteReset
  <2>1. p # addressing
    BY <1>0, <1>1 DEF WriteReset, PortStatus
  <2> QED
    BY <1>0, <1>1, <2>1 DEF WriteReset
<1>2. CASE Driver /\ ~WriteReset
  <2>1. /\ addr' = addr
        /\ \/ portsc' = portsc
           \/ \E q : portsc' = [portsc EXCEPT ![q] = [portsc[q] EXCEPT !.prc = FALSE]]
    BY <1>2 DEF Driver, BootPort, FinishReset, OnPortStatusChange, OnPlugged, OnPortReset,
       OnEnableSlot, OnAddressDevice, OnConfigureEndpoint, OnTransfer, Ignore, hwVars
  <2> QED
    BY <1>0, <2>1 DEF PortStatus
<1>3. CASE ExecAddressDevice
  BY <1>0, <1>3, ExecAddress
<1>4. CASE ExecCommand /\ ~ExecAddressDevice
  BY <1>4 DEF ExecCommand, ExecEnableSlot, ExecConfigureEndpoint, FailCommand
<1>5. ASSUME NEW q \in Ports, PlugIn(q) PROVE portsc[p].ped /\ addr' = addr
  <2>1. addr' = addr /\ portsc' = [portsc EXCEPT ![q] =
          [portsc[q] EXCEPT !.ccs = TRUE, !.csc = TRUE, !.ped = q \in SuperSpeedPorts]]
    BY <1>5 DEF PlugIn
  <2>2. p # q
    <3> SUFFICES ASSUME p = q PROVE FALSE
      OBVIOUS
    <3>1. portsc'[p].ped = (p \in SuperSpeedPorts)
      BY <1>0, <2>1 DEF PortStatus
    <3> QED
      BY <3>1
  <2> QED
    BY <1>0, <2>1, <2>2
<1>6. ASSUME NEW q \in Ports, PullOut(q) PROVE portsc[p].ped /\ addr'[p] = addr[p]
  <2>1. p # q
    BY <1>0, <1>6 DEF PullOut, PortStatus
  <2> QED
    BY <1>0, <1>6, <2>1 DEF PullOut
<1>7. ASSUME NEW q \in Ports, ResetDone(q) PROVE portsc[p].ped /\ addr' = addr
  <2>1. p # q
    BY <1>7
  <2> QED
    BY <1>0, <1>7, <2>1 DEF ResetDone
<1>8. ASSUME NEW t \in Slots, NEW k \in Transfers, CompleteTransfer(t, k) PROVE UNCHANGED <<portsc, addr>>
  BY <1>8 DEF CompleteTransfer
<1>9. CASE UNCHANGED vars
  BY <1>9 DEF vars, hwVars
<1> QED
  BY <1>1, <1>2, <1>3, <1>4, <1>5, <1>6, <1>7, <1>8, <1>9 DEF Next

(* A USB2 port without an address keeps the critical section: a handler    *)
(* that leaves it has seen the port in an output context.                  *)
LEMMA HolderStays ==
  ASSUME IInv, [Next]_vars, NEW p \in Ports \ SuperSpeedPorts,
         p = addressing, portsc[p].ped, addr[p] = 0
  PROVE  addressing' = addressing
<1>0. /\ TypeOK /\ OutputContexts /\ addressing # 0
      /\ addressing \in Ports /\ p \notin SuperSpeedPorts
  BY DEF IInv, DefaultAddressInv, TypeOK, Ports
<1>1. \A t \in 0 .. NumSlots : dev[t].port # addressing
  BY <1>0 DEF OutputContexts
<1>2. CASE BootPort
  BY <1>0, <1>2 DEF BootPort, Idle, Queue
<1>3. CASE OnPortStatusChange
  BY <1>0, <1>3 DEF OnPortStatusChange, OnPlugged, OnPortReset, Idle, Queue, Ignore, driverVars
<1>4. CASE OnAddressDevice
  <2>1. Front.slot \in 0 .. NumSlots
    <3>1. Front \in Events /\ Front.type = "Command"
      BY <1>0, <1>4, FrontType DEF OnAddressDevice, HasEvent
    <3> QED
      BY <3>1 DEF Events
  <2>2. ~HandsOver(Front.slot)
    BY <1>1, <2>1 DEF HandsOver
  <2> QED
    BY <1>4, <2>2 DEF OnAddressDevice
<1>5. CASE WriteReset \/ FinishReset
  BY <1>5 DEF WriteReset, FinishReset
<1>6. CASE OnEnableSlot \/ OnConfigureEndpoint \/ OnTransfer
  BY <1>6 DEF OnEnableSlot, OnConfigureEndpoint, OnTransfer, Ignore, driverVars
<1>7. CASE ExecCommand
  BY <1>7 DEF ExecCommand, ExecEnableSlot, ExecAddressDevice, ExecConfigureEndpoint,
     FailCommand, driverVars
<1>8. ASSUME NEW q \in Ports, PlugIn(q) \/ PullOut(q) \/ ResetDone(q)
      PROVE  addressing' = addressing
  BY <1>8 DEF PlugIn, PullOut, ResetDone, driverVars
<1>9. ASSUME NEW t \in Slots, NEW k \in Transfers, CompleteTransfer(t, k) PROVE addressing' = addressing
  BY <1>9 DEF CompleteTransfer
<1>10. CASE UNCHANGED vars
  BY <1>10 DEF vars, driverVars
<1> QED
  BY <1>2, <1>3, <1>4, <1>5, <1>6, <1>7, <1>8, <1>9, <1>10 DEF Next, Driver

LEMMA EnabledHolderStep == IInv /\ [Next]_vars => EnabledHolder'
<1> SUFFICES ASSUME IInv, [Next]_vars, NEW p \in Ports \ SuperSpeedPorts,
                    portsc'[p].ped, addr'[p] = 0
             PROVE  p = addressing'
  BY DEF EnabledHolder
<1>1. CASE ResetDone(p)
  BY <1>1 DEF IInv, DefaultAddressInv, ResetHolder, ResetDone, driverVars
<1>2. CASE ~ResetDone(p)
  <2>1. portsc[p].ped /\ addr[p] = 0
    BY <1>2, Addresses
  <2>2. p = addressing
    BY <2>1 DEF IInv, DefaultAddressInv, EnabledHolder
  <2> QED
    BY <2>1, <2>2, HolderStays
<1> QED
  BY <1>1, <1>2

(* A command is in the ring because it was there, or the event handler     *)
(* that enabled the slot has just rung it in for the port it addresses.    *)
LEMMA CommandOrigin ==
  ASSUME IInv, [Next]_vars, NEW i \in 1 .. Len(cmds'), cmds'[i].kind = "AddressDevice"
  PROVE  \/ \E j \in 1 .. Len(cmds) : cmds'[i] = cmds[j]
         \/ cmds'[i].port \in Ports /\ phase'[cmds'[i].port] \notin Early
<1>0. TypeOK /\ ControlInv /\ cmds \in Seq(CommandTRBs) /\ phase \in [0 .. NumPorts -> Phases]
  BY DEF IInv, TypeOK
<1>1. ASSUME NEW x, cmds' = Append(cmds, x)
      PROVE  cmds'[i] = x \/ \E j \in 1 .. Len(cmds) : cmds'[i] = cmds[j]
  BY <1>0, <1>1
<1>2. ASSUME cmds # <<>>, cmds' = Tail(cmds)
      PROVE  \E j \in 1 .. Len(cmds) : cmds'[i] = cmds[j]
  <2>1. i + 1 \in 1 .. Len(cmds) /\ cmds'[i] = cmds[i + 1]
    BY <1>0, <1>2
  <2> QED
    BY <2>1
<1>3. CASE OnEnableSlot /\ cmds' # cmds
  <2> DEFINE x == [kind |-> "AddressDevice", slot |-> Front.slot, port |-> addressing]
  <2>1. /\ phase[addressing] = "EnablingSlot"
        /\ phase' = [phase EXCEPT ![addressing] = "AddressingDevice"]
        /\ cmds' = Append(cmds, x)
    BY <1>3 DEF OnEnableSlot, Ring, Ignore
  <2>2. addressing \in Ports
    BY <1>0, <2>1 DEF ControlInv, TypeOK, Ports
  <2>3. x.port \in Ports /\ phase'[x.port] \notin Early
    BY <1>0, <2>1, <2>2 DEF Early, Ports
  <2> QED
    BY <1>1, <2>1, <2>3
<1>4. CASE (OnPortStatusChange \/ OnTransfer) /\ cmds' # cmds
  <2>1. \E t \in {"EnableSlot", "ConfigureEndpoint"} : \E s :
          cmds' = Append(cmds, [kind |-> t, slot |-> s, port |-> 0])
    BY <1>4 DEF OnPortStatusChange, OnPlugged, OnPortReset, OnTransfer, ConfigureEndpoints,
       Ring, Ignore
  <2> QED
    BY <1>1, <2>1
<1>5. CASE ExecCommand
  <2>1. cmds # <<>> /\ cmds' = Tail(cmds)
    BY <1>5 DEF ExecCommand, ExecEnableSlot, ExecAddressDevice, ExecConfigureEndpoint,
       FailCommand, Complete
  <2> QED
    BY <1>2, <2>1
<1>6. CASE cmds' = cmds
  BY <1>6
<1>7. Driver /\ cmds' # cmds => OnEnableSlot \/ OnPortStatusChange \/ OnTransfer
  BY DEF Driver, BootPort, WriteReset, FinishReset, OnAddressDevice, OnConfigureEndpoint,
     Ignore, hwVars
<1>8. ASSUME NEW q \in Ports, PlugIn(q) \/ PullOut(q) \/ ResetDone(q) PROVE cmds' = cmds
  BY <1>8 DEF PlugIn, PullOut, ResetDone
<1>9. ASSUME NEW t \in Slots, NEW k \in Transfers, CompleteTransfer(t, k) PROVE cmds' = cmds
  BY <1>9 DEF CompleteTransfer
<1>10. UNCHANGED vars => cmds' = cmds
  BY DEF vars, hwVars
<1> QED
  BY <1>3, <1>4, <1>5, <1>6, <1>7, <1>8, <1>9, <1>10 DEF Next

LEMMA AddressCommandsStep == IInv /\ [Next]_vars => AddressCommands'
<1> SUFFICES ASSUME IInv, [Next]_vars, NEW i \in 1 .. Len(cmds'), cmds'[i].kind = "AddressDevice"
             PROVE  cmds'[i].port \in Ports /\ phase'[cmds'[i].port] \notin Early
  BY DEF AddressCommands
<1>1. CASE \E j \in 1 .. Len(cmds) : cmds'[i] = cmds[j]
  <2>1. cmds'[i].port \in Ports /\ phase[cmds'[i].port] \notin Early
    BY <1>1 DEF IInv, DefaultAddressInv, AddressCommands
  <2>2. cmds'[i].port \in 0 .. NumPorts
    BY <2>1, PortConfigAssumption DEF Ports
  <2> QED
    BY <2>1, <2>2, LateStep
<1> QED
  BY <1>1, CommandOrigin

LEMMA OutputContextsStep == IInv /\ [Next]_vars => OutputContexts'
<1> SUFFICES ASSUME IInv, [Next]_vars, NEW s \in 0 .. NumSlots, dev'[s].port # 0
             PROVE  /\ phase'[dev'[s].port] \notin Early
                    /\ dev'[s].port \notin SuperSpeedPorts /\ portsc'[dev'[s].port].ped
                         => addr'[dev'[s].port] # 0
  BY DEF OutputContexts
<1>0. /\ TypeOK /\ ControlInv /\ ResetHolder /\ AddressCommands /\ OutputContexts
      /\ dev \in [0 .. NumSlots -> Devices] /\ addr \in [Ports -> 0 .. NumSlots]
  BY DEF IInv, DefaultAddressInv, TypeOK
<1>1. ASSUME dev'[s].port = dev[s].port, ~ExecAddressDevice
      PROVE  /\ phase'[dev'[s].port] \notin Early
             /\ dev'[s].port \notin SuperSpeedPorts /\ portsc'[dev'[s].port].ped
                  => addr'[dev'[s].port] # 0
  <2> DEFINE q == dev[s].port
  <2>1. q \in 0 .. NumPorts /\ q # 0 /\ phase[q] \notin Early
    BY <1>0, <1>1 DEF Devices, OutputContexts
  <2>2. q \in Ports
    BY <2>1, PortConfigAssumption DEF Ports
  <2>3. phase'[q] \notin Early
    BY <2>1, LateStep
  <2>4. ~ResetDone(q)
    BY <1>0, <2>1, <2>2
       DEF ResetDone, ResetHolder, ControlInv, ResetInv, Resetting, Early
  <2>5. q \notin SuperSpeedPorts /\ portsc'[q].ped => addr'[q] # 0
    <3> SUFFICES ASSUME q \notin SuperSpeedPorts, portsc'[q].ped PROVE addr'[q] # 0
      OBVIOUS
    <3>1. portsc[q].ped /\ (addr'[q] = 0 => addr[q] = 0)
      BY <2>2, <2>4, Addresses
    <3>2. addr[q] # 0
      BY <1>0, <2>1, <3>1 DEF OutputContexts
    <3> QED
      BY <3>1, <3>2
  <2> QED
    BY <1>1, <2>3, <2>5
<1>2. CASE ExecAddressDevice
  <2> DEFINE c == Head(cmds)
  <2>1. /\ c = cmds[1] /\ 1 \in 1 .. Len(cmds) /\ c.kind = "AddressDevice"
        /\ c.slot \in 1 .. NumSlots
        /\ UNCHANGED <<phase, portsc>>
        /\ addr' = [addr EXCEPT ![c.port] = c.slot]
        /\ dev' = [dev EXCEPT ![c.slot] = [dev[c.slot] EXCEPT !.port = c.port]]
    BY <1>0, <1>2, ExecAddress
  <2>2. c.port \in Ports /\ phase[c.port] \notin Early
    BY <1>0, <2>1 DEF AddressCommands
  <2> HIDE DEF c
  <2>3. CASE s = c.slot
    <3>1. dev'[s].port = c.port
      BY <1>0, <2>1, <2>3 DEF Devices
    <3>2. addr'[c.port] # 0
      BY <1>0, <2>1, <2>2
    <3> QED
      BY <2>1, <2>2, <3>1, <3>2
  <2>4. CASE s # c.slot
    <3>1. dev'[s].port = dev[s].port
      BY <1>0, <2>1, <2>4
    <3>2. \A q \in Ports : addr[q] # 0 => addr'[q] # 0
      BY <1>0, <2>1
    <3>3. dev[s].port \in Ports
      BY <1>0, <3>1, PortConfigAssumption DEF Devices, Ports
    <3> QED
      BY <1>0, <2>1, <3>1, <3>2, <3>3 DEF OutputContexts
  <2> QED
    BY <2>3, <2>4
<1> QED
  BY <1>1, <1>2, DevicePorts

-----------------------------------------------------------------------------
(* The theorems *)

LEMMA Invariance == Spec => []IInv
<1>1. Init => IInv
  BY InitType, InitControl, InitDefault DEF IInv
<1>2. IInv /\ [Next]_vars => IInv'
  BY TypeStep, ControlStep, ResetHolderStep, EnabledHolderStep, AddressCommandsStep,
     OutputContextsStep DEF IInv, DefaultAddressInv
<1> QED
  BY <1>1, <1>2, PTL DEF Spec

(* Tables, registers and queues keep their types: in particular            *)
(* addressing_port stays a port number and no command names a port or a    *)
(* slot the tables do not have.                                            *)
THEOREM TypeCorrect == Spec => []TypeOK
BY Invariance, PTL DEF IInv

(* Only the port in addressing_port is anywhere between reset and address, *)
(* whatever is pulled out, plugged in again or fails.                      *)
THEOREM Exclusive == Spec => []AddressingExclusive
BY Invariance, PTL DEF IInv, ControlInv

(* No two USB2 devices listen to the default address at the same time,     *)
(* which is what ResetPort queues the other ports for.                     *)
THEOREM DefaultAddress == Spec => []DefaultStateExclusive
<1>1. IInv => DefaultStateExclusive
  BY DEF IInv, DefaultAddressInv, ResetHolder, EnabledHolder, DefaultStateExclusive,
     InDefaultState
<1> QED
  BY <1>1, Invariance, PTL

(* port_config_phase of a port only ever moves to the next phase.          *)
THEOREM PhasesInOrder == Spec => PhaseInOrder
<1>1. IInv /\ [Next]_vars =>
        [\A p \in Ports : phase'[p] # phase[p] => <<phase[p], phase'[p]>> \in Successor]_vars
  BY PhaseStep, PortConfigAssumption DEF Ports
<1> QED
  BY <1>1, Invariance, PTL DEF Spec, PhaseInOrder

-----------------------------------------------------------------------------
(***************************************************************************)
(* PortConfig implements AddressLock, for any number of ports and slots:   *)
(* each step of the driver and of the hardware is one of the lock, or      *)
(* leaves the lock as it is.                                               *)
(***************************************************************************)

(* A port that waits is connected, unless something is pulled out. *)
WaitersConnected ==
  MaxUnplugs = 0 => \A w \in WaitingPorts : portsc[w].ccs

(* The ports that left the critical section, as the lock sees them. *)
Served == {p \in Ports : phase[p] \in Past \/ Leaving(p)}

LEMMA LockInterface ==
  /\ UNCHANGED <<addressing, WaitingPorts, Served>> => UNCHANGED Lock!lockVars
  /\ Lock!LockPorts = Ports
BY DEF Lock!lockVars, Lock!LockPorts, Ports, Served

LEMMA ConnectedStays ==
  ASSUME IInv, [Next]_vars, MaxUnplugs = 0, NEW p \in Ports, portsc[p].ccs
  PROVE  portsc'[p].ccs
<1>0. /\ portsc \in [Ports -> PortStatus] /\ portsc[p] \in PortStatus
      /\ unplugs \in 0 .. MaxUnplugs
  BY DEF IInv, TypeOK
<1>1. CASE WriteReset
  BY <1>0, <1>1 DEF WriteReset, PortStatus
<1>2. CASE OnPortStatusChange
  <2>1. \/ portsc' = portsc
        \/ \E q : portsc' = [portsc EXCEPT ![q] = [portsc[q] EXCEPT !.prc = FALSE]]
    BY <1>2 DEF OnPortStatusChange, OnPlugged, OnPortReset, Ignore
  <2> QED
    BY <1>0, <2>1 DEF PortStatus
<1>3. CASE BootPort \/ FinishReset \/ OnEnableSlot \/ OnAddressDevice
           \/ OnConfigureEndpoint \/ OnTransfer
  BY <1>3 DEF BootPort, FinishReset, OnEnableSlot, OnAddressDevice, OnConfigureEndpoint,
     OnTransfer, Ignore, hwVars
<1>4. CASE ExecCommand
  BY <1>4 DEF ExecCommand, ExecEnableSlot, ExecAddressDevice, ExecConfigureEndpoint, FailCommand
<1>5. ASSUME NEW q \in Ports, PlugIn(q) \/ ResetDone(q) PROVE portsc'[p].ccs
  BY <1>0, <1>5 DEF PlugIn, ResetDone, PortStatus
<1>6. \A q \in Ports : ~PullOut(q)
  BY <1>0 DEF PullOut
<1>7. ASSUME NEW t \in Slots, NEW k \in Transfers, CompleteTransfer(t, k) PROVE portsc' = portsc
  BY <1>7 DEF CompleteTransfer
<1>8. CASE UNCHANGED vars
  BY <1>8 DEF vars, hwVars
<1> QED
  BY <1>1, <1>2, <1>3, <1>4, <1>5, <1>6, <1>7, <1>8 DEF Next, Driver

(* Only ResetPort makes a port wait, and it has just seen a device there. *)
LEMMA WaiterOrigin ==
  ASSUME IInv, [Next]_vars, NEW p \in Ports,
         phase'[p] = "WaitingAddressed", phase[p] # "WaitingAddressed"
  PROVE  portsc[p].ccs
<1>0. /\ phase \in [0 .. NumPorts -> Phases] /\ p \in 0 .. NumPorts
      /\ pc = "Boot" => bootPort \in Ports
  BY PortConfigAssumption DEF IInv, TypeOK, ControlInv, BootInv, Ports
<1>1. CASE BootPort
  BY <1>0, <1>1 DEF BootPort, BeginReset, Queue
<1>2. CASE OnPortStatusChange
  BY <1>0, <1>2
     DEF OnPortStatusChange, OnPlugged, OnPortReset, BeginReset, Queue, Ignore, driverVars
<1>3. CASE ~BootPort /\ ~OnPortStatusChange
  <2>1. CASE Driver
    BY <1>0, <1>3, <2>1
       DEF Driver, WriteReset, FinishReset, OnEnableSlot, OnAddressDevice, BeginReset,
           OnConfigureEndpoint, OnTransfer, ConfigureEndpoints, Ignore, driverVars
  <2>2. CASE ExecCommand
    BY <2>2 DEF ExecCommand, ExecEnableSlot, ExecAddressDevice, ExecConfigureEndpoint,
       FailCommand, driverVars
  <2>3. ASSUME NEW q \in Ports, PlugIn(q) \/ PullOut(q) \/ ResetDone(q) PROVE phase' = phase
    BY <2>3 DEF PlugIn, PullOut, ResetDone, driverVars
  <2>4. ASSUME NEW t \in Slots, NEW k \in Transfers, CompleteTransfer(t, k) PROVE phase' = phase
    BY <2>4 DEF CompleteTransfer
  <2>5. CASE UNCHANGED vars
    BY <2>5 DEF vars, driverVars
  <2> QED
    BY <2>1, <2>2, <2>3, <2>4, <2>5 DEF Next
<1> QED
  BY <1>1, <1>2, <1>3

LEMMA WaitersStep == IInv /\ WaitersConnected /\ [Next]_vars => WaitersConnected'
<1> SUFFICES ASSUME IInv, WaitersConnected, [Next]_vars, MaxUnplugs = 0,
                    NEW p \in Ports, phase'[p] = "WaitingAddressed"
             PROVE  portsc'[p].ccs
  BY DEF WaitersConnected, WaitingPorts
<1>1. portsc[p].ccs
  BY WaiterOrigin DEF WaitersConnected, WaitingPorts
<1> QED
  BY <1>1, ConnectedStays

LEMMA WaitersInv == Spec => []WaitersConnected
<1>1. Init => WaitersConnected
  BY DEF Init, WaitersConnected, WaitingPorts, Ports
<1> QED
  BY <1>1, WaitersStep, Invariance, PTL DEF Spec

-----------------------------------------------------------------------------
(* Steps the lock does not see: the phases, the holder and the reset in    *)
(* progress stay, or a port moves on inside or after the critical section. *)

LEMMA Unseen ==
  ASSUME UNCHANGED <<phase, addressing, after>>, Resetting' <=> Resetting
  PROVE  UNCHANGED <<addressing, WaitingPorts, Served>>
BY DEF WaitingPorts, Served, Leaving, Resetting

LEMMA UnseenMove ==
  ASSUME TypeOK, NEW q, NEW x, phase' = [phase EXCEPT ![q] = x], addressing' = addressing,
         ~Resetting, ~Resetting', phase[q] # "WaitingAddressed", x # "WaitingAddressed",
         phase[q] \in Past <=> x \in Past
  PROVE  UNCHANGED <<addressing, WaitingPorts, Served>>
<1>1. \A p \in Ports : phase[p] \in Past <=> phase'[p] \in Past
  BY PortConfigAssumption DEF TypeOK, Ports
<1>2. \A p \in Ports : phase[p] = "WaitingAddressed" <=> phase'[p] = "WaitingAddressed"
  BY PortConfigAssumption DEF TypeOK, Ports
<1> QED
  BY <1>1, <1>2 DEF WaitingPorts, Served, Leaving, Resetting

LEMMA HardwareUnseen ==
  ASSUME \/ ExecCommand
         \/ \E p \in Ports : PlugIn(p) \/ PullOut(p) \/ ResetDone(p)
         \/ \E t \in Slots, k \in Transfers : CompleteTransfer(t, k)
         \/ WriteReset
         \/ UNCHANGED vars
  PROVE  UNCHANGED <<addressing, WaitingPorts, Served>>
<1>1. CASE WriteReset
  <2>1. UNCHANGED <<phase, addressing, after>> /\ (Resetting' <=> Resetting)
    BY <1>1 DEF WriteReset, Resetting
  <2> QED
    BY <2>1, Unseen
<1>2. CASE ~WriteReset
  <2>1. UNCHANGED <<phase, addressing, after, pc>>
    <3>1. CASE ExecCommand
      BY <3>1 DEF ExecCommand, ExecEnableSlot, ExecAddressDevice, ExecConfigureEndpoint,
         FailCommand, driverVars
    <3>2. CASE \E p \in Ports : PlugIn(p) \/ PullOut(p) \/ ResetDone(p)
      BY <3>2 DEF PlugIn, PullOut, ResetDone, driverVars
    <3>3. CASE \E t \in Slots, k \in Transfers : CompleteTransfer(t, k)
      BY <3>3 DEF CompleteTransfer
    <3>4. CASE UNCHANGED vars
      BY <3>4 DEF vars, driverVars
    <3> QED
      BY <1>2, <3>1, <3>2, <3>3, <3>4
  <2> QED
    BY <2>1, Unseen DEF Resetting
<1> QED
  BY <1>1, <1>2

-----------------------------------------------------------------------------
(* Steps that take the critical section, queue for it or leave it *)

(* ResetPort on a port nobody has touched, the critical section free. *)
LEMMA ResetTakes ==
  ASSUME TypeOK, NEW p \in Ports, NEW next, Idle, IsFresh(p), BeginReset(p, next),
         ~Resetting, next.to # "Init"
  PROVE  Lock!Take(p)
<1>1. /\ WaitingPorts' = WaitingPorts /\ Served' = Served
      /\ p \notin WaitingPorts \cup Served
  BY PortConfigAssumption
     DEF TypeOK, IsFresh, BeginReset, WaitingPorts, Served, Leaving, Resetting, Past, Ports
<1> QED
  BY <1>1 DEF Lock!Take, Idle, BeginReset, Served

(* ResetPort on a port nobody has touched, the critical section taken. *)
LEMMA ResetWaits ==
  ASSUME IInv, NEW p \in Ports, IsFresh(p), Queue(p), ~Resetting, ~Resetting'
  PROVE  Lock!Wait(p)
<1>1. TypeOK /\ AddressingExclusive
  BY DEF IInv, ControlInv
<1>2. p # addressing
  BY <1>1 DEF AddressingExclusive, InSequence, IsFresh
<1>3. /\ WaitingPorts' = WaitingPorts \cup {p} /\ Served' = Served
      /\ p \notin WaitingPorts \cup Served
  BY <1>1, PortConfigAssumption
     DEF TypeOK, IsFresh, Queue, WaitingPorts, Served, Leaving, Resetting, Past, Ports
<1> QED
  BY <1>2, <1>3 DEF Lock!Wait, Queue, Served

LEMMA LockBoot == IInv /\ BootPort => [Lock!LockNext]_(Lock!lockVars)
<1> SUFFICES ASSUME IInv, BootPort PROVE Lock!LockNext \/ UNCHANGED Lock!lockVars
  OBVIOUS
<1>1. /\ bootPort \in Ports /\ IsFresh(bootPort) /\ ~Resetting
      /\ TypeOK
  BY PortConfigAssumption DEF IInv, ControlInv, BootInv, BootPort, IsFresh, Resetting, Ports
<1>2. CASE Idle /\ BeginReset(bootPort, Nowhere)
  <2>1. Lock!Take(bootPort)
    BY <1>1, <1>2, ResetTakes DEF Nowhere
  <2> QED
    BY <1>1, <2>1, LockInterface DEF Lock!LockNext
<1>3. CASE Queue(bootPort) /\ NextBootPort
  <2>1. ~Resetting'
    BY <1>3 DEF NextBootPort, Resetting
  <2>2. Lock!Wait(bootPort)
    BY <1>1, <1>3, <2>1, ResetWaits
  <2> QED
    BY <1>1, <2>2, LockInterface DEF Lock!LockNext
<1>4. CASE NextBootPort /\ UNCHANGED <<phase, addressing, after>>
  <2>1. ~Resetting'
    BY <1>4 DEF NextBootPort, Resetting
  <2>2. UNCHANGED <<addressing, WaitingPorts, Served>>
    BY <1>1, <1>4, <2>1, Unseen, Zenon
  <2> QED
    BY <2>2, LockInterface
<1> QED
  BY <1>2, <1>3, <1>4 DEF BootPort

LEMMA LockPortEvent == IInv /\ OnPortStatusChange => [Lock!LockNext]_(Lock!lockVars)
<1> SUFFICES ASSUME IInv, OnPortStatusChange PROVE Lock!LockNext \/ UNCHANGED Lock!lockVars
  OBVIOUS
<1>1. /\ TypeOK /\ ~Resetting /\ Front \in Events /\ Front.type = "Port"
  BY FrontType DEF IInv, OnPortStatusChange, HasEvent, Resetting
<1> DEFINE p == Front.port
<1>2. p \in Ports
  BY <1>1 DEF Events
<1> HIDE DEF p
<1>3. CASE IsFresh(p) /\ Idle /\ BeginReset(p, BackToLoop)
  <2>1. Lock!Take(p)
    BY <1>1, <1>2, <1>3, ResetTakes DEF BackToLoop
  <2> QED
    BY <1>2, <2>1, LockInterface DEF Lock!LockNext
<1>4. CASE IsFresh(p) /\ Queue(p) /\ pc' = pc
  <2>1. Lock!Wait(p)
    BY <1>1, <1>2, <1>4, ResetWaits DEF Resetting
  <2> QED
    BY <1>2, <2>1, LockInterface DEF Lock!LockNext
<1>5. CASE /\ phase[p] = "ResettingPort" /\ phase' = [phase EXCEPT ![p] = "EnablingSlot"]
           /\ UNCHANGED <<addressing, pc>>
  <2>1. ~Resetting'
    BY <1>1, <1>5 DEF Resetting
  <2>2. "ResettingPort" \notin Past /\ "EnablingSlot" \notin Past
    BY DEF Past
  <2>3. UNCHANGED <<addressing, WaitingPorts, Served>>
    BY <1>1, <1>5, <2>1, <2>2, UnseenMove
  <2> QED
    BY <2>3, LockInterface
<1>6. CASE UNCHANGED <<phase, addressing, after, pc>>
  BY <1>6, Unseen, LockInterface DEF Resetting
<1> QED
  BY <1>3, <1>4, <1>5, <1>6
     DEF OnPortStatusChange, OnPlugged, OnPortReset, Ignore, driverVars, p

LEMMA LockFinish == IInv /\ FinishReset => UNCHANGED <<addressing, WaitingPorts, Served>>
<1> SUFFICES ASSUME IInv, FinishReset PROVE UNCHANGED <<addressing, WaitingPorts, Served>>
  OBVIOUS
<1>1. /\ TypeOK /\ Resetting /\ addressing' = addressing
      /\ after.to = "Init" => after.port \in Ports /\ phase[after.port] = "AddressingDevice"
  BY DEF IInv, FinishReset, ControlInv, ResetInv, Resetting
<1>2. ~Resetting'
  BY DEF FinishReset, NextBootPort, Resetting
<1>3. CASE after.to \in {"Boot", "Loop"} /\ phase' = phase
  BY <1>1, <1>2, <1>3 DEF WaitingPorts, Served, Leaving, Resetting
<1>4. CASE after.to = "Init" /\ phase' = [phase EXCEPT ![after.port] = "InitializingDevice"]
  <2>1. WaitingPorts' = WaitingPorts
    BY <1>1, <1>4, PortConfigAssumption DEF TypeOK, WaitingPorts, Ports
  <2>2. \A p \in Ports : p # after.port => phase'[p] = phase[p] /\ ~Leaving(p)
    BY <1>1, <1>4, PortConfigAssumption DEF TypeOK, Leaving, Ports
  <2>3. phase'[after.port] \in Past /\ Leaving(after.port)
    BY <1>1, <1>4, PortConfigAssumption DEF TypeOK, Leaving, Past, Resetting, Ports
  <2>4. \A p \in Ports : ~Leaving(p)'
    BY <1>2 DEF Leaving, Resetting
  <2> QED
    BY <1>1, <2>1, <2>2, <2>3, <2>4 DEF Served
<1> QED
  BY <1>3, <1>4 DEF FinishReset

LEMMA LockHandler ==
  IInv /\ (OnEnableSlot \/ OnConfigureEndpoint \/ OnTransfer)
    => UNCHANGED <<addressing, WaitingPorts, Served>>
<1> SUFFICES ASSUME IInv, OnEnableSlot \/ OnConfigureEndpoint \/ OnTransfer
             PROVE  UNCHANGED <<addressing, WaitingPorts, Served>>
  OBVIOUS
<1>1. /\ TypeOK /\ ~Resetting /\ ~Resetting' /\ UNCHANGED <<addressing, after>>
      /\ Resetting' <=> Resetting
  BY DEF IInv, OnEnableSlot, OnConfigureEndpoint, OnTransfer, HasEvent, Ignore, driverVars,
     Resetting
<1>2. \/ phase' = phase
      \/ \E q : phase[q] = "EnablingSlot" /\ phase' = [phase EXCEPT ![q] = "AddressingDevice"]
      \/ \E q : phase[q] = "ConfiguringEndpoints" /\ phase' = [phase EXCEPT ![q] = "Configured"]
      \/ \E q : /\ phase[q] = "InitializingDevice"
               /\ phase' = [phase EXCEPT ![q] = "ConfiguringEndpoints"]
  BY DEF OnEnableSlot, OnConfigureEndpoint, OnTransfer, NeedsEndpoints, ConfigureEndpoints,
     Ignore, driverVars
<1>3. CASE phase' = phase
  BY <1>1, <1>3, Unseen
<1>4. ASSUME NEW q, phase[q] = "EnablingSlot", phase' = [phase EXCEPT ![q] = "AddressingDevice"]
      PROVE  UNCHANGED <<addressing, WaitingPorts, Served>>
  <2>1. "EnablingSlot" \notin Past /\ "AddressingDevice" \notin Past
    BY DEF Past
  <2> QED
    BY <1>1, <1>4, <2>1, UnseenMove
<1>5. ASSUME NEW q, NEW x \in Past, phase[q] \in Past, phase' = [phase EXCEPT ![q] = x]
      PROVE  UNCHANGED <<addressing, WaitingPorts, Served>>
  <2>1. phase[q] # "WaitingAddressed" /\ x # "WaitingAddressed"
    BY <1>5 DEF Past
  <2> QED
    BY <1>1, <1>5, <2>1, UnseenMove
<1>6. {"InitializingDevice", "ConfiguringEndpoints", "Configured"} = Past
  BY DEF Past
<1> QED
  BY <1>2, <1>3, <1>4, <1>5, <1>6

(* The completion of AddressDevice: the holder joins the served ports, and *)
(* the critical section is the lowest waiting port's, or nobody's.         *)
LEMMA LockAddressed ==
  IInv /\ WaitersConnected /\ OnAddressDevice => [Lock!LockNext]_(Lock!lockVars)
<1> SUFFICES ASSUME IInv, WaitersConnected, OnAddressDevice
             PROVE  Lock!LockNext \/ UNCHANGED Lock!lockVars
  OBVIOUS
<1> DEFINE s == Front.slot
           h == dev[s].port
<1>1. /\ TypeOK /\ phase[0] = "NotConnected" /\ ~Resetting
      /\ phase \in [0 .. NumPorts -> Phases]
  BY DEF IInv, ControlInv, TypeOK, OnAddressDevice, HasEvent, Resetting
<1>2. HandsOver(s) => /\ h = addressing /\ h \in Ports /\ h # 0
                      /\ phase[h] = "AddressingDevice"
  <2> SUFFICES ASSUME HandsOver(s)
               PROVE  /\ h = addressing /\ h \in Ports /\ h # 0
                      /\ phase[h] = "AddressingDevice"
    OBVIOUS
  <2>1. h = addressing /\ phase[addressing] = "AddressingDevice"
    BY DEF HandsOver
  <2> QED
    BY <1>1, <2>1, PortConfigAssumption DEF TypeOK, Ports
<1>3. ASSUME NEW w \in WaitingPorts, HandsOver(s), IsLowest(w),
             BeginReset(w, [to |-> "Init", port |-> h, slot |-> s])
      PROVE  Lock!HandOver(w) /\ w \in Ports
  <2>1. w \in Ports /\ w \in 0 .. NumPorts /\ phase[w] = "WaitingAddressed" /\ w # h
    BY <1>2, <1>3, PortConfigAssumption DEF WaitingPorts, Ports
  <2>2. /\ phase' = [phase EXCEPT ![w] = "ResettingPort"] /\ addressing' = w /\ pc' = "Reset"
        /\ after'.to = "Init" /\ after'.port = h
    BY <1>3 DEF BeginReset
  <2>3. WaitingPorts' = WaitingPorts \ {w}
    BY <1>1, <2>1, <2>2, PortConfigAssumption DEF WaitingPorts, Ports
  <2>4. \A p \in Ports : Leaving(p)' <=> p = h
    BY <2>2 DEF Leaving
  <2>5. \A p \in Ports : ~Leaving(p) /\ (phase'[p] \in Past <=> phase[p] \in Past)
    BY <1>1, <2>1, <2>2, PortConfigAssumption DEF Leaving, Resetting, Past, Ports
  <2>6. Served' = Served \cup {addressing}
    BY <1>2, <1>3, <2>4, <2>5 DEF Served
  <2> QED
    BY <1>2, <1>3, <2>1, <2>2, <2>3, <2>6 DEF Lock!HandOver, Lock!IsNext, IsLowest, Served
<1>4. ASSUME HandsOver(s), \A w \in WaitingPorts : IsLowest(w) => ~portsc[w].ccs,
             addressing' = 0, phase' = [phase EXCEPT ![h] = "InitializingDevice"],
             UNCHANGED <<pc, after>>
      PROVE  Lock!Release
  <2>1. WaitingPorts' = WaitingPorts
    BY <1>1, <1>2, <1>4, PortConfigAssumption DEF WaitingPorts, Ports
  <2>2. \A p \in Ports : ~Leaving(p) /\ ~Leaving(p)'
    BY <1>1, <1>4 DEF Leaving, Resetting
  <2>3. /\ \A p \in Ports : p # h => phase'[p] = phase[p]
        /\ phase'[h] \in Past
    BY <1>1, <1>2, <1>4, PortConfigAssumption DEF Past, Ports
  <2>4. Served' = Served \cup {addressing}
    BY <1>2, <1>4, <2>2, <2>3 DEF Served
  <2>5. (\E w \in WaitingPorts : IsLowest(w)) => MaxUnplugs > 0
    BY <1>4, PortConfigAssumption DEF WaitersConnected
  <2> QED
    BY <1>2, <1>4, <2>1, <2>4, <2>5 DEF Lock!Release, Lock!IsNext, IsLowest, Served
<1>5. CASE UNCHANGED <<phase, addressing, pc, after>>
  BY <1>5, Unseen, LockInterface DEF Resetting
<1> QED
  BY <1>3, <1>4, <1>5, LockInterface DEF OnAddressDevice, Lock!LockNext

-----------------------------------------------------------------------------
(* The refinement *)

LEMMA LockStep ==
  IInv /\ WaitersConnected /\ [Next]_vars => [Lock!LockNext]_(Lock!lockVars)
<1> SUFFICES ASSUME IInv, WaitersConnected, [Next]_vars
             PROVE  [Lock!LockNext]_(Lock!lockVars)
  OBVIOUS
<1> QED
  BY LockInterface, LockBoot, LockPortEvent, LockFinish, LockHandler, LockAddressed,
     HardwareUnseen DEF Next, Driver

(* The ports share the default address the way AddressLock says: one       *)
(* holder, the lowest waiting port next, nobody served twice, and the      *)
(* critical section only left unclaimed when something was pulled out.     *)
THEOREM Refinement == Spec => ImplementsLock
<1>1. Init => Lock!LockInit
  BY DEF Init, Lock!LockInit, WaitingPorts, Leaving, Past, Ports
<1> QED
  BY <1>1, LockStep, Invariance, WaitersInv, PTL DEF Spec, ImplementsLock, Lock!LockSpec

-----------------------------------------------------------------------------
(* What is in the command ring and in the event ring, and what a device is *)
(* asked for.                                                              *)

(* What a queue holds, in whatever order. *)
Items(q) == {q[i] : i \in 1 .. Len(q)}

(* The work that there is only one of at a time: a command of the          *)
(* addressing sequence, a ConfigureEndpoint per slot, a transfer per slot  *)
(* (SetProtocol aside).                                                    *)
Keyed(e) == e.type = "Command" \/ (e.type = "Transfer" /\ e.of # "SetProtocol")

CommandKey(kind, s) ==
  IF kind = "ConfigureEndpoint" THEN <<"configure", s>> ELSE <<"address", 0>>

EventKey(e) ==
  IF e.type = "Transfer" THEN <<"transfer", e.slot>> ELSE CommandKey(e.of, e.slot)

(* None of it is in the queues c and e twice. *)
Distinct(c, e) ==
  /\ \A i, j \in 1 .. Len(c) :
       CommandKey(c[i].kind, c[i].slot) = CommandKey(c[j].kind, c[j].slot) => i = j
  /\ \A i, j \in 1 .. Len(e) :
       Keyed(e[i]) /\ Keyed(e[j]) /\ EventKey(e[i]) = EventKey(e[j]) => i = j
  /\ \A i \in 1 .. Len(c), j \in 1 .. Len(e) :
       Keyed(e[j]) => CommandKey(c[i].kind, c[i].slot) # EventKey(e[j])

InPhase(s, x) == dev[s].port # 0 /\ phase[dev[s].port] = x

(* The handler that hands the critical section over has not popped its     *)
(* event yet, and names the slot whose output context has the port.        *)
HandingOver == Resetting /\ after.to = "Init"

HandOverInv ==
  HandingOver =>
    /\ Head(events).type = "Command" /\ Head(events).of = "AddressDevice"
    /\ dev[after.slot].port = after.port

(* A command or its event is there because the phase of a port says so. *)
CommandInv ==
  \A c \in Items(cmds) :
    /\ c.kind = "EnableSlot" => phase[addressing] = "EnablingSlot"
    /\ c.kind = "AddressDevice" =>
         /\ phase[addressing] = "AddressingDevice"
         /\ c.port = addressing
         /\ \A t \in 0 .. NumSlots : dev[t].port # addressing
    /\ c.kind = "ConfigureEndpoint" => InPhase(c.slot, "ConfiguringEndpoints")

(* A transfer or its event is there because the device is at that point of *)
(* its work; the two kinds that are asked for in the same phase are told   *)
(* apart by the state of the class driver.                                 *)
Fits(s, t) == InPhase(s, PhaseOf(t)) /\ (t = "InterruptIn" => dev[s].hid = 2)

NoSingle(d) == \A t \in Singles : d.tds[t] = 0

OneSingle(d) ==
  \A t, u \in Singles : d.tds[t] <= 1 /\ (d.tds[t] > 0 /\ d.tds[u] > 0 => t = u)

Answered(e) == Fits(e.slot, e.of) /\ (e.of \in Singles => NoSingle(dev[e.slot]))

Asked(s) ==
  /\ OneSingle(dev[s])
  /\ \A t \in Transfers : dev[s].tds[t] > 0 => Fits(s, t)

EventInv ==
  \A e \in Items(events) :
    /\ e.type = "Command" =>
         /\ e.of = "EnableSlot" => phase[addressing] = "EnablingSlot"
         /\ e.of = "AddressDevice" => phase[addressing] = "AddressingDevice" \/ HandingOver
         /\ e.of = "ConfigureEndpoint" => InPhase(e.slot, "ConfiguringEndpoints")
    /\ e.type = "Transfer" => Answered(e)

TransferInv == \A s \in 0 .. NumSlots : Asked(s)

(* The output contexts and the device slots. *)
ContextInv ==
  \A s \in 0 .. NumSlots : dev[s].port # 0 =>
    /\ s # 0 /\ slot[s] \in {"Addressed", "Configured"}
    /\ \A t \in 0 .. NumSlots : dev[t].port = dev[s].port => t = s

AddressedLate == \A p \in Ports : addr[p] # 0 => phase[p] \notin Early

QueueInv ==
  /\ HandOverInv /\ CommandInv /\ EventInv /\ TransferInv /\ ContextInv /\ AddressedLate
  /\ Distinct(cmds, events)

QInv == IInv /\ QueueInv

-----------------------------------------------------------------------------
(* Queues *)

LEMMA ItemsOfAppend ==
  ASSUME NEW S, NEW q \in Seq(S), NEW x \in S
  PROVE  Items(Append(q, x)) = Items(q) \cup {x}
<1> DEFINE r == Append(q, x)
<1>1. /\ Len(r) = Len(q) + 1 /\ Len(q) \in Nat
      /\ \A i \in 1 .. Len(q) : r[i] = q[i]
      /\ r[Len(q) + 1] = x
  OBVIOUS
<1> HIDE DEF r
<1>2. ASSUME NEW i \in 1 .. Len(r) PROVE r[i] \in Items(q) \cup {x}
  BY <1>1 DEF Items
<1>3. ASSUME NEW i \in 1 .. Len(q) PROVE q[i] \in Items(r)
  <2>1. i \in 1 .. Len(r) /\ r[i] = q[i]
    BY <1>1
  <2> QED
    BY <2>1 DEF Items
<1>4. x \in Items(r)
  <2>1. Len(q) + 1 \in 1 .. Len(r)
    BY <1>1
  <2> QED
    BY <1>1, <2>1 DEF Items
<1>5. Items(r) = Items(q) \cup {x}
  BY <1>2, <1>3, <1>4 DEF Items
<1> QED
  BY <1>5 DEF r

LEMMA ItemsOfTail ==
  ASSUME NEW S, NEW q \in Seq(S), q # <<>>
  PROVE  Items(Tail(q)) \subseteq Items(q) /\ Head(q) \in Items(q)
<1> DEFINE r == Tail(q)
<1>1. /\ Len(r) = Len(q) - 1 /\ Len(q) \in Nat \ {0}
      /\ \A i \in 1 .. Len(r) : r[i] = q[i + 1]
      /\ Head(q) = q[1]
  OBVIOUS
<1> HIDE DEF r
<1>2. ASSUME NEW i \in 1 .. Len(r) PROVE r[i] \in Items(q)
  <2>1. i + 1 \in 1 .. Len(q) /\ r[i] = q[i + 1]
    BY <1>1
  <2> QED
    BY <2>1 DEF Items
<1>3. q[1] \in Items(q)
  BY <1>1 DEF Items
<1>4. Items(r) \subseteq Items(q)
  BY <1>2 DEF Items
<1> QED
  BY <1>1, <1>3, <1>4 DEF r

LEMMA ItemsType ==
  ASSUME NEW S, NEW q \in Seq(S)
  PROVE  Items(q) \subseteq S
BY DEF Items

(* What pops, completes and rings in keeps the queues without duplicates. *)
LEMMA DistinctPop ==
  ASSUME NEW S, NEW T, NEW c \in Seq(S), NEW e \in Seq(T), e # <<>>, Distinct(c, e)
  PROVE  Distinct(c, Tail(e))
<1> DEFINE r == Tail(e)
<1>1. /\ Len(e) \in Nat
      /\ \A i \in 1 .. Len(r) : i + 1 \in 1 .. Len(e) /\ r[i] = e[i + 1]
      /\ \A i \in 1 .. Len(r) : i \in Int
  OBVIOUS
<1> HIDE DEF r
<1>2. \A i, j \in 1 .. Len(r) : i + 1 = j + 1 => i = j
  BY <1>1
<1>3. ASSUME NEW i \in 1 .. Len(r), NEW j \in 1 .. Len(r), Keyed(r[i]), Keyed(r[j]),
             EventKey(r[i]) = EventKey(r[j])
      PROVE  i = j
  <2>1. i + 1 = j + 1
    BY <1>1, <1>3, SMTT(30) DEF Distinct
  <2> QED
    BY <1>2, <2>1
<1>4. \A i \in 1 .. Len(c), j \in 1 .. Len(r) :
        Keyed(r[j]) => CommandKey(c[i].kind, c[i].slot) # EventKey(r[j])
  BY <1>1 DEF Distinct
<1>5. Distinct(c, r)
  BY <1>3, <1>4 DEF Distinct
<1> QED
  BY <1>5 DEF r

LEMMA DistinctAppend ==
  ASSUME NEW S, NEW T, NEW c \in Seq(S), NEW e \in Seq(T), NEW x \in T, Distinct(c, e),
         Keyed(x) =>
           /\ \A y \in Items(e) : Keyed(y) => EventKey(y) # EventKey(x)
           /\ \A y \in Items(c) : CommandKey(y.kind, y.slot) # EventKey(x)
  PROVE  Distinct(c, Append(e, x))
<1> DEFINE r == Append(e, x)
<1>1. /\ Len(r) = Len(e) + 1 /\ Len(e) \in Nat
      /\ \A i \in 1 .. Len(e) : r[i] = e[i]
      /\ r[Len(e) + 1] = x
  OBVIOUS
<1> HIDE DEF r
<1>2. ASSUME NEW i \in 1 .. Len(r)
      PROVE  \/ i \in 1 .. Len(e) /\ r[i] = e[i] /\ r[i] \in Items(e)
             \/ i = Len(r) /\ r[i] = x
  <2>1. i \in 1 .. Len(e) \/ i = Len(e) + 1
    BY <1>1
  <2>2. i \in 1 .. Len(e) => e[i] \in Items(e)
    BY DEF Items
  <2>3. i \in 1 .. Len(e) => r[i] = e[i]
    BY <1>1
  <2>4. i = Len(e) + 1 => i = Len(r) /\ r[i] = x
    BY <1>1
  <2> QED
    BY <2>1, <2>2, <2>3, <2>4, Zenon
<1>3. \A i \in 1 .. Len(c) : c[i] \in Items(c)
  BY DEF Items
<1>4. ASSUME NEW i \in 1 .. Len(r), NEW j \in 1 .. Len(r), Keyed(r[i]), Keyed(r[j]),
             EventKey(r[i]) = EventKey(r[j])
      PROVE  i = j
  BY <1>2, <1>4 DEF Distinct
<1>5. ASSUME NEW i \in 1 .. Len(c), NEW j \in 1 .. Len(r), Keyed(r[j])
      PROVE  CommandKey(c[i].kind, c[i].slot) # EventKey(r[j])
  BY <1>2, <1>3, <1>5 DEF Distinct
<1>6. Distinct(c, r)
  BY <1>4, <1>5 DEF Distinct
<1> QED
  BY <1>6 DEF r

LEMMA DistinctRing ==
  ASSUME NEW S, NEW T, NEW c \in Seq(S), NEW e \in Seq(T), NEW x \in S, Distinct(c, e),
         \A y \in Items(e) : Keyed(y) => EventKey(y) # CommandKey(x.kind, x.slot),
         \A y \in Items(c) : CommandKey(y.kind, y.slot) # CommandKey(x.kind, x.slot)
  PROVE  Distinct(Append(c, x), e)
<1> DEFINE r == Append(c, x)
<1>1. /\ Len(r) = Len(c) + 1 /\ Len(c) \in Nat
      /\ \A i \in 1 .. Len(c) : r[i] = c[i]
      /\ r[Len(c) + 1] = x
  OBVIOUS
<1> HIDE DEF r
<1>2. ASSUME NEW i \in 1 .. Len(r)
      PROVE  \/ i \in 1 .. Len(c) /\ r[i] = c[i] /\ r[i] \in Items(c)
             \/ i = Len(r) /\ r[i] = x
  <2>1. i \in 1 .. Len(c) \/ i = Len(c) + 1
    BY <1>1
  <2>2. i \in 1 .. Len(c) => c[i] \in Items(c)
    BY DEF Items
  <2>3. i \in 1 .. Len(c) => r[i] = c[i]
    BY <1>1
  <2>4. i = Len(c) + 1 => i = Len(r) /\ r[i] = x
    BY <1>1
  <2> QED
    BY <2>1, <2>2, <2>3, <2>4, Zenon
<1>3. \A i \in 1 .. Len(e) : e[i] \in Items(e)
  BY DEF Items
<1>4. ASSUME NEW i \in 1 .. Len(r), NEW j \in 1 .. Len(r),
             CommandKey(r[i].kind, r[i].slot) = CommandKey(r[j].kind, r[j].slot)
      PROVE  i = j
  BY <1>2, <1>4 DEF Distinct
<1>5. ASSUME NEW i \in 1 .. Len(r), NEW j \in 1 .. Len(e), Keyed(e[j])
      PROVE  CommandKey(r[i].kind, r[i].slot) # EventKey(e[j])
  BY <1>2, <1>3, <1>5 DEF Distinct
<1>6. Distinct(r, e)
  BY <1>4, <1>5 DEF Distinct
<1> QED
  BY <1>6 DEF r

LEMMA DistinctExec ==
  ASSUME NEW S, NEW T, NEW c \in Seq(S), NEW e \in Seq(T), c # <<>>, Distinct(c, e)
  PROVE  /\ Distinct(Tail(c), e)
         /\ \A y \in Items(Tail(c)) :
              CommandKey(y.kind, y.slot) # CommandKey(Head(c).kind, Head(c).slot)
         /\ \A y \in Items(e) :
              Keyed(y) => EventKey(y) # CommandKey(Head(c).kind, Head(c).slot)
<1> DEFINE r == Tail(c)
<1>1. /\ Len(c) \in Nat /\ 1 \in 1 .. Len(c) /\ Head(c) = c[1]
      /\ \A i \in 1 .. Len(r) : i + 1 \in 1 .. Len(c) /\ r[i] = c[i + 1] /\ i + 1 # 1
      /\ \A i \in 1 .. Len(r) : i \in Int
  OBVIOUS
<1> HIDE DEF r
<1>2. \A i, j \in 1 .. Len(r) : i + 1 = j + 1 => i = j
  BY <1>1
<1>3. Distinct(r, e)
  <2>1. ASSUME NEW i \in 1 .. Len(r), NEW j \in 1 .. Len(r),
               CommandKey(r[i].kind, r[i].slot) = CommandKey(r[j].kind, r[j].slot)
        PROVE  i = j
    <3>1. /\ i + 1 \in 1 .. Len(c) /\ r[i] = c[i + 1]
          /\ j + 1 \in 1 .. Len(c) /\ r[j] = c[j + 1]
      BY <1>1
    <3>2. i + 1 = j + 1
      BY <2>1, <3>1, Zenon DEF Distinct
    <3> QED
      BY <1>2, <3>2
  <2>2. ASSUME NEW i \in 1 .. Len(r), NEW j \in 1 .. Len(e), Keyed(e[j])
        PROVE  CommandKey(r[i].kind, r[i].slot) # EventKey(e[j])
    <3>1. i + 1 \in 1 .. Len(c) /\ r[i] = c[i + 1]
      BY <1>1
    <3> QED
      BY <2>2, <3>1, Zenon DEF Distinct
  <2> QED
    BY <2>1, <2>2 DEF Distinct
<1>4. \A y \in Items(r) : CommandKey(y.kind, y.slot) # CommandKey(c[1].kind, c[1].slot)
  BY <1>1 DEF Distinct, Items
<1>5. \A y \in Items(e) : Keyed(y) => EventKey(y) # CommandKey(c[1].kind, c[1].slot)
  BY <1>1 DEF Distinct, Items
<1> QED
  BY <1>1, <1>3, <1>4, <1>5 DEF r

(* The event that is handled is the only one of its kind. *)
LEMMA DistinctFront ==
  ASSUME NEW S, NEW T, NEW c \in Seq(S), NEW e \in Seq(T), e # <<>>, Distinct(c, e),
         Keyed(Head(e))
  PROVE  /\ \A y \in Items(Tail(e)) : Keyed(y) => EventKey(y) # EventKey(Head(e))
         /\ \A y \in Items(c) : CommandKey(y.kind, y.slot) # EventKey(Head(e))
<1> DEFINE r == Tail(e)
<1>1. /\ Len(e) \in Nat /\ 1 \in 1 .. Len(e) /\ Head(e) = e[1]
      /\ \A i \in 1 .. Len(r) : i + 1 \in 1 .. Len(e) /\ r[i] = e[i + 1] /\ i + 1 # 1
  OBVIOUS
<1> HIDE DEF r
<1>2. ASSUME NEW y \in Items(r), Keyed(y)
      PROVE  EventKey(y) # EventKey(e[1])
  <2>1. PICK i \in 1 .. Len(r) : y = r[i]
    BY DEF Items
  <2>2. i + 1 \in 1 .. Len(e) /\ y = e[i + 1] /\ i + 1 # 1
    BY <1>1, <2>1
  <2> QED
    BY <1>1, <1>2, <2>2, Zenon DEF Distinct
<1>3. \A y \in Items(c) : CommandKey(y.kind, y.slot) # EventKey(e[1])
  BY <1>1 DEF Distinct, Items
<1> QED
  BY <1>1, <1>2, <1>3 DEF r

(* The keys tell apart what they should. *)
LEMMA Keys ==
  /\ \A s, t : CommandKey("ConfigureEndpoint", s) = CommandKey("ConfigureEndpoint", t) <=> s = t
  /\ \A k, s, t : k # "ConfigureEndpoint" =>
       CommandKey(k, s) # CommandKey("ConfigureEndpoint", t)
  /\ \A k, l, s, t : k # "ConfigureEndpoint" /\ l # "ConfigureEndpoint" =>
       CommandKey(k, s) = CommandKey(l, t)
  /\ \A e : e.type = "Command" => Keyed(e) /\ EventKey(e) = CommandKey(e.of, e.slot)
  /\ \A e, k, s : e.type = "Transfer" => EventKey(e) # CommandKey(k, s)
  /\ \A d, e : d.type = "Transfer" /\ e.type = "Transfer" =>
       (EventKey(d) = EventKey(e) <=> d.slot = e.slot)
BY DEF CommandKey, EventKey, Keyed

-----------------------------------------------------------------------------
(* The output contexts *)

(* A slot whose device has an address stays like that. *)
LEMMA SlotStep ==
  ASSUME IInv, [Next]_vars, NEW s \in Slots, slot[s] \in {"Addressed", "Configured"}
  PROVE  slot'[s] \in {"Addressed", "Configured"}
<1>0. TypeOK /\ slot \in [Slots -> SlotStates]
  BY DEF IInv, TypeOK
<1>1. CASE ExecEnableSlot
  BY <1>0, <1>1 DEF ExecEnableSlot
<1>2. CASE ExecAddressDevice
  BY <1>0, <1>2 DEF ExecAddressDevice
<1>3. CASE ExecConfigureEndpoint
  BY <1>0, <1>3 DEF ExecConfigureEndpoint
<1>4. CASE FailCommand \/ Driver \/ UNCHANGED vars
  BY <1>4 DEF FailCommand, Driver, BootPort, WriteReset, FinishReset, OnPortStatusChange,
     OnPlugged, OnPortReset, OnEnableSlot, OnAddressDevice, OnConfigureEndpoint, OnTransfer,
     Ignore, hwVars, vars
<1>5. ASSUME NEW p \in Ports, PlugIn(p) \/ PullOut(p) \/ ResetDone(p) PROVE slot' = slot
  BY <1>5 DEF PlugIn, PullOut, ResetDone
<1>6. ASSUME NEW t \in Slots, NEW k \in Transfers, CompleteTransfer(t, k) PROVE slot' = slot
  BY <1>6 DEF CompleteTransfer
<1> QED
  BY <1>1, <1>2, <1>3, <1>4, <1>5, <1>6 DEF Next, ExecCommand

LEMMA ContextStep == QInv /\ [Next]_vars => ContextInv'
<1> SUFFICES ASSUME QInv, [Next]_vars PROVE ContextInv'
  OBVIOUS
<1>0. /\ IInv /\ TypeOK /\ CommandInv /\ ContextInv
      /\ dev \in [0 .. NumSlots -> Devices] /\ slot \in [Slots -> SlotStates]
      /\ cmds \in Seq(CommandTRBs)
  BY DEF QInv, QueueInv, IInv, TypeOK
<1>1. \A s \in 0 .. NumSlots : s # 0 => s \in Slots
  BY PortConfigAssumption DEF Slots
<1>2. CASE ~ExecAddressDevice
  <2>1. \A s \in 0 .. NumSlots : dev'[s].port = dev[s].port
    BY <1>0, <1>2, DevicePorts
  <2>2. ASSUME NEW s \in 0 .. NumSlots, dev'[s].port # 0
        PROVE  s # 0 /\ slot'[s] \in {"Addressed", "Configured"}
    BY <1>0, <1>1, <2>1, <2>2, SlotStep DEF ContextInv
  <2> QED
    BY <1>0, <2>1, <2>2 DEF ContextInv
<1>3. CASE ExecAddressDevice
  <2> DEFINE c == Head(cmds)
  <2>1. /\ c = cmds[1] /\ 1 \in 1 .. Len(cmds) /\ c.kind = "AddressDevice"
        /\ c.slot \in 1 .. NumSlots
        /\ UNCHANGED addressing
        /\ dev' = [dev EXCEPT ![c.slot] = [dev[c.slot] EXCEPT !.port = c.port]]
    BY <1>0, <1>3, ExecAddress
  <2>2. slot' = [slot EXCEPT ![c.slot] = "Addressed"]
    BY <1>3 DEF ExecAddressDevice
  <2>3. c.port = addressing /\ \A t \in 0 .. NumSlots : dev[t].port # addressing
    BY <1>0, <2>1 DEF CommandInv, Items
  <2> HIDE DEF c
  <2>4. /\ dev'[c.slot].port = addressing /\ slot'[c.slot] = "Addressed" /\ c.slot # 0
        /\ \A t \in 0 .. NumSlots : t # c.slot => dev'[t].port = dev[t].port
    BY <1>0, <2>1, <2>2, <2>3 DEF Devices, Slots
  <2>5. ASSUME NEW s \in 0 .. NumSlots, dev'[s].port # 0, s # c.slot
        PROVE  /\ s # 0 /\ slot'[s] \in {"Addressed", "Configured"}
               /\ \A t \in 0 .. NumSlots : dev'[t].port = dev'[s].port => t = s
    <3>1. dev[s].port # 0 /\ dev'[s].port = dev[s].port /\ dev[s].port # addressing
      BY <2>3, <2>4, <2>5
    <3>2. s # 0 /\ slot'[s] \in {"Addressed", "Configured"}
      BY <1>0, <1>1, <3>1, SlotStep DEF ContextInv
    <3> QED
      BY <1>0, <2>4, <3>1, <3>2 DEF ContextInv
  <2>6. \A t \in 0 .. NumSlots : dev'[t].port = dev'[c.slot].port => t = c.slot
    BY <2>3, <2>4
  <2> QED
    BY <2>4, <2>5, <2>6 DEF ContextInv
<1> QED
  BY <1>2, <1>3

(* A port whose device has an address is past its reset. *)
LEMMA AddressedStep == QInv /\ [Next]_vars => AddressedLate'
<1> SUFFICES ASSUME QInv, [Next]_vars, NEW p \in Ports, addr'[p] # 0
             PROVE  phase'[p] \notin Early
  BY DEF AddressedLate
<1>0. /\ IInv /\ TypeOK /\ AddressedLate /\ AddressCommands
      /\ addr \in [Ports -> 0 .. NumSlots] /\ p \in 0 .. NumPorts
  BY PortConfigAssumption DEF QInv, QueueInv, IInv, DefaultAddressInv, TypeOK, Ports
<1>1. CASE ExecAddressDevice
  <2> DEFINE c == Head(cmds)
  <2>1. /\ c = cmds[1] /\ 1 \in 1 .. Len(cmds) /\ c.kind = "AddressDevice"
        /\ phase' = phase
        /\ addr' = [addr EXCEPT ![c.port] = c.slot]
    BY <1>0, <1>1, ExecAddress
  <2>2. phase[c.port] \notin Early
    BY <1>0, <2>1 DEF AddressCommands
  <2> HIDE DEF c
  <2> QED
    BY <1>0, <2>1, <2>2 DEF AddressedLate
<1>2. CASE ~ExecAddressDevice
  <2>1. addr'[p] = addr[p] \/ addr'[p] = 0
    <3>1. CASE WriteReset
      BY <1>0, <3>1 DEF WriteReset
    <3>2. CASE Driver /\ ~WriteReset
      BY <3>2 DEF Driver, BootPort, FinishReset, OnPortStatusChange, OnPlugged, OnPortReset,
         OnEnableSlot, OnAddressDevice, OnConfigureEndpoint, OnTransfer, Ignore, hwVars
    <3>3. CASE ExecCommand
      BY <1>2, <3>3 DEF ExecCommand, ExecEnableSlot, ExecConfigureEndpoint, FailCommand
    <3>4. ASSUME NEW q \in Ports, PlugIn(q) \/ PullOut(q) \/ ResetDone(q)
          PROVE  addr'[p] = addr[p] \/ addr'[p] = 0
      BY <1>0, <3>4 DEF PlugIn, PullOut, ResetDone
    <3>5. ASSUME NEW t \in Slots, NEW k \in Transfers, CompleteTransfer(t, k) PROVE addr' = addr
      BY <3>5 DEF CompleteTransfer
    <3>6. CASE UNCHANGED vars
      BY <3>6 DEF vars, hwVars
    <3> QED
      BY <3>1, <3>2, <3>3, <3>4, <3>5, <3>6 DEF Next
  <2> QED
    BY <1>0, <2>1, LateStep DEF AddressedLate
<1> QED
  BY <1>1, <1>2
-----------------------------------------------------------------------------
(* The steps that leave commands, transfers and addressed ports alone *)

LEMMA QueueTypes ==
  ASSUME IInv
  PROVE  /\ cmds \in Seq(CommandTRBs) /\ events \in Seq(Events)
         /\ Items(cmds) \subseteq CommandTRBs /\ Items(events) \subseteq Events
         /\ dev \in [0 .. NumSlots -> Devices]
         /\ phase \in [0 .. NumPorts -> Phases] /\ phase[0] = "NotConnected"
         /\ addressing \in 0 .. NumPorts
         /\ \A s \in 0 .. NumSlots : dev[s].port \in 0 .. NumPorts
         /\ Slots \subseteq 0 .. NumSlots /\ Ports \subseteq 0 .. NumPorts
         /\ \A e \in Events : e.slot \in 0 .. NumSlots
<1>1. cmds \in Seq(CommandTRBs) /\ events \in Seq(Events)
  BY DEF IInv, TypeOK
<1>2. Items(cmds) \subseteq CommandTRBs /\ Items(events) \subseteq Events
  BY <1>1, ItemsType
<1>3. dev \in [0 .. NumSlots -> Devices]
  BY DEF IInv, TypeOK
<1>4. \A s \in 0 .. NumSlots : dev[s].port \in 0 .. NumPorts
  BY <1>3 DEF Devices
<1>5. \A e \in Events : e.slot \in 0 .. NumSlots
  BY PortConfigAssumption DEF Events, Slots
<1> QED
  BY <1>1, <1>2, <1>3, <1>4, <1>5, PortConfigAssumption
     DEF IInv, TypeOK, ControlInv, Slots, Ports

LEMMA PopStep ==
  ASSUME QInv, events # <<>>, Pop
  PROVE  /\ Items(events') \subseteq Items(events) /\ Front \in Items(events)
         /\ Front \in Events /\ events' = Tail(events)
         /\ Distinct(cmds, events')
<1>1. /\ cmds \in Seq(CommandTRBs) /\ events \in Seq(Events)
      /\ Items(events) \subseteq Events
  BY QueueTypes DEF QInv
<1>2. Items(Tail(events)) \subseteq Items(events) /\ Head(events) \in Items(events)
  BY <1>1, ItemsOfTail
<1>3. Distinct(cmds, Tail(events))
  BY <1>1, DistinctPop DEF QInv, QueueInv
<1> QED
  BY <1>1, <1>2, <1>3 DEF Pop, Front

LEMMA ReportStep ==
  ASSUME QInv, NEW p \in Ports, NEW bit, Report(p, bit)
  PROVE  /\ \A e \in Items(events') : e \in Items(events) \/ e.type = "Port"
         /\ events # <<>> => Head(events') = Head(events)
         /\ Distinct(cmds, events')
<1>1. /\ cmds \in Seq(CommandTRBs) /\ events \in Seq(Events) /\ Distinct(cmds, events)
  BY QueueTypes DEF QInv, QueueInv
<1>2. CASE events' = events
  BY <1>1, <1>2
<1>3. CASE events' = Append(events, PortEvent(p))
  <2>1. PortEvent(p) \in Events /\ PortEvent(p).type = "Port"
    BY PortEventType DEF PortEvent
  <2>2. Items(events') = Items(events) \cup {PortEvent(p)}
    BY <1>1, <1>3, <2>1, ItemsOfAppend
  <2>3. Distinct(cmds, events')
    <3>1. ~Keyed(PortEvent(p))
      BY <2>1 DEF Keyed
    <3>2. PICK x \in Events : x = PortEvent(p)
      BY <2>1
    <3>3. Distinct(cmds, Append(events, x))
      BY <1>1, <3>1, <3>2, DistinctAppend
    <3> QED
      BY <1>3, <3>2, <3>3
  <2>4. events # <<>> => Head(events') = Head(events)
    BY <1>1, <1>3, <2>1
  <2> QED
    BY <2>1, <2>2, <2>3, <2>4
<1> QED
  BY <1>2, <1>3 DEF Report

(* What a transfer is there for stays, where the device does not change    *)
(* and its port stays in its phase.                                        *)
LEMMA TransfersStay ==
  ASSUME NEW s, \A y \in {"InitializingDevice", "Configured"} : InPhase(s, y) => InPhase(s, y)',
         dev'[s].tds = dev[s].tds, dev'[s].hid = dev[s].hid
  PROVE  /\ Asked(s) => Asked(s)'
         /\ \A e : e.slot = s /\ Answered(e) => Answered(e)'
<1>1. \A t : Fits(s, t) => Fits(s, t)'
  BY DEF Fits, PhaseOf
<1> QED
  BY <1>1 DEF Asked, Answered, OneSingle, NoSingle

(* Outside the two phases there are no transfers. *)
LEMMA NoTransfers ==
  ASSUME QInv, NEW s \in 0 .. NumSlots,
         \A y \in {"InitializingDevice", "Configured"} : ~InPhase(s, y)
  PROVE  /\ \A t \in Transfers : dev[s].tds[t] = 0
         /\ \A e \in Items(events) : e.type = "Transfer" => e.slot # s
<1>1. \A t : ~Fits(s, t)
  BY DEF Fits, PhaseOf
<1>2. Asked(s) /\ EventInv /\ dev[s] \in Devices
  BY QueueTypes DEF QInv, QueueInv, TransferInv
<1>3. \A t \in Transfers : dev[s].tds[t] \in Nat
  BY <1>2 DEF Devices
<1>4. \A t \in Transfers : dev[s].tds[t] = 0
  BY <1>1, <1>2, <1>3 DEF Asked
<1>5. \A e \in Items(events) : e.type = "Transfer" => e.slot # s
  BY <1>1, <1>2 DEF EventInv, Answered
<1> QED
  BY <1>4, <1>5

(* A device with nothing outstanding is asked for one kind of transfer. *)
LEMMA FirstAsked ==
  ASSUME QInv, NEW s \in 0 .. NumSlots, \A t \in Transfers : dev[s].tds[t] = 0,
         NEW u \in Transfers, NEW n \in Nat, u # "InterruptIn", u \in Singles => n = 1,
         dev'[s].tds = [dev[s].tds EXCEPT ![u] = dev[s].tds[u] + n], InPhase(s, PhaseOf(u))'
  PROVE  Asked(s)'
<1>1. dev[s].tds \in [Transfers -> Nat] /\ Singles \subseteq Transfers
  BY QueueTypes DEF QInv, Devices, Singles
<1>2. \A t \in Transfers : dev'[s].tds[t] = IF t = u THEN n ELSE 0
  BY <1>1
<1>3. OneSingle(dev'[s])
  BY <1>1, <1>2 DEF OneSingle
<1>4. Fits(s, u)'
  BY DEF Fits
<1> QED
  BY <1>2, <1>3, <1>4 DEF Asked

(* Nothing about a port past its reset changes. *)
Untouched == {"NotConnected", "WaitingAddressed", "ResettingPort"}

LEMMA Frame ==
  ASSUME QInv,
         dev' = dev, cmds' = cmds,
         \A q \in 0 .. NumPorts : phase[q] \notin Untouched => phase'[q] = phase[q],
         addressing' = addressing \/ addressing = 0,
         HandingOver => HandingOver',
         \A e \in Items(events') : e \in Items(events) \/ e.type = "Port"
  PROVE  CommandInv' /\ EventInv' /\ TransferInv'
<1>0. /\ CommandInv /\ EventInv /\ TransferInv
      /\ phase[0] = "NotConnected" /\ addressing \in 0 .. NumPorts
      /\ \A s \in 0 .. NumSlots : dev[s].port \in 0 .. NumPorts
      /\ Items(cmds) \subseteq CommandTRBs /\ Items(events) \subseteq Events
      /\ Slots \subseteq 0 .. NumSlots
  BY QueueTypes DEF QInv, QueueInv
<1>1. \A x : phase[addressing] = x /\ x \notin Untouched =>
        addressing' = addressing /\ phase'[addressing'] = x
  BY <1>0 DEF Untouched
<1>2. \A s \in 0 .. NumSlots : \A x : x \notin Untouched /\ InPhase(s, x) => InPhase(s, x)'
  BY <1>0 DEF InPhase
<1>4. "EnablingSlot" \notin Untouched /\ "AddressingDevice" \notin Untouched
      /\ "ConfiguringEndpoints" \notin Untouched
  BY DEF Untouched
<1>3. \A s \in 0 .. NumSlots :
        (Asked(s) => Asked(s)') /\ \A e : e.slot = s /\ Answered(e) => Answered(e)'
  BY <1>0, <1>2, TransfersStay DEF Untouched
<1>5. CommandInv'
  <2> SUFFICES ASSUME NEW c \in Items(cmds)
               PROVE  /\ c.kind = "EnableSlot" => phase'[addressing'] = "EnablingSlot"
                      /\ c.kind = "AddressDevice" =>
                           /\ phase'[addressing'] = "AddressingDevice"
                           /\ c.port = addressing'
                           /\ \A t \in 0 .. NumSlots : dev'[t].port # addressing'
                      /\ c.kind = "ConfigureEndpoint" => InPhase(c.slot, "ConfiguringEndpoints")'
    BY DEF CommandInv
  <2>1. c.slot \in 0 .. NumSlots
    BY <1>0 DEF CommandTRBs
  <2> QED
    BY <1>0, <1>1, <1>2, <1>4, <2>1 DEF CommandInv
<1>6. EventInv'
  <2> SUFFICES ASSUME NEW e \in Items(events'), e.type # "Port"
               PROVE  /\ e.type = "Command" =>
                           /\ e.of = "EnableSlot" => phase'[addressing'] = "EnablingSlot"
                           /\ e.of = "AddressDevice" =>
                                phase'[addressing'] = "AddressingDevice" \/ HandingOver'
                           /\ e.of = "ConfigureEndpoint" =>
                                InPhase(e.slot, "ConfiguringEndpoints")'
                      /\ e.type = "Transfer" => Answered(e)'
    BY DEF EventInv
  <2>1. e \in Items(events) /\ e.slot \in 0 .. NumSlots
    BY <1>0 DEF Events
  <2> QED
    BY <1>0, <1>1, <1>2, <1>4, <1>3, <2>1 DEF EventInv
<1>7. TransferInv'
  BY <1>0, <1>3 DEF TransferInv
<1> QED
  BY <1>5, <1>6, <1>7

(* The queue invariants that no lemma above has for every step. *)
CoreInv ==
  /\ HandOverInv /\ CommandInv /\ EventInv /\ TransferInv
  /\ Distinct(cmds, events)

LEMMA QueueBoot ==
  ASSUME QInv, BootPort
  PROVE  CoreInv'
<1>0. /\ phase \in [0 .. NumPorts -> Phases] /\ Distinct(cmds, events)
      /\ pc = "Boot" /\ ~HandingOver
      /\ bootPort \in Ports /\ phase[bootPort] = "NotConnected"
  BY QueueTypes DEF QInv, QueueInv, IInv, ControlInv, BootInv, Ports, BootPort, HandingOver,
     Resetting
<1>1. dev' = dev /\ cmds' = cmds /\ events' = events
  BY DEF BootPort, hwVars
<1>2. \A q \in 0 .. NumPorts : phase[q] \notin Untouched => phase'[q] = phase[q]
  BY <1>0 DEF BootPort, BeginReset, Queue, Untouched
<1>3. addressing' = addressing \/ addressing = 0
  BY DEF BootPort, Idle, Queue
<1>4. ~HandingOver'
  BY <1>0 DEF BootPort, BeginReset, Nowhere, NextBootPort, HandingOver, Resetting
<1>5. CommandInv' /\ EventInv' /\ TransferInv'
  BY <1>0, <1>1, <1>2, <1>3, Frame
<1> QED
  BY <1>0, <1>1, <1>4, <1>5 DEF CoreInv, HandOverInv

LEMMA QueueWriteReset ==
  ASSUME QInv, WriteReset
  PROVE  CoreInv'
<1>1. /\ HandOverInv /\ Distinct(cmds, events)
      /\ UNCHANGED <<phase, addressing, dev, cmds, events, after>>
      /\ pc = "Reset" /\ pc' = "Spin"
  BY DEF QInv, QueueInv, WriteReset
<1>2. HandingOver' <=> HandingOver
  BY <1>1 DEF HandingOver, Resetting
<1>3. CommandInv' /\ EventInv' /\ TransferInv'
  BY <1>1, <1>2, Frame
<1>4. HandOverInv'
  BY <1>1, <1>2 DEF HandOverInv
<1> QED
  BY <1>1, <1>3, <1>4 DEF CoreInv

LEMMA QueuePlugged ==
  ASSUME QInv, HasEvent, NEW p \in Ports, OnPlugged(p)
  PROVE  CoreInv'
<1>0. /\ phase \in [0 .. NumPorts -> Phases] /\ p \in 0 .. NumPorts
      /\ Distinct(cmds, events) /\ ~HandingOver /\ events # <<>>
  BY QueueTypes DEF QInv, QueueInv, HasEvent, HandingOver, Resetting
<1>1. dev' = dev /\ cmds' = cmds
  BY DEF OnPlugged
<1>2. \A q \in 0 .. NumPorts : phase[q] \notin Untouched => phase'[q] = phase[q]
  BY <1>0 DEF OnPlugged, IsFresh, BeginReset, Queue, Untouched
<1>3. addressing' = addressing \/ addressing = 0
  BY DEF OnPlugged, Idle, Queue
<1>4. ~HandingOver'
  BY <1>0 DEF OnPlugged, BeginReset, BackToLoop, Queue, HasEvent, HandingOver, Resetting
<1>5. Items(events') \subseteq Items(events) /\ Distinct(cmds, events')
  BY <1>0, PopStep DEF OnPlugged
<1>6. CommandInv' /\ EventInv' /\ TransferInv'
  BY <1>0, <1>1, <1>2, <1>3, <1>5, Frame
<1> QED
  BY <1>1, <1>4, <1>5, <1>6 DEF CoreInv, HandOverInv

LEMMA QueueIgnore ==
  ASSUME QInv, HasEvent, Ignore
  PROVE  CoreInv'
<1>0. /\ ~HandingOver /\ events # <<>> /\ Pop
      /\ UNCHANGED <<phase, addressing, dev, cmds, pc, after>>
  BY DEF HasEvent, HandingOver, Resetting, Ignore, driverVars
<1>1. Items(events') \subseteq Items(events) /\ Distinct(cmds, events')
  BY <1>0, PopStep
<1>2. CommandInv' /\ EventInv' /\ TransferInv'
  BY <1>0, <1>1, Frame
<1>3. ~HandingOver'
  BY <1>0 DEF HandingOver, Resetting
<1> QED
  BY <1>0, <1>1, <1>2, <1>3 DEF CoreInv, HandOverInv

LEMMA QueuePort ==
  ASSUME QInv, NEW p \in Ports, PlugIn(p) \/ PullOut(p) \/ ResetDone(p)
  PROVE  CoreInv'
<1>0. /\ UNCHANGED <<phase, addressing, dev, pc, after, cmds>>
      /\ HandOverInv
      /\ \E bit : Report(p, bit)
  BY DEF QInv, QueueInv, PlugIn, PullOut, ResetDone, driverVars
<1>1. /\ \A e \in Items(events') : e \in Items(events) \/ e.type = "Port"
      /\ events # <<>> => Head(events') = Head(events)
      /\ Distinct(cmds, events')
  BY <1>0, ReportStep
<1>2. HandingOver' <=> HandingOver
  BY <1>0 DEF HandingOver, Resetting
<1>3. CommandInv' /\ EventInv' /\ TransferInv'
  BY <1>0, <1>1, <1>2, Frame
<1>4. HandingOver => events # <<>>
  BY DEF QInv, IInv, ControlInv, ResetInv, HandingOver
<1>5. HandOverInv'
  BY <1>0, <1>1, <1>2, <1>4 DEF HandOverInv
<1> QED
  BY <1>0, <1>1, <1>3, <1>5 DEF CoreInv

LEMMA QueueStutter ==
  ASSUME QInv, UNCHANGED vars
  PROVE  CoreInv'
BY DEF QInv, QueueInv, CoreInv, vars, driverVars, hwVars, HandOverInv, HandingOver, Resetting,
   CommandInv, EventInv, TransferInv, Asked, Answered, Fits, OneSingle, NoSingle, InPhase

-----------------------------------------------------------------------------
(* A device and its port move on *)

LEMMA SlotMove ==
  ASSUME QInv, NEW s \in 0 .. NumSlots, dev[s].port # 0,
         NEW d, dev' = [dev EXCEPT ![s] = d], d.port = dev[s].port,
         NEW x, phase' = [phase EXCEPT ![dev[s].port] = x]
  PROVE  /\ dev'[s] = d /\ InPhase(s, x)'
         /\ \A t \in 0 .. NumSlots : t # s =>
              dev'[t] = dev[t] /\ \A y : InPhase(t, y) => InPhase(t, y)'
         /\ \A t \in 0 .. NumSlots : dev'[t].port = dev[t].port
         /\ \A t \in 0 .. NumSlots : t # s =>
              Asked(t)' /\ \A e : e.slot = t /\ Answered(e) => Answered(e)'
<1>0. /\ dev \in [0 .. NumSlots -> Devices] /\ phase \in [0 .. NumPorts -> Phases]
      /\ dev[s].port \in 0 .. NumPorts
      /\ \A t \in 0 .. NumSlots : dev[t].port = dev[s].port => t = s
  BY QueueTypes DEF QInv, QueueInv, ContextInv
<1>1. dev'[s] = d /\ \A t \in 0 .. NumSlots : t # s => dev'[t] = dev[t]
  BY <1>0
<1>2. phase'[dev[s].port] = x /\ \A q : q # dev[s].port => phase'[q] = phase[q]
  <2>1. DOMAIN phase = 0 .. NumPorts
    BY <1>0
  <2>2. \A q : q # dev[s].port => phase'[q] = phase[q]
    BY <2>1
  <2> QED
    BY <1>0, <2>2
<1>3. \A t \in 0 .. NumSlots : t # s => \A y : InPhase(t, y) => InPhase(t, y)'
  BY <1>0, <1>1, <1>2 DEF InPhase
<1>4. \A t \in 0 .. NumSlots : t # s =>
        Asked(t)' /\ \A e : e.slot = t /\ Answered(e) => Answered(e)'
  BY <1>1, <1>3, TransfersStay DEF QInv, QueueInv, TransferInv
<1> QED
  BY <1>0, <1>1, <1>2, <1>3, <1>4 DEF InPhase

(* While no port has its slot enabled or its address set, no command of    *)
(* the addressing sequence is anywhere.                                    *)
LEMMA NoSequence ==
  ASSUME QInv, phase[addressing] \notin {"EnablingSlot", "AddressingDevice"}, ~HandingOver
  PROVE  /\ \A c \in Items(cmds) : c.kind = "ConfigureEndpoint"
         /\ \A e \in Items(events) : e.type = "Command" => e.of = "ConfigureEndpoint"
<1>1. /\ Items(cmds) \subseteq CommandTRBs /\ Items(events) \subseteq Events
      /\ CommandInv /\ EventInv
  BY QueueTypes DEF QInv, QueueInv
<1>2. \A c \in Items(cmds) : c.kind \in Commands
  BY <1>1 DEF CommandTRBs
<1>3. \A e \in Items(events) : e.type = "Command" => e.of \in Commands
  BY <1>1 DEF Events
<1> QED
  BY <1>1, <1>2, <1>3 DEF CommandInv, EventInv, Commands

(* The one that is being handled is the only one. *)
LEMMA OnlySequence ==
  ASSUME QInv, events # <<>>, Front.type = "Command", Front.of # "ConfigureEndpoint"
  PROVE  /\ \A c \in Items(cmds) : c.kind = "ConfigureEndpoint"
         /\ \A e \in Items(Tail(events)) : e.type = "Command" => e.of = "ConfigureEndpoint"
<1>1. /\ cmds \in Seq(CommandTRBs) /\ events \in Seq(Events) /\ Distinct(cmds, events)
  BY QueueTypes DEF QInv, QueueInv
<1>2. /\ \A y \in Items(Tail(events)) : Keyed(y) => EventKey(y) # EventKey(Front)
      /\ \A y \in Items(cmds) : CommandKey(y.kind, y.slot) # EventKey(Front)
  BY <1>1, DistinctFront, Keys DEF Front
<1>3. EventKey(Front) = CommandKey(Front.of, Front.slot)
  BY Keys
<1>4. \A y \in Items(cmds) : y.kind = "ConfigureEndpoint"
  BY <1>2, <1>3, Keys
<1>5. ASSUME NEW y \in Items(Tail(events)), y.type = "Command", y.of # "ConfigureEndpoint"
      PROVE  FALSE
  <2>1. Keyed(y) /\ EventKey(y) = CommandKey(y.of, y.slot)
    BY <1>5, Keys
  <2>2. EventKey(y) = EventKey(Front)
    BY <1>3, <1>5, <2>1, Keys
  <2> QED
    BY <1>2, <1>5, <2>1, <2>2
<1> QED
  BY <1>4, <1>5

(* The end of the reset: the port that left the critical section starts    *)
(* its device.                                                             *)
LEMMA QueueFinish ==
  ASSUME QInv, FinishReset
  PROVE  CoreInv'
<1>0. /\ CommandInv /\ EventInv /\ TransferInv /\ HandOverInv /\ Distinct(cmds, events)
      /\ phase \in [0 .. NumPorts -> Phases] /\ Slots \subseteq 0 .. NumSlots
      /\ Items(cmds) \subseteq CommandTRBs /\ Items(events) \subseteq Events
      /\ \A e \in Events : e.slot \in 0 .. NumSlots
      /\ events \in Seq(Events)
  BY QueueTypes DEF QInv, QueueInv
<1>1. ~HandingOver' /\ UNCHANGED <<addressing, cmds>> /\ Resetting
  BY DEF FinishReset, Nowhere, HandingOver, Resetting
<1>2. CASE after.to = "Boot"
  <2>1. UNCHANGED <<phase, dev, events>> /\ ~HandingOver
    BY <1>2 DEF FinishReset, HandingOver
  <2>2. CommandInv' /\ EventInv' /\ TransferInv'
    BY <1>1, <2>1, Frame
  <2> QED
    BY <1>0, <1>1, <2>1, <2>2 DEF CoreInv, HandOverInv
<1>3. CASE after.to = "Loop"
  <2>1. UNCHANGED <<phase, dev>> /\ Pop /\ ~HandingOver /\ events # <<>>
    BY <1>1, <1>3 DEF FinishReset, HandingOver, QInv, IInv, ControlInv, ResetInv
  <2>2. Items(events') \subseteq Items(events) /\ Distinct(cmds, events')
    BY <2>1, PopStep
  <2>3. CommandInv' /\ EventInv' /\ TransferInv'
    BY <1>1, <2>1, <2>2, Frame
  <2> QED
    BY <1>1, <2>2, <2>3 DEF CoreInv, HandOverInv
<1>4. CASE after.to = "Init"
  <2>0. after.slot \in 0 .. NumSlots
    BY DEF QInv, IInv, TypeOK, Continuations
  <2>s. PICK s \in 0 .. NumSlots : s = after.slot
    BY <2>0
  <2>p. PICK p : p = after.port
    OBVIOUS
  <2>1. /\ p \in Ports /\ phase[p] = "AddressingDevice" /\ events # <<>>
        /\ dev[s].port = p
        /\ Front.type = "Command" /\ Front.of = "AddressDevice"
    <3>1. p \in Ports /\ phase[p] = "AddressingDevice" /\ events # <<>>
      BY <1>1, <1>4, <2>p DEF QInv, IInv, ControlInv, ResetInv
    <3>3. HandingOver
      BY <1>1, <1>4 DEF HandingOver
    <3> QED
      BY <1>0, <2>s, <2>p, <3>1, <3>3 DEF HandOverInv, Front
  <2>2. /\ phase' = [phase EXCEPT ![p] = "InitializingDevice"]
        /\ dev' = [dev EXCEPT ![s] = Started(dev[s])]
        /\ Pop
    BY <1>4, <2>s, <2>p DEF FinishReset
  <2>3. Items(events') \subseteq Items(events) /\ Distinct(cmds, events') /\ events' = Tail(events)
    BY <2>1, <2>2, PopStep
  <2>4. /\ \A c \in Items(cmds) : c.kind = "ConfigureEndpoint"
        /\ \A e \in Items(Tail(events)) : e.type = "Command" => e.of = "ConfigureEndpoint"
    BY <2>1, OnlySequence
  <2>5. PICK d : /\ d.port = dev[s].port /\ dev' = [dev EXCEPT ![s] = d]
                 /\ d.tds = [dev[s].tds EXCEPT !["DeviceDesc"] = dev[s].tds["DeviceDesc"] + 1]
    BY <2>1, <2>2, StartedType DEF QInv, IInv, TypeOK
  <2>6. p # 0
    BY <2>1 DEF Ports
  <2>7. /\ InPhase(s, "InitializingDevice")' /\ dev'[s] = d
        /\ \A t \in 0 .. NumSlots : t # s =>
             /\ \A y : InPhase(t, y) => InPhase(t, y)'
             /\ Asked(t)' /\ \A e : e.slot = t /\ Answered(e) => Answered(e)'
    <3>2. phase' = [phase EXCEPT ![dev[s].port] = "InitializingDevice"]
      BY <2>1, <2>2
    <3>3. dev[s].port # 0
      BY <2>1, <2>6
    <3> QED
      BY <2>1, <2>5, <3>2, <3>3, SlotMove
  <2>8. \A y : InPhase(s, y) => y = "AddressingDevice"
    BY <2>1 DEF InPhase
  <2>9. CommandInv'
    <3>1. \A c \in Items(cmds) : InPhase(c.slot, "ConfiguringEndpoints")'
      BY <1>0, <2>4, <2>7, <2>8 DEF CommandInv, CommandTRBs
    <3> QED
      BY <1>1, <2>4, <3>1 DEF CommandInv
  <2>10. EventInv'
    <3>1. \A e \in Items(events') :
            /\ e.type = "Command" => InPhase(e.slot, "ConfiguringEndpoints")
            /\ e.type = "Transfer" => Answered(e) /\ e.slot # s
      BY <1>0, <2>3, <2>4, <2>8, NoTransfers DEF EventInv
    <3>2. \A e \in Items(events') : e.slot \in 0 .. NumSlots
      BY <1>0, <2>3
    <3>3. \A e \in Items(events') :
            /\ e.type = "Command" => InPhase(e.slot, "ConfiguringEndpoints")'
            /\ e.type = "Transfer" => Answered(e)'
      BY <2>7, <2>8, <3>1, <3>2
    <3> QED
      BY <2>3, <2>4, <3>3 DEF EventInv
  <2>11. TransferInv'
    <3>1. PhaseOf("DeviceDesc") = "InitializingDevice" /\ "DeviceDesc" \in Transfers
      BY DEF PhaseOf, Transfers
    <3>2. \A t \in Transfers : dev[s].tds[t] = 0
      BY <2>8, NoTransfers
    <3>3. Asked(s)'
      BY <2>5, <2>7, <3>1, <3>2, FirstAsked
    <3> QED
      BY <2>7, <3>3 DEF TransferInv
  <2> QED
    BY <1>1, <2>3, <2>9, <2>10, <2>11 DEF CoreInv, HandOverInv
<1> QED
  BY <1>2, <1>3, <1>4 DEF FinishReset

(* PortStatusChangeEvent after the reset: EnableSlot is rung in. *)
LEMMA QueuePortReset ==
  ASSUME QInv, HasEvent, NEW p \in Ports, OnPortReset(p)
  PROVE  CoreInv'
<1> DEFINE x == [kind |-> "EnableSlot", slot |-> 0, port |-> 0]
<1>0. /\ CommandInv /\ EventInv /\ TransferInv
      /\ phase \in [0 .. NumPorts -> Phases] /\ Slots \subseteq 0 .. NumSlots
      /\ Ports \subseteq 0 .. NumPorts
      /\ Items(cmds) \subseteq CommandTRBs /\ Items(events) \subseteq Events
      /\ \A e \in Events : e.slot \in 0 .. NumSlots
      /\ cmds \in Seq(CommandTRBs) /\ events \in Seq(Events)
      /\ pc = "Loop" /\ events # <<>> /\ ~HandingOver
  BY QueueTypes DEF QInv, QueueInv, HasEvent, HandingOver, Resetting
<1>1. /\ phase[p] = "ResettingPort" /\ phase' = [phase EXCEPT ![p] = "EnablingSlot"]
      /\ UNCHANGED <<addressing, dev, pc, after>> /\ Pop /\ cmds' = Append(cmds, x)
  BY DEF OnPortReset, Ring
<1>2. p = addressing
  BY <1>0, <1>1 DEF QInv, IInv, ControlInv, AddressingExclusive, Leaving, InSequence
<1>3. /\ \A c \in Items(cmds) : c.kind = "ConfigureEndpoint"
      /\ \A e \in Items(events) : e.type = "Command" => e.of = "ConfigureEndpoint"
  BY <1>0, <1>1, <1>2, NoSequence
<1>4. x \in CommandTRBs /\ x.kind = "EnableSlot"
  BY PortConfigAssumption DEF CommandTRBs, Commands
<1> HIDE DEF x
<1>5. Items(cmds') = Items(cmds) \cup {x}
  BY <1>0, <1>1, <1>4, ItemsOfAppend
<1>6. Items(events') \subseteq Items(events) /\ Distinct(cmds, events') /\ events' = Tail(events)
  BY <1>0, <1>1, PopStep
<1>7. phase'[addressing'] = "EnablingSlot"
  BY <1>0, <1>1, <1>2
<1>8. \A s \in 0 .. NumSlots :
        /\ \A y : y # "ResettingPort" /\ InPhase(s, y) => InPhase(s, y)'
        /\ Asked(s)' /\ \A e : e.slot = s /\ Answered(e) => Answered(e)'
  <2>1. \A s \in 0 .. NumSlots : \A y : y # "ResettingPort" /\ InPhase(s, y) => InPhase(s, y)'
    BY <1>0, <1>1 DEF InPhase
  <2> QED
    BY <1>0, <1>1, <2>1, TransfersStay DEF TransferInv
<1>9. CommandInv'
  <2>1. \A c \in Items(cmds) : InPhase(c.slot, "ConfiguringEndpoints")'
    BY <1>0, <1>3, <1>8 DEF CommandInv, CommandTRBs
  <2> QED
    BY <1>3, <1>4, <1>5, <1>7, <2>1 DEF CommandInv
<1>10. EventInv'
  <2>1. \A e \in Items(events') : e.slot \in 0 .. NumSlots
    BY <1>0, <1>6
  <2>2. \A e \in Items(events') :
          /\ e.type = "Command" => InPhase(e.slot, "ConfiguringEndpoints")'
          /\ e.type = "Transfer" => Answered(e)'
    BY <1>0, <1>1, <1>3, <1>6, <1>8, <2>1 DEF EventInv
  <2> QED
    BY <1>3, <1>6, <2>2 DEF EventInv
<1>11. TransferInv'
  BY <1>8 DEF TransferInv
<1>12. Distinct(cmds', events')
  <2>1. ASSUME NEW e \in Items(Tail(events)), Keyed(e)
        PROVE  EventKey(e) # CommandKey(x.kind, x.slot)
    <3>1. e \in Events /\ (e.type = "Command" => e.of = "ConfigureEndpoint")
      BY <1>0, <1>3, <1>6
    <3>2. e.type = "Command" \/ e.type = "Transfer"
      BY <2>1 DEF Keyed
    <3>3. CASE e.type = "Transfer"
      BY <3>3, Keys
    <3>4. CASE e.type = "Command"
      <4>1. EventKey(e) = CommandKey("ConfigureEndpoint", e.slot)
        BY <3>1, <3>4, Keys
      <4> QED
        BY <1>4, <4>1, Keys
    <3> QED
      BY <3>2, <3>3, <3>4
  <2>2. \A c \in Items(cmds) : CommandKey(c.kind, c.slot) # CommandKey(x.kind, x.slot)
    BY <1>3, <1>4, Keys
  <2>3. Tail(events) \in Seq(Events) /\ Distinct(cmds, Tail(events))
    BY <1>0, <1>6
  <2>4. Distinct(Append(cmds, x), Tail(events))
    BY <1>0, <1>4, <2>1, <2>2, <2>3, DistinctRing
  <2> QED
    BY <1>1, <1>6, <2>4
<1>13. ~HandingOver'
  BY <1>0, <1>1 DEF HandingOver, Resetting
<1> QED
  BY <1>9, <1>10, <1>11, <1>12, <1>13 DEF CoreInv, HandOverInv

(* Completion of EnableSlot: AddressDevice is rung in for the same port. *)
LEMMA QueueEnableSlot ==
  ASSUME QInv, OnEnableSlot
  PROVE  CoreInv'
<1>0. /\ CommandInv /\ EventInv /\ TransferInv
      /\ phase \in [0 .. NumPorts -> Phases] /\ phase[0] = "NotConnected"
      /\ dev \in [0 .. NumSlots -> Devices] /\ addressing \in 0 .. NumPorts
      /\ Slots \subseteq 0 .. NumSlots
      /\ Items(cmds) \subseteq CommandTRBs /\ Items(events) \subseteq Events
      /\ \A e \in Events : e.slot \in 0 .. NumSlots
      /\ cmds \in Seq(CommandTRBs) /\ events \in Seq(Events)
      /\ pc = "Loop" /\ events # <<>> /\ ~HandingOver
      /\ Front.type = "Command" /\ Front.of = "EnableSlot"
  BY QueueTypes DEF QInv, QueueInv, OnEnableSlot, HasEvent, HandingOver, Resetting
<1>1. CASE Ignore
  BY <1>1, QueueIgnore DEF OnEnableSlot
<1>2. CASE ~Ignore
  <2>1. Front.slot \in 0 .. NumSlots
    BY <1>0, FrontType DEF QInv, IInv
  <2>2. PICK s \in 0 .. NumSlots : s = Front.slot
    BY <2>1
  <2>3. PICK x : x = [kind |-> "AddressDevice", slot |-> s, port |-> addressing]
    OBVIOUS
  <2>4. /\ phase[addressing] = "EnablingSlot"
        /\ phase' = [phase EXCEPT ![addressing] = "AddressingDevice"]
        /\ dev' = [dev EXCEPT ![s] = [dev[s] EXCEPT !.alloc = TRUE]]
        /\ UNCHANGED <<addressing, pc, after>> /\ Pop /\ cmds' = Append(cmds, x)
    BY <1>2, <2>2, <2>3 DEF OnEnableSlot, Ring
  <2>5. /\ x \in CommandTRBs /\ x.kind = "AddressDevice" /\ x.port = addressing
    BY <1>0, <2>3 DEF CommandTRBs, Commands
  <2>6. Items(cmds') = Items(cmds) \cup {x}
    BY <1>0, <2>4, <2>5, ItemsOfAppend
  <2>7. /\ Items(events') \subseteq Items(events) /\ Distinct(cmds, events')
        /\ events' = Tail(events)
    BY <1>0, <2>4, PopStep
  <2>8. /\ \A c \in Items(cmds) : c.kind = "ConfigureEndpoint"
        /\ \A e \in Items(events') : e.type = "Command" => e.of = "ConfigureEndpoint"
    BY <1>0, <2>7, OnlySequence
  <2>9. \A t \in 0 .. NumSlots :
          dev'[t].port = dev[t].port /\ dev'[t].tds = dev[t].tds /\ dev'[t].hid = dev[t].hid
    <3>1. dev[s] \in Devices
      BY <1>0
    <3>2. PICK d : d = [dev[s] EXCEPT !.alloc = TRUE]
      OBVIOUS
    <3>3. d.port = dev[s].port /\ d.tds = dev[s].tds /\ d.hid = dev[s].hid
      BY <3>1, <3>2, AllocatedType
    <3>4. dev' = [dev EXCEPT ![s] = d]
      BY <2>4, <3>2
    <3> QED
      BY <1>0, <3>3, <3>4
  <2>10. \A t \in 0 .. NumSlots : dev[t].port # addressing
    BY <1>0, <2>4 DEF QInv, IInv, DefaultAddressInv, OutputContexts, Early
  <2>11. phase'[addressing'] = "AddressingDevice"
    BY <1>0, <2>4
  <2>12. \A t \in 0 .. NumSlots :
           /\ \A y : InPhase(t, y) => InPhase(t, y)'
           /\ Asked(t)' /\ \A e : e.slot = t /\ Answered(e) => Answered(e)'
    <3>1. \A t \in 0 .. NumSlots : \A y : InPhase(t, y) => InPhase(t, y)'
      BY <1>0, <2>4, <2>9, <2>10 DEF InPhase
    <3> QED
      BY <1>0, <2>9, <3>1, TransfersStay DEF TransferInv
  <2>13. CommandInv'
    <3>1. \A c \in Items(cmds) : InPhase(c.slot, "ConfiguringEndpoints")'
      BY <1>0, <2>8, <2>12 DEF CommandInv, CommandTRBs
    <3>2. \A t \in 0 .. NumSlots : dev'[t].port # addressing'
      BY <2>4, <2>9, <2>10
    <3> QED
      BY <2>4, <2>5, <2>6, <2>8, <2>11, <3>1, <3>2 DEF CommandInv
  <2>14. EventInv'
    <3>1. \A e \in Items(events') : e.slot \in 0 .. NumSlots
      BY <1>0, <2>7
    <3>2. \A e \in Items(events') :
            /\ e.type = "Command" => InPhase(e.slot, "ConfiguringEndpoints")'
            /\ e.type = "Transfer" => Answered(e)'
      BY <1>0, <2>7, <2>8, <2>9, <2>12, <3>1 DEF EventInv
    <3> QED
      BY <2>8, <3>2 DEF EventInv
  <2>15. TransferInv'
    BY <2>12 DEF TransferInv
  <2>16. Distinct(cmds', events')
    <3>1. ASSUME NEW e \in Items(Tail(events)), Keyed(e)
          PROVE  EventKey(e) # CommandKey(x.kind, x.slot)
      <4>1. e \in Events /\ (e.type = "Command" => e.of = "ConfigureEndpoint")
        BY <1>0, <2>7, <2>8
      <4>2. e.type = "Command" \/ e.type = "Transfer"
        BY <3>1 DEF Keyed
      <4>3. CASE e.type = "Transfer"
        BY <4>3, Keys
      <4>4. CASE e.type = "Command"
        <5>1. EventKey(e) = CommandKey("ConfigureEndpoint", e.slot)
          BY <4>1, <4>4, Keys
        <5> QED
          BY <2>5, <5>1, Keys
      <4> QED
        BY <4>2, <4>3, <4>4
    <3>2. \A c \in Items(cmds) : CommandKey(c.kind, c.slot) # CommandKey(x.kind, x.slot)
      BY <2>5, <2>8, Keys
    <3>3. Tail(events) \in Seq(Events) /\ Distinct(cmds, Tail(events))
      BY <1>0, <2>7
    <3>4. Distinct(Append(cmds, x), Tail(events))
      BY <1>0, <2>5, <3>1, <3>2, <3>3, DistinctRing
    <3> QED
      BY <2>4, <2>7, <3>4
  <2>17. ~HandingOver'
    BY <1>0, <2>4 DEF HandingOver, Resetting
  <2> QED
    BY <2>13, <2>14, <2>15, <2>16, <2>17 DEF CoreInv, HandOverInv
<1> QED
  BY <1>1, <1>2

(* Completion of AddressDevice: the critical section is handed over, which *)
(* leaves the event on the ring, or released.                              *)
LEMMA QueueAddressDevice ==
  ASSUME QInv, OnAddressDevice
  PROVE  CoreInv'
<1>0. /\ CommandInv /\ EventInv /\ TransferInv /\ Distinct(cmds, events)
      /\ phase \in [0 .. NumPorts -> Phases]
      /\ dev \in [0 .. NumSlots -> Devices]
      /\ Slots \subseteq 0 .. NumSlots /\ Ports \subseteq 0 .. NumPorts
      /\ Items(cmds) \subseteq CommandTRBs /\ Items(events) \subseteq Events
      /\ \A e \in Events : e.slot \in 0 .. NumSlots
      /\ cmds \in Seq(CommandTRBs) /\ events \in Seq(Events)
      /\ pc = "Loop" /\ events # <<>> /\ ~HandingOver
      /\ Front.type = "Command" /\ Front.of = "AddressDevice"
      /\ cmds' = cmds
  BY QueueTypes DEF QInv, QueueInv, OnAddressDevice, HasEvent, HandingOver, Resetting
<1>1. Front.slot \in 0 .. NumSlots
  BY <1>0, FrontType DEF QInv, IInv
<1>2. PICK s \in 0 .. NumSlots : s = Front.slot
  BY <1>1
<1>3. /\ \A c \in Items(cmds) : c.kind = "ConfigureEndpoint"
      /\ \A e \in Items(Tail(events)) : e.type = "Command" => e.of = "ConfigureEndpoint"
  BY <1>0, OnlySequence
<1>4. CASE HandsOver(s) /\ \E w \in WaitingPorts :
             BeginReset(w, [to |-> "Init", port |-> dev[s].port, slot |-> s])
           /\ UNCHANGED <<dev, events>>
  <2>1. PICK w \in WaitingPorts :
          /\ addressing' = w
          /\ phase' = [phase EXCEPT ![w] = "ResettingPort"]
          /\ pc' = "Reset"
          /\ after' = [to |-> "Init", port |-> dev[s].port, slot |-> s]
    BY <1>4 DEF BeginReset
  <2>2. w \in 0 .. NumPorts /\ phase[w] = "WaitingAddressed"
    BY <1>0 DEF WaitingPorts
  <2>3. UNCHANGED <<dev, events>> /\ HandingOver'
    BY <1>4, <2>1 DEF HandingOver, Resetting
  <2>4. HandOverInv'
    BY <1>0, <2>1, <2>3 DEF HandOverInv, Front
  <2>5. \A t \in 0 .. NumSlots :
          /\ \A y : y # "WaitingAddressed" /\ InPhase(t, y) => InPhase(t, y)'
          /\ Asked(t)' /\ \A e : e.slot = t /\ Answered(e) => Answered(e)'
    <3>1. \A t \in 0 .. NumSlots : \A y :
            y # "WaitingAddressed" /\ InPhase(t, y) => InPhase(t, y)'
      BY <1>0, <2>1, <2>2, <2>3 DEF InPhase
    <3> QED
      BY <1>0, <2>3, <3>1, TransfersStay DEF TransferInv
  <2>6. CommandInv'
    <3>1. \A c \in Items(cmds) : InPhase(c.slot, "ConfiguringEndpoints")'
      BY <1>0, <1>3, <2>5 DEF CommandInv, CommandTRBs
    <3> QED
      BY <1>0, <1>3, <3>1 DEF CommandInv
  <2>7. EventInv'
    <3>1. \A e \in Items(events) : ~(e.type = "Command" /\ e.of = "EnableSlot")
      BY <1>0, <1>4 DEF EventInv, HandsOver
    <3>2. \A e \in Items(events) :
            /\ e.type = "Command" /\ e.of = "ConfigureEndpoint" =>
                 InPhase(e.slot, "ConfiguringEndpoints")'
            /\ e.type = "Transfer" => Answered(e)'
      BY <1>0, <2>3, <2>5 DEF EventInv
    <3> QED
      BY <2>3, <3>1, <3>2 DEF EventInv
  <2>8. TransferInv'
    BY <2>5 DEF TransferInv
  <2>9. Distinct(cmds', events')
    BY <1>0, <2>3
  <2> QED
    BY <2>4, <2>6, <2>7, <2>8, <2>9 DEF CoreInv
<1>5. CASE HandsOver(s) /\ addressing' = 0
           /\ phase' = [phase EXCEPT ![dev[s].port] = "InitializingDevice"]
           /\ dev' = [dev EXCEPT ![s] = Started(dev[s])]
           /\ Pop /\ UNCHANGED <<pc, after>>
  <2>1. Items(events') \subseteq Items(events) /\ Distinct(cmds, events') /\ events' = Tail(events)
    BY <1>0, <1>5, PopStep
  <2>2. dev[s].port # 0 /\ \A y : InPhase(s, y) => y = "AddressingDevice"
    BY <1>5, QueueTypes DEF HandsOver, InPhase, QInv
  <2>3. PICK d : /\ d.port = dev[s].port /\ dev' = [dev EXCEPT ![s] = d]
                 /\ d.tds = [dev[s].tds EXCEPT !["DeviceDesc"] = dev[s].tds["DeviceDesc"] + 1]
    BY <1>0, <1>5, StartedType
  <2>4. /\ dev'[s] = d /\ InPhase(s, "InitializingDevice")'
        /\ \A t \in 0 .. NumSlots : t # s =>
             /\ \A y : InPhase(t, y) => InPhase(t, y)'
             /\ Asked(t)' /\ \A e : e.slot = t /\ Answered(e) => Answered(e)'
    BY <1>5, <2>2, <2>3, SlotMove
  <2>5. CommandInv'
    <3>1. \A c \in Items(cmds) : InPhase(c.slot, "ConfiguringEndpoints")'
      BY <1>0, <1>3, <2>2, <2>4 DEF CommandInv, CommandTRBs
    <3> QED
      BY <1>0, <1>3, <3>1 DEF CommandInv
  <2>6. EventInv'
    <3>1. \A e \in Items(events') :
            /\ e.type = "Command" => InPhase(e.slot, "ConfiguringEndpoints")
            /\ e.type = "Transfer" => Answered(e) /\ e.slot # s
      BY <1>0, <1>3, <2>1, <2>2, NoTransfers DEF EventInv
    <3>2. \A e \in Items(events') : e.slot \in 0 .. NumSlots
      BY <1>0, <2>1
    <3>3. \A e \in Items(events') :
            /\ e.type = "Command" => InPhase(e.slot, "ConfiguringEndpoints")'
            /\ e.type = "Transfer" => Answered(e)'
      BY <2>2, <2>4, <3>1, <3>2
    <3> QED
      BY <1>3, <2>1, <3>3 DEF EventInv
  <2>7. TransferInv'
    <3>1. PhaseOf("DeviceDesc") = "InitializingDevice" /\ "DeviceDesc" \in Transfers
      BY DEF PhaseOf, Transfers
    <3>2. \A t \in Transfers : dev[s].tds[t] = 0
      BY <2>2, NoTransfers
    <3>3. Asked(s)'
      BY <2>3, <2>4, <3>1, <3>2, FirstAsked
    <3> QED
      BY <2>4, <3>3 DEF TransferInv
  <2>8. ~HandingOver'
    BY <1>0, <1>5 DEF HandingOver, Resetting
  <2> QED
    BY <1>0, <2>1, <2>5, <2>6, <2>7, <2>8 DEF CoreInv, HandOverInv
<1>6. CASE Pop /\ UNCHANGED <<phase, addressing, dev, pc, after>>
  <2>1. Items(events') \subseteq Items(events) /\ Distinct(cmds, events')
    BY <1>0, <1>6, PopStep
  <2>2. ~HandingOver'
    BY <1>0, <1>6 DEF HandingOver, Resetting
  <2>3. CommandInv' /\ EventInv' /\ TransferInv'
    BY <1>0, <1>6, <2>1, Frame
  <2> QED
    BY <1>0, <2>1, <2>2, <2>3 DEF CoreInv, HandOverInv
<1> QED
  BY <1>2, <1>4, <1>5, <1>6 DEF OnAddressDevice

(* What is asked for the slot of the event is asked for only once. *)
LEMMA OnlyConfigure ==
  ASSUME QInv, events # <<>>, Front.type = "Command", Front.of = "ConfigureEndpoint"
  PROVE  /\ \A c \in Items(cmds) : c.kind = "ConfigureEndpoint" => c.slot # Front.slot
         /\ \A e \in Items(Tail(events)) :
              e.type = "Command" /\ e.of = "ConfigureEndpoint" => e.slot # Front.slot
<1>1. /\ cmds \in Seq(CommandTRBs) /\ events \in Seq(Events) /\ Distinct(cmds, events)
  BY QueueTypes DEF QInv, QueueInv
<1>2. /\ \A y \in Items(Tail(events)) : Keyed(y) => EventKey(y) # EventKey(Front)
      /\ \A y \in Items(cmds) : CommandKey(y.kind, y.slot) # EventKey(Front)
  BY <1>1, DistinctFront, Keys DEF Front
<1>3. EventKey(Front) = CommandKey("ConfigureEndpoint", Front.slot)
  BY Keys
<1>4. ASSUME NEW y \in Items(cmds), y.kind = "ConfigureEndpoint"
      PROVE  y.slot # Front.slot
  BY <1>2, <1>3, <1>4, Keys
<1>5. ASSUME NEW y \in Items(Tail(events)), y.type = "Command", y.of = "ConfigureEndpoint"
      PROVE  y.slot # Front.slot
  <2>1. Keyed(y) /\ EventKey(y) = CommandKey("ConfigureEndpoint", y.slot)
    BY <1>5, Keys
  <2> QED
    BY <1>2, <1>3, <1>5, <2>1, Keys
<1> QED
  BY <1>4, <1>5

LEMMA OnlyTransfer ==
  ASSUME QInv, events # <<>>, Front.type = "Transfer", Front.of \in Singles
  PROVE  \A e \in Items(Tail(events)) :
           e.type = "Transfer" /\ e.of \in Singles => e.slot # Front.slot
<1>1. /\ cmds \in Seq(CommandTRBs) /\ events \in Seq(Events) /\ Distinct(cmds, events)
  BY QueueTypes DEF QInv, QueueInv
<1>2. \A y : y.type = "Transfer" /\ y.of \in Singles => Keyed(y)
  BY DEF Keyed, Singles
<1>3. \A y \in Items(Tail(events)) : Keyed(y) => EventKey(y) # EventKey(Front)
  BY <1>1, <1>2, DistinctFront DEF Front
<1> QED
  BY <1>2, <1>3, Keys

(* Completion of ConfigureEndpoint: the port is configured, and the class  *)
(* driver asks for the boot protocol.                                      *)
LEMMA QueueConfigureEndpoint ==
  ASSUME QInv, OnConfigureEndpoint
  PROVE  CoreInv'
<1>0. /\ CommandInv /\ EventInv /\ TransferInv /\ Distinct(cmds, events)
      /\ phase \in [0 .. NumPorts -> Phases]
      /\ dev \in [0 .. NumSlots -> Devices]
      /\ Slots \subseteq 0 .. NumSlots /\ Ports \subseteq 0 .. NumPorts
      /\ Items(cmds) \subseteq CommandTRBs /\ Items(events) \subseteq Events
      /\ \A e \in Events : e.slot \in 0 .. NumSlots
      /\ cmds \in Seq(CommandTRBs) /\ events \in Seq(Events)
      /\ pc = "Loop" /\ events # <<>> /\ ~HandingOver
      /\ Front.type = "Command" /\ Front.of = "ConfigureEndpoint"
  BY QueueTypes DEF QInv, QueueInv, OnConfigureEndpoint, HasEvent, HandingOver, Resetting
<1>1. CASE Ignore
  BY <1>1, QueueIgnore DEF OnConfigureEndpoint
<1>2. CASE ~Ignore
  <2>1. Front.slot \in 0 .. NumSlots
    BY <1>0, FrontType DEF QInv, IInv
  <2>2. PICK s \in 0 .. NumSlots : s = Front.slot
    BY <2>1
  <2>3. PICK x : x = ClassStarted(dev[s])
    OBVIOUS
  <2>4. /\ phase[dev[s].port] = "ConfiguringEndpoints"
        /\ phase' = [phase EXCEPT ![dev[s].port] = "Configured"]
        /\ dev' = [dev EXCEPT ![s] = x]
        /\ UNCHANGED <<addressing, cmds, pc, after>> /\ Pop
    BY <1>2, <2>2, <2>3 DEF OnConfigureEndpoint
  <2>5. /\ x.port = dev[s].port
        /\ \E n \in Nat : x.tds = [dev[s].tds EXCEPT !["SetProtocol"] = dev[s].tds["SetProtocol"] + n]
    BY <1>0, <2>3, ClassStartedType
  <2>6. dev[s].port # 0 /\ dev[s].port \in 0 .. NumPorts
    BY <2>4, QueueTypes DEF QInv
  <2>7. /\ dev'[s] = x /\ InPhase(s, "Configured")'
        /\ \A t \in 0 .. NumSlots : t # s =>
             /\ \A y : InPhase(t, y) => InPhase(t, y)'
             /\ Asked(t)' /\ \A e : e.slot = t /\ Answered(e) => Answered(e)'
        /\ \A t \in 0 .. NumSlots : dev'[t].port = dev[t].port
    BY <2>4, <2>5, <2>6, SlotMove
  <2>8. /\ Items(events') \subseteq Items(events) /\ Distinct(cmds, events')
        /\ events' = Tail(events)
    BY <1>0, <2>4, PopStep
  <2>9. /\ \A c \in Items(cmds) : c.kind = "ConfigureEndpoint" => c.slot # s
        /\ \A e \in Items(events') :
             e.type = "Command" /\ e.of = "ConfigureEndpoint" => e.slot # s
    BY <1>0, <2>2, <2>8, OnlyConfigure
  <2>10. \A y : InPhase(s, y) => y = "ConfiguringEndpoints"
    BY <2>4 DEF InPhase
  <2>11. \A y \in {"EnablingSlot", "AddressingDevice"} :
           phase[addressing] = y => phase'[addressing'] = y
    BY <1>0, <2>4
  <2>12. CommandInv'
    <3> SUFFICES ASSUME NEW c \in Items(cmds)
                 PROVE  /\ c.kind = "EnableSlot" => phase'[addressing'] = "EnablingSlot"
                        /\ c.kind = "AddressDevice" =>
                             /\ phase'[addressing'] = "AddressingDevice"
                             /\ c.port = addressing'
                             /\ \A t \in 0 .. NumSlots : dev'[t].port # addressing'
                        /\ c.kind = "ConfigureEndpoint" =>
                             InPhase(c.slot, "ConfiguringEndpoints")'
      BY <2>4 DEF CommandInv
    <3>1. c.slot \in 0 .. NumSlots
      BY <1>0 DEF CommandTRBs
    <3>2. c.kind = "ConfigureEndpoint" => InPhase(c.slot, "ConfiguringEndpoints")'
      BY <1>0, <2>7, <2>9, <3>1 DEF CommandInv
    <3> QED
      BY <1>0, <2>4, <2>7, <2>11, <3>2 DEF CommandInv
  <2>13. EventInv'
    <3> SUFFICES ASSUME NEW e \in Items(events')
                 PROVE  /\ e.type = "Command" =>
                             /\ e.of = "EnableSlot" => phase'[addressing'] = "EnablingSlot"
                             /\ e.of = "AddressDevice" =>
                                  phase'[addressing'] = "AddressingDevice" \/ HandingOver'
                             /\ e.of = "ConfigureEndpoint" =>
                                  InPhase(e.slot, "ConfiguringEndpoints")'
                        /\ e.type = "Transfer" => Answered(e)'
      BY DEF EventInv
    <3>1. e \in Items(events) /\ e.slot \in 0 .. NumSlots
      BY <1>0, <2>8
    <3>2. e.type = "Transfer" => Answered(e)'
      <4>1. e.type = "Transfer" => Answered(e) /\ e.slot # s
        BY <1>0, <2>10, <3>1, NoTransfers DEF EventInv
      <4> QED
        BY <2>7, <3>1, <4>1
    <3>3. e.type = "Command" /\ e.of = "ConfigureEndpoint" =>
            InPhase(e.slot, "ConfiguringEndpoints")'
      BY <1>0, <2>7, <2>9, <3>1 DEF EventInv
    <3> QED
      BY <1>0, <2>11, <3>1, <3>2, <3>3 DEF EventInv
  <2>14. TransferInv'
    <3>1. /\ PhaseOf("SetProtocol") = "Configured" /\ "SetProtocol" \in Transfers
          /\ "SetProtocol" \notin Singles
      BY DEF PhaseOf, Transfers, Singles
    <3>2. \A t \in Transfers : dev[s].tds[t] = 0
      BY <2>10, NoTransfers
    <3>3. Asked(s)'
      BY <2>5, <2>7, <3>1, <3>2, FirstAsked
    <3> QED
      BY <2>7, <3>3 DEF TransferInv
  <2>15. ~HandingOver'
    BY <1>0, <2>4 DEF HandingOver, Resetting
  <2> QED
    BY <2>4, <2>8, <2>12, <2>13, <2>14, <2>15 DEF CoreInv, HandOverInv
<1> QED
  BY <1>1, <1>2

(* What a device asks for next is the only one of its kind ... *)
LEMMA AsksAlone ==
  ASSUME QInv, events # <<>>, Front.type = "Transfer", NEW s \in 0 .. NumSlots, s = Front.slot,
         NEW e, NEW u \in Singles, AsksNext(dev[s], Front.of, e, u)
  PROVE  /\ NoSingle(dev[s])
         /\ \A y \in Items(Tail(events)) : y.type = "Transfer" /\ y.of \in Singles => y.slot # s
<1>0. /\ Asked(s) /\ EventInv /\ events \in Seq(Events) /\ dev[s] \in Devices
      /\ Singles \subseteq Transfers
  BY QueueTypes DEF QInv, QueueInv, TransferInv, Singles
<1>1. Front \in Items(events) /\ Items(Tail(events)) \subseteq Items(events)
  BY <1>0, ItemsOfTail DEF Front
<1>2. Answered(Front) /\ Front.of \in Transfers
  <2>1. Front \in Events
    BY <1>0, <1>1, ItemsType
  <2> QED
    BY <1>0, <1>1, <2>1 DEF EventInv, Events
<1>3. CASE Front.of \in Singles
  BY <1>2, <1>3, OnlyTransfer DEF Answered
<1>4. CASE Front.of = "SetProtocol"
  <2>1. dev[s].hid # 2 /\ InPhase(s, "Configured")
    BY <1>2, <1>4 DEF AsksNext, Answered, Fits, PhaseOf
  <2>2. \A t \in Singles : ~Fits(s, t)
    BY <2>1 DEF Fits, InPhase, PhaseOf, Singles, Transfers
  <2>3. \A t \in Singles : dev[s].tds[t] \in Nat
    BY <1>0 DEF Devices
  <2>4. NoSingle(dev[s])
    BY <1>0, <2>2, <2>3 DEF Asked, NoSingle
  <2> QED
    BY <1>0, <1>1, <2>2, <2>4 DEF EventInv, Answered
<1> QED
  BY <1>2, <1>3, <1>4 DEF Singles

(* ... and goes with the phase the port is in. *)
LEMMA ReactionAsked ==
  ASSUME QInv, events # <<>>, Front.type = "Transfer", NEW s \in 0 .. NumSlots, s = Front.slot,
         dev'[s] = Reaction(dev[s], Front.of), events' = Tail(events),
         \A y : InPhase(s, y) => InPhase(s, y)'
  PROVE  /\ Asked(s)'
         /\ \A e \in Items(events') : e.type = "Transfer" /\ e.slot = s => Answered(e)'
<1>0. /\ Asked(s) /\ EventInv /\ events \in Seq(Events) /\ dev[s] \in Devices
      /\ Singles \subseteq Transfers /\ dev[s].tds \in [Transfers -> Nat]
  BY QueueTypes DEF QInv, QueueInv, TransferInv, Singles, Devices
<1>1. Front \in Items(events) /\ Items(events') \subseteq Items(events)
  BY <1>0, ItemsOfTail DEF Front
<1>2. Fits(s, Front.of)
  BY <1>0, <1>1 DEF EventInv, Answered
<1>3. PICK d : d = dev'[s]
  OBVIOUS
<1>4. /\ dev[s].hid = 2 => d.hid = 2
      /\ d.tds = dev[s].tds \/ \E u \in Singles : AsksNext(dev[s], Front.of, d, u)
  BY <1>0, <1>3, ReactionType
<1>5. \A t : Fits(s, t) => Fits(s, t)'
  BY <1>3, <1>4 DEF Fits
<1>6. CASE d.tds = dev[s].tds
  <2>1. Asked(s)'
    BY <1>0, <1>3, <1>5, <1>6 DEF Asked, OneSingle
  <2>2. \A e : Answered(e) /\ e.slot = s => Answered(e)'
    BY <1>3, <1>5, <1>6 DEF Answered, NoSingle
  <2> QED
    BY <1>0, <1>1, <2>1, <2>2 DEF EventInv
<1>7. ASSUME NEW u \in Singles, AsksNext(dev[s], Front.of, d, u)
      PROVE  /\ Asked(s)'
             /\ \A e \in Items(events') : e.type = "Transfer" /\ e.slot = s => Answered(e)'
  <2>1. /\ NoSingle(dev[s])
        /\ \A y \in Items(events') : y.type = "Transfer" /\ y.of \in Singles => y.slot # s
    BY <1>7, AsksAlone
  <2>2. \A t \in Transfers : d.tds[t] = IF t = u THEN dev[s].tds[t] + 1 ELSE dev[s].tds[t]
    BY <1>0, <1>7 DEF AsksNext
  <2>3. OneSingle(d)
    BY <1>0, <2>1, <2>2 DEF OneSingle, NoSingle
  <2>4. Fits(s, u)'
    BY <1>2, <1>3, <1>4, <1>7, SMTT(20) DEF AsksNext, Fits
  <2>5. \A t \in Transfers : d.tds[t] > 0 => Fits(s, t)'
    BY <1>0, <1>5, <2>2, <2>4 DEF Asked
  <2>6. Asked(s)'
    BY <1>3, <2>3, <2>5 DEF Asked
  <2> QED
    BY <1>0, <1>1, <1>5, <2>1, <2>6 DEF EventInv, Answered
<1> QED
  BY <1>4, <1>6, <1>7

(* A device that is initialized in this step has nothing outstanding. *)
LEMMA NothingAsked ==
  ASSUME QInv, events # <<>>, Front.type = "Transfer", NEW s \in 0 .. NumSlots, s = Front.slot,
         NEW d, d = Reaction(dev[s], Front.of), d.init = 4,
         phase[dev[s].port] = "InitializingDevice"
  PROVE  /\ \A t \in Transfers : d.tds[t] = 0
         /\ \A e \in Items(Tail(events)) : e.type = "Transfer" => e.slot # s
<1>0. /\ Asked(s) /\ EventInv /\ events \in Seq(Events) /\ dev[s] \in Devices
      /\ Items(events) \subseteq Events
      /\ Singles \subseteq Transfers /\ dev[s].tds \in [Transfers -> Nat]
  BY QueueTypes DEF QInv, QueueInv, TransferInv, Singles, Devices
<1>1. Front \in Items(events) /\ Items(Tail(events)) \subseteq Items(events)
  BY <1>0, ItemsOfTail DEF Front
<1>2. \A t : Fits(s, t) => t \notin {"SetProtocol", "InterruptIn"}
  BY DEF Fits, InPhase, PhaseOf
<1>3. Fits(s, Front.of) /\ Front.of \in Singles /\ NoSingle(dev[s])
  <2>1. Answered(Front) /\ Front.of \in Transfers
    BY <1>0, <1>1 DEF EventInv, Events
  <2> QED
    BY <1>2, <2>1 DEF Answered, Singles
<1>4. d.tds = dev[s].tds
  BY <1>0, <1>2, <1>3, ReactionType DEF AsksNext
<1>5. \A t \in Transfers : dev[s].tds[t] = 0
  <2>1. dev[s].tds["SetProtocol"] \in Nat /\ ~(dev[s].tds["SetProtocol"] > 0)
    BY <1>0, <1>2 DEF Asked, Transfers
  <2>2. \A t \in Transfers : t \in Singles \/ t = "SetProtocol"
    BY DEF Singles
  <2> QED
    BY <1>3, <2>1, <2>2 DEF NoSingle
<1>6. ASSUME NEW e \in Items(Tail(events)), e.type = "Transfer", e.slot = s PROVE FALSE
  <2>1. Answered(e) /\ e.of \in Transfers
    BY <1>0, <1>1, <1>6 DEF EventInv, Events
  <2>2. e.of \in Singles
    BY <1>2, <1>6, <2>1 DEF Answered, Singles
  <2> QED
    BY <1>3, <1>6, <2>2, OnlyTransfer
<1> QED
  BY <1>4, <1>5, <1>6

(* TransferEvent: the device reacts, and ConfigureEndpoint is rung in when *)
(* it is initialized.                                                      *)
LEMMA QueueTransfer ==
  ASSUME QInv, OnTransfer
  PROVE  CoreInv'
<1>0. /\ CommandInv /\ EventInv /\ TransferInv /\ Distinct(cmds, events)
      /\ phase \in [0 .. NumPorts -> Phases]
      /\ dev \in [0 .. NumSlots -> Devices]
      /\ Slots \subseteq 0 .. NumSlots /\ Ports \subseteq 0 .. NumPorts
      /\ Items(cmds) \subseteq CommandTRBs /\ Items(events) \subseteq Events
      /\ \A e \in Events : e.slot \in 0 .. NumSlots
      /\ cmds \in Seq(CommandTRBs) /\ events \in Seq(Events)
      /\ pc = "Loop" /\ events # <<>> /\ ~HandingOver
      /\ Front.type = "Transfer"
  BY QueueTypes DEF QInv, QueueInv, OnTransfer, HasEvent, HandingOver, Resetting
<1>1. CASE Ignore
  BY <1>1, QueueIgnore DEF OnTransfer
<1>2. CASE ~Ignore
  <2>1. Front.slot \in 0 .. NumSlots
    BY <1>0, FrontType DEF QInv, IInv
  <2>2. PICK s \in 0 .. NumSlots : s = Front.slot
    BY <2>1
  <2>3. PICK of : of = Front.of
    OBVIOUS
  <2>4. PICK d : d = Reaction(dev[s], of)
    OBVIOUS
  <2>5. /\ dev' = [dev EXCEPT ![s] = d]
        /\ UNCHANGED <<addressing, pc, after>> /\ Pop
        /\ \/ NeedsEndpoints(d) /\ ConfigureEndpoints(s, d.port)
           \/ UNCHANGED <<phase, cmds>>
    BY <1>2, <2>2, <2>3, <2>4 DEF OnTransfer
  <2>6. InPhase(s, PhaseOf(of))
    BY <1>0, <2>2, <2>3, <2>5, PopStep DEF EventInv, Answered, Fits
  <2>7. d.port = dev[s].port
    BY <1>0, <2>4, ReactionType
  <2>8. /\ Items(events') \subseteq Items(events) /\ Distinct(cmds, events')
        /\ events' = Tail(events)
    BY <1>0, <2>2, <2>5, PopStep
  <2>9. dev[s].port # 0 /\ dev[s].port \in 0 .. NumPorts
    BY <2>6, QueueTypes DEF InPhase, QInv
  <2>10. ~HandingOver'
    BY <1>0, <2>5 DEF HandingOver, Resetting
  <2>11. CASE NeedsEndpoints(d) /\ ConfigureEndpoints(s, d.port)
    <3>1. PICK x : x = [kind |-> "ConfigureEndpoint", slot |-> s, port |-> 0]
      OBVIOUS
    <3>2. /\ d.init = 4 /\ phase[dev[s].port] = "InitializingDevice"
          /\ phase' = [phase EXCEPT ![dev[s].port] = "ConfiguringEndpoints"]
          /\ cmds' = Append(cmds, x)
      BY <2>7, <2>11, <3>1 DEF NeedsEndpoints, ConfigureEndpoints, Ring
    <3>3. x \in CommandTRBs /\ x.kind = "ConfigureEndpoint" /\ x.slot = s
      BY <3>1, PortConfigAssumption DEF CommandTRBs, Commands
    <3>4. /\ \A t \in Transfers : d.tds[t] = 0
          /\ \A e \in Items(events') : e.type = "Transfer" => e.slot # s
      BY <1>0, <2>2, <2>3, <2>4, <2>8, <3>2, NothingAsked
    <3>5. /\ dev'[s] = d /\ InPhase(s, "ConfiguringEndpoints")'
          /\ \A t \in 0 .. NumSlots : t # s =>
               /\ \A y : InPhase(t, y) => InPhase(t, y)'
               /\ Asked(t)' /\ \A e : e.slot = t /\ Answered(e) => Answered(e)'
          /\ \A t \in 0 .. NumSlots : dev'[t].port = dev[t].port
      BY <2>5, <2>7, <2>9, <3>2, SlotMove
    <3>6. \A y : InPhase(s, y) => y = "InitializingDevice"
      BY <3>2 DEF InPhase
    <3>7. Items(cmds') = Items(cmds) \cup {x}
      BY <1>0, <3>2, <3>3, ItemsOfAppend
    <3>8. \A y \in {"EnablingSlot", "AddressingDevice"} :
            phase[addressing] = y => phase'[addressing'] = y
      BY <1>0, <2>5, <3>2
    <3>9. CommandInv'
      <4> SUFFICES ASSUME NEW c \in Items(cmds')
                   PROVE  /\ c.kind = "EnableSlot" => phase'[addressing'] = "EnablingSlot"
                          /\ c.kind = "AddressDevice" =>
                               /\ phase'[addressing'] = "AddressingDevice"
                               /\ c.port = addressing'
                               /\ \A t \in 0 .. NumSlots : dev'[t].port # addressing'
                          /\ c.kind = "ConfigureEndpoint" =>
                               InPhase(c.slot, "ConfiguringEndpoints")'
        BY DEF CommandInv
      <4>1. CASE c = x
        BY <3>3, <3>5, <4>1
      <4>2. CASE c \in Items(cmds)
        <5>1. c.slot \in 0 .. NumSlots
          BY <1>0, <4>2 DEF CommandTRBs
        <5>2. c.kind = "ConfigureEndpoint" => InPhase(c.slot, "ConfiguringEndpoints")'
          BY <1>0, <3>5, <4>2, <5>1 DEF CommandInv
        <5> QED
          BY <1>0, <2>5, <3>5, <3>8, <4>2, <5>2 DEF CommandInv
      <4> QED
        BY <3>7, <4>1, <4>2
    <3>10. EventInv'
      <4> SUFFICES ASSUME NEW e \in Items(events')
                   PROVE  /\ e.type = "Command" =>
                               /\ e.of = "EnableSlot" => phase'[addressing'] = "EnablingSlot"
                               /\ e.of = "AddressDevice" =>
                                    phase'[addressing'] = "AddressingDevice" \/ HandingOver'
                               /\ e.of = "ConfigureEndpoint" =>
                                    InPhase(e.slot, "ConfiguringEndpoints")'
                          /\ e.type = "Transfer" => Answered(e)'
        BY DEF EventInv
      <4>1. e \in Items(events) /\ e.slot \in 0 .. NumSlots
        BY <1>0, <2>8
      <4>2. e.type = "Transfer" => Answered(e)'
        BY <1>0, <3>4, <3>5, <4>1 DEF EventInv
      <4>3. e.type = "Command" /\ e.of = "ConfigureEndpoint" =>
              InPhase(e.slot, "ConfiguringEndpoints")'
        BY <1>0, <3>5, <3>6, <4>1 DEF EventInv
      <4> QED
        BY <1>0, <3>8, <4>1, <4>2, <4>3 DEF EventInv
    <3>11. TransferInv'
      <4>1. Asked(s)'
        BY <3>4, <3>5 DEF Asked, OneSingle, Singles
      <4> QED
        BY <3>5, <4>1 DEF TransferInv
    <3>12. Distinct(cmds', events')
      <4>1. ASSUME NEW e \in Items(Tail(events)), Keyed(e)
            PROVE  EventKey(e) # CommandKey(x.kind, x.slot)
        <5>1. e \in Events /\ e \in Items(events)
          BY <1>0, <2>8
        <5>2. e.type = "Command" \/ e.type = "Transfer"
          BY <4>1 DEF Keyed
        <5>3. CASE e.type = "Transfer"
          BY <5>3, Keys
        <5>4. CASE e.type = "Command"
          <6>1. EventKey(e) = CommandKey(e.of, e.slot)
            BY <5>4, Keys
          <6>2. e.of = "ConfigureEndpoint" => e.slot # s
            BY <1>0, <3>6, <5>1, <5>4 DEF EventInv
          <6> QED
            BY <3>3, <6>1, <6>2, Keys
        <5> QED
          BY <5>2, <5>3, <5>4
      <4>2. ASSUME NEW c \in Items(cmds)
            PROVE  CommandKey(c.kind, c.slot) # CommandKey(x.kind, x.slot)
        <5>1. c.kind = "ConfigureEndpoint" => c.slot # s
          BY <1>0, <3>6 DEF CommandInv
        <5> QED
          BY <3>3, <5>1, Keys
      <4>3. Tail(events) \in Seq(Events) /\ Distinct(cmds, Tail(events))
        BY <1>0, <2>8
      <4>4. Distinct(Append(cmds, x), Tail(events))
        BY <1>0, <3>3, <4>1, <4>2, <4>3, DistinctRing
      <4> QED
        BY <2>8, <3>2, <4>4
    <3> QED
      BY <2>10, <3>9, <3>10, <3>11, <3>12 DEF CoreInv, HandOverInv
  <2>12. CASE UNCHANGED <<phase, cmds>>
    <3>1. /\ dev'[s] = d
          /\ \A t \in 0 .. NumSlots : t # s => dev'[t] = dev[t]
          /\ \A t \in 0 .. NumSlots : dev'[t].port = dev[t].port
      BY <1>0, <2>5, <2>7
    <3>2. \A t \in 0 .. NumSlots : \A y : InPhase(t, y) => InPhase(t, y)'
      BY <2>12, <3>1 DEF InPhase
    <3>3. CommandInv'
      <4>1. \A c \in Items(cmds) : c.slot \in 0 .. NumSlots
        BY <1>0 DEF CommandTRBs
      <4> QED
        BY <1>0, <2>5, <2>12, <3>1, <3>2, <4>1 DEF CommandInv
    <3>6. \A t \in 0 .. NumSlots :
            /\ Asked(t)'
            /\ \A e \in Items(events') : e.type = "Transfer" /\ e.slot = t => Answered(e)'
      <4>1. ASSUME NEW t \in 0 .. NumSlots, t # s
            PROVE  /\ Asked(t)'
                   /\ \A e \in Items(events') : e.type = "Transfer" /\ e.slot = t => Answered(e)'
        BY <1>0, <2>8, <3>1, <3>2, <4>1, TransfersStay DEF EventInv, TransferInv
      <4>2. /\ Asked(s)'
            /\ \A e \in Items(events') : e.type = "Transfer" /\ e.slot = s => Answered(e)'
        BY <1>0, <2>2, <2>3, <2>4, <2>8, <3>1, <3>2, ReactionAsked
      <4> QED
        BY <4>1, <4>2
    <3>4. EventInv'
      <4>1. \A e \in Items(events') : e \in Items(events) /\ e.slot \in 0 .. NumSlots
        BY <1>0, <2>8
      <4> QED
        BY <1>0, <2>5, <2>12, <3>2, <3>6, <4>1 DEF EventInv
    <3>5. TransferInv'
      BY <3>6 DEF TransferInv
    <3> QED
      BY <2>8, <2>10, <2>12, <3>3, <3>4, <3>5 DEF CoreInv, HandOverInv
  <2> QED
    BY <2>5, <2>11, <2>12
<1> QED
  BY <1>1, <1>2

-----------------------------------------------------------------------------
(* The controller executes a command or a transfer *)

LEMMA CompleteStep ==
  ASSUME QInv, cmds # <<>>, NEW s \in 0 .. NumSlots, NEW ok \in BOOLEAN, Complete(s, ok),
         Head(cmds).kind = "EnableSlot" \/ s = Head(cmds).slot
  PROVE  LET x == CommandEvent(Head(cmds).kind, s, ok) IN
         /\ Head(cmds) \in Items(cmds) /\ Items(cmds') \subseteq Items(cmds)
         /\ Items(events') = Items(events) \cup {x}
         /\ x.type = "Command" /\ x.of = Head(cmds).kind /\ x.slot = s
         /\ events # <<>> => Head(events') = Head(events)
         /\ Distinct(cmds', events')
         /\ Head(cmds).kind # "ConfigureEndpoint" =>
              /\ \A c \in Items(cmds') : c.kind = "ConfigureEndpoint"
              /\ \A e \in Items(events) : e.type = "Command" => e.of = "ConfigureEndpoint"
<1>0. /\ cmds \in Seq(CommandTRBs) /\ events \in Seq(Events) /\ Distinct(cmds, events)
      /\ Head(cmds) \in CommandTRBs
  BY QueueTypes, CommandType DEF QInv, QueueInv, IInv
<1>1. PICK x : x = CommandEvent(Head(cmds).kind, s, ok)
  OBVIOUS
<1>2. x \in Events /\ x.type = "Command" /\ x.of = Head(cmds).kind /\ x.slot = s
  <2>1. Head(cmds).kind \in Commands
    BY <1>0 DEF CommandTRBs
  <2>2. x \in Events
    BY <1>1, <2>1, CommandEventType
  <2> QED
    BY <1>1, <2>2 DEF CommandEvent
<1>3. cmds' = Tail(cmds) /\ events' = Append(events, x)
  BY <1>1 DEF Complete
<1>4. Head(cmds) \in Items(cmds) /\ Items(cmds') \subseteq Items(cmds)
  BY <1>0, <1>3, ItemsOfTail
<1>5. Items(events') = Items(events) \cup {x}
  BY <1>0, <1>2, <1>3, ItemsOfAppend
<1>6. events # <<>> => Head(events') = Head(events)
  BY <1>0, <1>2, <1>3
<1>7. PICK k : k = CommandKey(Head(cmds).kind, Head(cmds).slot)
  OBVIOUS
<1>8. /\ Distinct(Tail(cmds), events)
      /\ \A y \in Items(Tail(cmds)) : CommandKey(y.kind, y.slot) # k
      /\ \A y \in Items(events) : Keyed(y) => EventKey(y) # k
  BY <1>0, <1>7, DistinctExec
<1>9. EventKey(x) = k
  BY <1>2, <1>7, Keys
<1>10. Distinct(cmds', events')
  <2>1. Tail(cmds) \in Seq(CommandTRBs)
    BY <1>0
  <2>2. Distinct(Tail(cmds), Append(events, x))
    BY <1>0, <1>2, <1>8, <1>9, <2>1, DistinctAppend
  <2> QED
    BY <1>3, <2>2
<1>11. ASSUME Head(cmds).kind # "ConfigureEndpoint"
       PROVE  /\ \A c \in Items(cmds') : c.kind = "ConfigureEndpoint"
              /\ \A e \in Items(events) : e.type = "Command" => e.of = "ConfigureEndpoint"
  <2>1. ASSUME NEW c \in Items(cmds'), c.kind # "ConfigureEndpoint" PROVE FALSE
    <3>1. CommandKey(c.kind, c.slot) # k
      BY <1>3, <1>8
    <3> QED
      BY <1>7, <1>11, <2>1, <3>1, Keys
  <2>2. ASSUME NEW e \in Items(events), e.type = "Command", e.of # "ConfigureEndpoint"
        PROVE  FALSE
    <3>1. EventKey(e) # k
      BY <1>8, <2>2, Keys
    <3>2. EventKey(e) = CommandKey(e.of, e.slot)
      BY <2>2, Keys
    <3> QED
      BY <1>7, <1>11, <2>2, <3>1, <3>2, Keys
  <2> QED
    BY <2>1, <2>2
<1> QED
  BY <1>1, <1>2, <1>4, <1>5, <1>6, <1>10, <1>11

(* A command that leaves the driver's tables alone, done or failed. *)
LEMMA QueueComplete ==
  ASSUME QInv, cmds # <<>>, NEW s \in 0 .. NumSlots, NEW ok \in BOOLEAN, Complete(s, ok),
         Head(cmds).kind = "EnableSlot" \/ s = Head(cmds).slot,
         UNCHANGED driverVars
  PROVE  CoreInv'
<1>0. /\ CommandInv /\ EventInv /\ TransferInv /\ HandOverInv
      /\ Items(cmds) \subseteq CommandTRBs /\ Items(events) \subseteq Events
      /\ UNCHANGED <<phase, addressing, dev, pc, after>>
  BY QueueTypes DEF QInv, QueueInv, driverVars
<1>1. PICK x : x = CommandEvent(Head(cmds).kind, s, ok)
  OBVIOUS
<1>2. /\ Head(cmds) \in Items(cmds) /\ Items(cmds') \subseteq Items(cmds)
      /\ Items(events') = Items(events) \cup {x}
      /\ x.type = "Command" /\ x.of = Head(cmds).kind /\ x.slot = s
      /\ events # <<>> => Head(events') = Head(events)
      /\ Distinct(cmds', events')
  BY <1>1, CompleteStep
<1>3. (HandingOver' <=> HandingOver) /\ (HandingOver => events # <<>>)
  BY <1>0 DEF HandingOver, Resetting, QInv, IInv, ControlInv, ResetInv
<1>4. HandOverInv'
  BY <1>0, <1>2, <1>3 DEF HandOverInv
<1>5. \A t, y : InPhase(t, y)' <=> InPhase(t, y)
  BY <1>0 DEF InPhase
<1>6. CommandInv' /\ TransferInv'
  BY <1>0, <1>2, <1>5 DEF CommandInv, TransferInv, Asked, Fits, OneSingle
<1>7. \A e : Answered(e) => Answered(e)'
  BY <1>0, <1>5 DEF Answered, Fits, NoSingle
<1>8. EventInv'
  <2> SUFFICES ASSUME NEW e \in Items(events')
               PROVE  /\ e.type = "Command" =>
                           /\ e.of = "EnableSlot" => phase[addressing] = "EnablingSlot"
                           /\ e.of = "AddressDevice" =>
                                phase[addressing] = "AddressingDevice" \/ HandingOver
                           /\ e.of = "ConfigureEndpoint" =>
                                InPhase(e.slot, "ConfiguringEndpoints")
                      /\ e.type = "Transfer" => Answered(e)
    BY <1>0, <1>3, <1>5, <1>7 DEF EventInv
  <2>1. CASE e \in Items(events)
    BY <1>0, <2>1 DEF EventInv
  <2>2. CASE e = x
    <3>1. /\ x.of = "EnableSlot" => phase[addressing] = "EnablingSlot"
          /\ x.of = "AddressDevice" => phase[addressing] = "AddressingDevice"
          /\ x.of = "ConfigureEndpoint" => InPhase(x.slot, "ConfiguringEndpoints")
      BY <1>0, <1>2 DEF CommandInv
    <3> QED
      BY <1>2, <2>2, <3>1
  <2> QED
    BY <1>2, <2>1, <2>2
<1> QED
  BY <1>2, <1>4, <1>6, <1>8 DEF CoreInv

(* AddressDevice writes the output context of a slot that had no port. *)
LEMMA QueueExecAddress ==
  ASSUME QInv, ExecAddressDevice
  PROVE  CoreInv'
<1>0. /\ CommandInv /\ EventInv /\ TransferInv /\ ContextInv
      /\ dev \in [0 .. NumSlots -> Devices] /\ cmds # <<>>
      /\ Items(cmds) \subseteq CommandTRBs /\ Items(events) \subseteq Events
      /\ \A e \in Events : e.slot \in 0 .. NumSlots
      /\ Head(cmds).kind = "AddressDevice" /\ Head(cmds).slot \in 0 .. NumSlots
      /\ UNCHANGED <<phase, addressing, pc, after>>
  <2>1. Head(cmds).slot \in 0 .. NumSlots
    BY CommandType DEF QInv, IInv, ExecAddressDevice, CommandTRBs
  <2> QED
    BY <2>1, QueueTypes DEF QInv, QueueInv, ExecAddressDevice
<1>1. PICK s \in 0 .. NumSlots : s = Head(cmds).slot
  BY <1>0
<1>2. PICK x : x = CommandEvent(Head(cmds).kind, s, TRUE)
  OBVIOUS
<1>3. /\ Head(cmds) \in Items(cmds) /\ Items(cmds') \subseteq Items(cmds)
      /\ Items(events') = Items(events) \cup {x}
      /\ x.type = "Command" /\ x.of = "AddressDevice"
      /\ Distinct(cmds', events')
      /\ \A c \in Items(cmds') : c.kind = "ConfigureEndpoint"
      /\ \A e \in Items(events) : e.type = "Command" => e.of = "ConfigureEndpoint"
  <2>1. Complete(s, TRUE)
    BY <1>1 DEF ExecAddressDevice
  <2> QED
    BY <1>0, <1>1, <1>2, <2>1, CompleteStep
<1>4. phase[addressing] = "AddressingDevice"
  BY <1>0, <1>3 DEF CommandInv
<1>5. ~HandingOver'
  BY <1>0, <1>4 DEF HandingOver, Resetting, QInv, IInv, ControlInv, ResetInv
<1>6. dev[s].port = 0
  <2>1. slot[s] = "Enabled"
    <3>1. PICK c : c = Head(cmds)
      OBVIOUS
    <3>2. Works(c) /\ c.kind = "AddressDevice" /\ c.slot = s
      BY <1>0, <1>1, <3>1 DEF ExecAddressDevice
    <3> QED
      BY <3>2 DEF Works
  <2> QED
    BY <1>0, <2>1 DEF ContextInv
<1>7. \A t \in 0 .. NumSlots : t # s => dev'[t] = dev[t]
  BY <1>0, <1>1 DEF ExecAddressDevice
<1>8. \A y : ~InPhase(s, y)
  BY <1>6 DEF InPhase
<1>9. \A t \in 0 .. NumSlots : \A y : InPhase(t, y) => t # s /\ InPhase(t, y)'
  BY <1>0, <1>7, <1>8 DEF InPhase
<1>t. \A t \in 0 .. NumSlots :
        Asked(t)' /\ \A e : e.slot = t /\ Answered(e) => Answered(e)'
  <2>1. dev'[s].tds = dev[s].tds /\ dev'[s].hid = dev[s].hid
    BY <1>0, <1>1 DEF ExecAddressDevice, Devices
  <2>2. \A t \in 0 .. NumSlots : dev'[t].tds = dev[t].tds /\ dev'[t].hid = dev[t].hid
    BY <1>7, <2>1
  <2> QED
    BY <1>0, <1>9, <2>2, TransfersStay DEF TransferInv
<1>10. CommandInv'
  <2>1. \A c \in Items(cmds') : InPhase(c.slot, "ConfiguringEndpoints")'
    BY <1>0, <1>3, <1>9 DEF CommandInv, CommandTRBs
  <2> QED
    BY <1>3, <2>1 DEF CommandInv
<1>11. EventInv'
  <2> SUFFICES ASSUME NEW e \in Items(events')
               PROVE  /\ e.type = "Command" =>
                           /\ e.of = "EnableSlot" => phase[addressing] = "EnablingSlot"
                           /\ e.of = "AddressDevice" =>
                                phase[addressing] = "AddressingDevice" \/ HandingOver'
                           /\ e.of = "ConfigureEndpoint" =>
                                InPhase(e.slot, "ConfiguringEndpoints")'
                      /\ e.type = "Transfer" => Answered(e)'
    BY <1>0 DEF EventInv
  <2>1. CASE e \in Items(events)
    <3>1. e.slot \in 0 .. NumSlots
      BY <1>0, <2>1
    <3>2. /\ e.type = "Command" => InPhase(e.slot, "ConfiguringEndpoints")
          /\ e.type = "Transfer" => Answered(e)
      BY <1>0, <1>3, <2>1 DEF EventInv
    <3>3. e.type = "Transfer" => Answered(e)'
      BY <1>t, <3>1, <3>2
    <3>4. e.type = "Command" =>
            e.of = "ConfigureEndpoint" /\ InPhase(e.slot, "ConfiguringEndpoints")'
      BY <1>3, <1>9, <2>1, <3>1, <3>2
    <3> QED
      BY <3>3, <3>4
  <2>2. CASE e = x
    BY <1>3, <1>4, <2>2
  <2> QED
    BY <1>3, <2>1, <2>2
<1>12. TransferInv'
  BY <1>t DEF TransferInv
<1> QED
  BY <1>3, <1>5, <1>10, <1>11, <1>12 DEF CoreInv, HandOverInv

LEMMA QueueExec ==
  ASSUME QInv, ExecCommand
  PROVE  CoreInv'
<1>0. Slots \subseteq 0 .. NumSlots
  BY QueueTypes DEF QInv
<1>1. CASE ExecEnableSlot
  <2>1. PICK s \in Slots : Complete(s, TRUE)
    BY <1>1 DEF ExecEnableSlot
  <2> QED
    BY <1>0, <1>1, <2>1, QueueComplete DEF ExecEnableSlot
<1>2. CASE ExecAddressDevice
  BY <1>2, QueueExecAddress
<1>3. CASE ExecConfigureEndpoint \/ FailCommand
  <2>1. Head(cmds).slot \in 0 .. NumSlots
    BY <1>3, CommandType DEF ExecConfigureEndpoint, FailCommand, QInv, IInv, CommandTRBs
  <2>2. \E ok \in BOOLEAN : Complete(Head(cmds).slot, ok)
    BY <1>3 DEF ExecConfigureEndpoint, FailCommand
  <2> QED
    BY <1>3, <2>1, <2>2, QueueComplete DEF ExecConfigureEndpoint, FailCommand
<1> QED
  BY <1>1, <1>2, <1>3 DEF ExecCommand

(* A transfer ends: its event takes the place of the transfer. *)
LEMMA QueueCompleteTransfer ==
  ASSUME QInv, NEW s \in Slots, NEW t \in Transfers, CompleteTransfer(s, t)
  PROVE  CoreInv'
<1>0. /\ CommandInv /\ EventInv /\ TransferInv /\ HandOverInv /\ Distinct(cmds, events)
      /\ dev \in [0 .. NumSlots -> Devices] /\ s \in 0 .. NumSlots
      /\ cmds \in Seq(CommandTRBs) /\ events \in Seq(Events)
      /\ Items(cmds) \subseteq CommandTRBs /\ Items(events) \subseteq Events
      /\ \A e \in Events : e.slot \in 0 .. NumSlots
      /\ dev[s].tds[t] > 0 /\ Singles \subseteq Transfers
      /\ UNCHANGED <<phase, addressing, pc, after, cmds>>
  BY QueueTypes DEF QInv, QueueInv, CompleteTransfer, Singles
<1>a. dev[s] \in Devices /\ \A u \in Transfers : dev[s].tds[u] \in Nat
  BY <1>0 DEF Devices
<1>b. PICK n \in Nat : n < dev[s].tds[t] /\ dev' = [dev EXCEPT ![s] = Pending(dev[s], t, n)]
  <2>1. dev[s].tds[t] - 1 \in Nat /\ dev[s].tds[t] - 1 < dev[s].tds[t]
    BY <1>0, <1>a
  <2> QED
    BY <1>0, <1>a, <2>1 DEF CompleteTransfer
<1>c. /\ dev'[s].port = dev[s].port /\ dev'[s].hid = dev[s].hid
      /\ dev'[s].tds = [dev[s].tds EXCEPT ![t] = n]
  BY <1>0, <1>a, <1>b, PendingType
<1>d. \A u \in Transfers : dev'[s].tds[u] = IF u = t THEN n ELSE dev[s].tds[u]
  <2>1. dev[s].tds \in [Transfers -> Nat]
    BY <1>a DEF Devices
  <2> QED
    BY <1>c, <2>1
<1>1. PICK ok \in BOOLEAN : events' = Append(events, TransferEvent(t, s, ok))
  BY DEF CompleteTransfer
<1>2. PICK x : x = TransferEvent(t, s, ok)
  OBVIOUS
<1>3. x \in Events /\ x.type = "Transfer" /\ x.of = t /\ x.slot = s
  BY <1>2, TransferEventType DEF TransferEvent
<1>4. Items(events') = Items(events) \cup {x} /\ (events # <<>> => Head(events') = Head(events))
  BY <1>0, <1>1, <1>2, <1>3, ItemsOfAppend
<1>5. /\ \A v \in 0 .. NumSlots : dev'[v].port = dev[v].port
      /\ \A v \in 0 .. NumSlots : v # s => dev'[v] = dev[v]
  BY <1>0, <1>b, <1>c
<1>6. \A v \in 0 .. NumSlots : \A y : InPhase(v, y) <=> InPhase(v, y)'
  BY <1>0, <1>5 DEF InPhase
<1>7. /\ HandingOver' <=> HandingOver
      /\ HandingOver => events # <<>> /\ after.slot \in 0 .. NumSlots
  BY <1>0 DEF HandingOver, Resetting, QInv, IInv, ControlInv, ResetInv, TypeOK, Continuations
<1>8. HandOverInv'
  BY <1>0, <1>4, <1>5, <1>7 DEF HandOverInv
<1>9. CommandInv'
  BY <1>0, <1>5, <1>6 DEF CommandInv, CommandTRBs
<1>10. Asked(s) /\ \A u \in Transfers : Fits(s, u) => Fits(s, u)'
  BY <1>0, <1>6, <1>c DEF TransferInv, Fits
<1>11. Asked(s)'
  <2>1. OneSingle(dev'[s])
    BY <1>0, <1>a, <1>b, <1>d, <1>10 DEF Asked, OneSingle
  <2>2. \A u \in Transfers : dev'[s].tds[u] > 0 => dev[s].tds[u] > 0
    BY <1>0, <1>d
  <2> QED
    BY <1>10, <2>1, <2>2 DEF Asked
<1>12. \A v \in 0 .. NumSlots : v # s =>
         Asked(v)' /\ \A e : e.slot = v /\ Answered(e) => Answered(e)'
  BY <1>0, <1>5, <1>6, TransfersStay DEF TransferInv
<1>13. TransferInv'
  BY <1>11, <1>12 DEF TransferInv
<1>14. Answered(x)'
  <2>1. Fits(s, t)'
    BY <1>0, <1>10 DEF Asked
  <2>2. ASSUME t \in Singles PROVE NoSingle(dev'[s])
    <3>1. \A u \in Singles : u # t => dev[s].tds[u] = 0
      BY <1>0, <1>a, <1>10, <2>2 DEF Asked, OneSingle
    <3>2. n = 0
      BY <1>0, <1>a, <1>b, <1>10, <2>2 DEF Asked, OneSingle
    <3> QED
      BY <1>0, <1>d, <3>1, <3>2 DEF NoSingle
  <2> QED
    BY <1>3, <2>1, <2>2 DEF Answered
<1>15. EventInv'
  <2> SUFFICES ASSUME NEW e \in Items(events')
               PROVE  /\ e.type = "Command" =>
                           /\ e.of = "EnableSlot" => phase[addressing] = "EnablingSlot"
                           /\ e.of = "AddressDevice" =>
                                phase[addressing] = "AddressingDevice" \/ HandingOver
                           /\ e.of = "ConfigureEndpoint" =>
                                InPhase(e.slot, "ConfiguringEndpoints")
                      /\ e.type = "Transfer" => Answered(e)'
    <3>1. \A e \in Items(events') : e.slot \in 0 .. NumSlots
      BY <1>0, <1>3, <1>4
    <3> QED
      BY <1>0, <1>6, <1>7, <3>1 DEF EventInv
  <2>1. CASE e \in Items(events)
    <3>1. e.slot \in 0 .. NumSlots
      BY <1>0, <2>1
    <3>2. e.type = "Transfer" => Answered(e) /\ e.of \in Transfers
      BY <1>0, <2>1 DEF EventInv, Events
    <3>3. ASSUME e.slot = s, Answered(e), e.of \in Transfers PROVE Answered(e)'
      <4>1. NoSingle(dev[s]) => NoSingle(dev'[s])
        BY <1>0, <1>b, <1>d DEF NoSingle
      <4> QED
        BY <1>10, <3>3, <4>1 DEF Answered
    <3> QED
      BY <1>0, <1>12, <2>1, <3>1, <3>2, <3>3 DEF EventInv
  <2>2. CASE e = x
    BY <1>3, <1>14, <2>2
  <2> QED
    BY <1>4, <2>1, <2>2
<1>16. Distinct(cmds', events')
  <2>1. ASSUME Keyed(x), NEW e \in Items(events), Keyed(e)
        PROVE  EventKey(e) # EventKey(x)
    <3>1. t \in Singles
      BY <1>3, <2>1 DEF Keyed, Singles
    <3>2. e.type = "Transfer" => e.slot # s
      <4>1. e.type = "Transfer" => e.of \in Singles /\ Answered(e)
        BY <1>0, <2>1 DEF EventInv, Keyed, Singles, Events
      <4> QED
        BY <1>0, <3>1, <4>1 DEF Answered, NoSingle
    <3>3. e.type = "Command" => EventKey(e) # EventKey(x)
      BY <1>3, Keys
    <3> QED
      BY <1>3, <2>1, <3>2, <3>3, Keys DEF Keyed
  <2>2. \A c \in Items(cmds) : CommandKey(c.kind, c.slot) # EventKey(x)
    BY <1>3, Keys
  <2>3. Distinct(cmds, Append(events, x))
    BY <1>0, <1>3, <2>1, <2>2, DistinctAppend
  <2> QED
    BY <1>0, <1>1, <1>2, <2>3
<1> QED
  BY <1>8, <1>9, <1>13, <1>15, <1>16 DEF CoreInv

-----------------------------------------------------------------------------
(* The invariant *)

LEMMA QueueInit == Init => QueueInv
<1> SUFFICES ASSUME Init PROVE QueueInv
  OBVIOUS
<1>1. /\ \A s \in 0 .. NumSlots :
           dev[s].port = 0 /\ \A t \in Transfers : dev[s].tds[t] = 0
      /\ \A p \in Ports : addr[p] = 0
      /\ pc = "Boot" /\ Len(cmds) = 0 /\ Len(events) = 0
  BY DEF Init, NoDevice
<1>2. Items(cmds) = {} /\ Items(events) = {}
  BY <1>1 DEF Items
<1>3. Distinct(cmds, events)
  BY <1>1 DEF Distinct
<1> QED
  BY <1>1, <1>2, <1>3 DEF QueueInv, HandOverInv, HandingOver, Resetting, CommandInv, EventInv,
     TransferInv, Asked, OneSingle, Singles, ContextInv, AddressedLate

LEMMA CoreStep == QInv /\ [Next]_vars => CoreInv'
<1> SUFFICES ASSUME QInv, [Next]_vars PROVE CoreInv'
  OBVIOUS
<1>1. CASE OnPortStatusChange
  <2>1. Front.port \in Ports
    BY <1>1, FrontType DEF QInv, IInv, OnPortStatusChange, HasEvent, Events
  <2> QED
    BY <1>1, <2>1, QueuePlugged, QueuePortReset, QueueIgnore DEF OnPortStatusChange
<1>2. CASE Driver
  BY <1>1, <1>2, QueueBoot, QueueWriteReset, QueueFinish, QueueEnableSlot, QueueAddressDevice,
     QueueConfigureEndpoint, QueueTransfer DEF Driver
<1> QED
  BY <1>2, QueueExec, QueuePort, QueueCompleteTransfer, QueueStutter DEF Next

LEMMA QueueStep == QInv /\ [Next]_vars => QInv'
<1> SUFFICES ASSUME QInv, [Next]_vars PROVE QInv'
  OBVIOUS
<1>1. IInv'
  BY TypeStep, ControlStep, ResetHolderStep, EnabledHolderStep, AddressCommandsStep,
     OutputContextsStep DEF QInv, IInv, DefaultAddressInv
<1> QED
  BY <1>1, CoreStep, ContextStep, AddressedStep DEF QInv, QueueInv, CoreInv

LEMMA QueueInvariance == Spec => []QInv
<1>1. Init => QInv
  BY InitType, InitControl, InitDefault, QueueInit DEF QInv, IInv
<1> QED
  BY <1>1, QueueStep, PTL DEF Spec

-----------------------------------------------------------------------------
(* The theorems *)

(* An output context names a port past its address, and no two name the    *)
(* same: FindBySlot(slot)->root_hub_port_num is never a stale port.        *)
THEOREM OneSlot == Spec => []OneSlotPerPort
<1>1. QInv => OneSlotPerPort
  <2> SUFFICES ASSUME QInv, NEW s \in Slots, dev[s].port # 0
               PROVE  /\ phase[dev[s].port] \notin Early
                      /\ \A t \in Slots : dev[t].port = dev[s].port => t = s
    BY DEF OneSlotPerPort, Early
  <2>1. Slots \subseteq 0 .. NumSlots
    BY QueueTypes DEF QInv
  <2>2. phase[dev[s].port] \notin Early
    BY <2>1 DEF QInv, IInv, DefaultAddressInv, OutputContexts
  <2>3. \A t \in Slots : dev[t].port = dev[s].port => t = s
    BY <2>1 DEF QInv, QueueInv, ContextInv
  <2> QED
    BY <2>2, <2>3
<1> QED
  BY <1>1, QueueInvariance, PTL

(* Of two sets of which no element differs from another, only one element  *)
(* in all.                                                                 *)
LEMMA AtMostOne ==
  ASSUME NEW A, NEW B,
         \A i, j \in A : i = j, \A i, j \in B : i = j, A = {} \/ B = {}
  PROVE  Cardinality(A) + Cardinality(B) <= 1
<1>1. \A S : (\A i, j \in S : i = j) => S = {} \/ \E i : S = {i}
  OBVIOUS
<1>2. \A S : (\A i, j \in S : i = j) => Cardinality(S) \in {0, 1}
  BY <1>1, FS_EmptySet, FS_Singleton, ZenonT(60)
<1>3. Cardinality({}) = 0
  BY FS_EmptySet
<1> QED
  BY <1>2, <1>3

(* No ring is overrun and no issuer is overwritten before its event has    *)
(* been handled: one command of the addressing sequence and one            *)
(* ConfigureEndpoint for each slot are all that is outstanding.            *)
THEOREM Bounded == Spec => []CommandsBounded
<1>1. QInv => CommandsBounded
  <2> SUFFICES ASSUME QInv PROVE CommandsBounded
    OBVIOUS
  <2>1. /\ cmds \in Seq(CommandTRBs) /\ events \in Seq(Events) /\ Distinct(cmds, events)
    BY QueueTypes DEF QInv, QueueInv
  <2>2. DOMAIN cmds = 1 .. Len(cmds) /\ DOMAIN events = 1 .. Len(events)
    BY <2>1
  <2>3. ASSUME NEW k,
               NEW A, \A i \in A : i \in 1 .. Len(cmds)
                                   /\ CommandKey(cmds[i].kind, cmds[i].slot) = k,
               NEW B, \A i \in B : i \in 1 .. Len(events) /\ events[i].type = "Command"
                                   /\ CommandKey(events[i].of, events[i].slot) = k
        PROVE  Cardinality(A) + Cardinality(B) <= 1
    <3>1. \A i \in B : Keyed(events[i]) /\ EventKey(events[i]) = k
      BY <2>3, Keys
    <3>2. \A i, j \in A : i = j
      BY <2>1, <2>3 DEF Distinct
    <3>3. \A i, j \in B : i = j
      BY <2>1, <2>3, <3>1 DEF Distinct
    <3>4. A = {} \/ B = {}
      BY <2>1, <2>3, <3>1 DEF Distinct
    <3> QED
      BY <3>2, <3>3, <3>4, AtMostOne
  <2>4. CommandsOutstanding(LAMBDA k, s : k # "ConfigureEndpoint") <= 1
    <3> DEFINE A == {i \in DOMAIN cmds : cmds[i].kind # "ConfigureEndpoint"}
               B == {i \in DOMAIN events : events[i].type = "Command"
                                           /\ events[i].of # "ConfigureEndpoint"}
               k == CommandKey("EnableSlot", 0)
    <3>1. \A i \in A : i \in 1 .. Len(cmds) /\ CommandKey(cmds[i].kind, cmds[i].slot) = k
      BY <2>2, Keys
    <3>2. \A i \in B : i \in 1 .. Len(events) /\ events[i].type = "Command"
                       /\ CommandKey(events[i].of, events[i].slot) = k
      BY <2>2, Keys
    <3>3. Cardinality(A) + Cardinality(B) <= 1
      <4> HIDE DEF A, B, k
      <4> QED
        BY <2>3, <3>1, <3>2
    <3> QED
      BY <3>3, Zenon DEF CommandsOutstanding
  <2>5. ASSUME NEW t \in 0 .. NumSlots
        PROVE  CommandsOutstanding(LAMBDA k, s : k = "ConfigureEndpoint" /\ s = t) <= 1
    <3> DEFINE A == {i \in DOMAIN cmds : cmds[i].kind = "ConfigureEndpoint" /\ cmds[i].slot = t}
               B == {i \in DOMAIN events : events[i].type = "Command"
                                           /\ (events[i].of = "ConfigureEndpoint"
                                               /\ events[i].slot = t)}
               k == CommandKey("ConfigureEndpoint", t)
    <3>1. \A i \in A : i \in 1 .. Len(cmds) /\ CommandKey(cmds[i].kind, cmds[i].slot) = k
      BY <2>2
    <3>2. \A i \in B : i \in 1 .. Len(events) /\ events[i].type = "Command"
                       /\ CommandKey(events[i].of, events[i].slot) = k
      BY <2>2
    <3>3. Cardinality(A) + Cardinality(B) <= 1
      <4> HIDE DEF A, B, k
      <4> QED
        BY <2>3, <3>1, <3>2
    <3> QED
      BY <3>3, Zenon DEF CommandsOutstanding
  <2> QED
    BY <2>4, <2>5, Zenon DEF CommandsBounded
<1> QED
  BY <1>1, QueueInvariance, PTL

(* Port::Reset is only ever called on a port nobody has given an address:  *)
(* a device that has one is never reset behind the driver's back.          *)
THEOREM ResetBeforeAddress == Spec => NoResetAfterAddress
<1>1. QInv /\ [Next]_vars =>
        [\A p \in Ports : ~portsc[p].pr /\ portsc'[p].pr =>
           addr[p] = 0 /\ \A s \in Slots : dev[s].port # p]_vars
  <2> SUFFICES ASSUME QInv, Next, NEW p \in Ports, ~portsc[p].pr, portsc'[p].pr
               PROVE  addr[p] = 0 /\ \A s \in Slots : dev[s].port # p
    OBVIOUS
  <2>0. portsc \in [Ports -> PortStatus] /\ Slots \subseteq 0 .. NumSlots
    BY QueueTypes DEF QInv, IInv, TypeOK
  <2>1. ~OnPortStatusChange
    <3> SUFFICES ASSUME OnPortStatusChange PROVE FALSE
      OBVIOUS
    <3>1. \/ portsc' = portsc
          \/ \E q : portsc' = [portsc EXCEPT ![q] = [portsc[q] EXCEPT !.prc = FALSE]]
      BY DEF OnPortStatusChange, OnPlugged, OnPortReset, Ignore
    <3> QED
      BY <2>0, <3>1 DEF PortStatus
  <2>2. ~(Driver /\ ~WriteReset)
    BY <2>1 DEF Driver, BootPort, FinishReset, OnEnableSlot, OnAddressDevice,
       OnConfigureEndpoint, OnTransfer, Ignore, hwVars
  <2>3. ~ExecCommand
    BY DEF ExecCommand, ExecEnableSlot, ExecAddressDevice, ExecConfigureEndpoint, FailCommand
  <2>4. \A q \in Ports : ~PlugIn(q) /\ ~PullOut(q) /\ ~ResetDone(q)
    <3>1. ASSUME NEW q \in Ports, PlugIn(q) PROVE FALSE
      BY <2>0, <3>1 DEF PlugIn, PortStatus
    <3>2. ASSUME NEW q \in Ports, PullOut(q) PROVE FALSE
      BY <2>0, <3>2 DEF PullOut, PortStatus
    <3>3. ASSUME NEW q \in Ports, ResetDone(q) PROVE FALSE
      BY <2>0, <3>3 DEF ResetDone, PortStatus
    <3> QED
      BY <3>1, <3>2, <3>3
  <2>5. \A t \in Slots, k \in Transfers : ~CompleteTransfer(t, k)
    BY DEF CompleteTransfer
  <2>6. WriteReset
    BY <2>2, <2>3, <2>4, <2>5 DEF Next
  <2>7. p = addressing
    BY <2>0, <2>6 DEF WriteReset
  <2>8. phase[p] = "ResettingPort"
    BY <2>6, <2>7 DEF WriteReset, QInv, IInv, ControlInv, ResetInv, Resetting
  <2>9. addr[p] = 0
    BY <2>8 DEF QInv, QueueInv, AddressedLate, Early
  <2>10. \A s \in Slots : dev[s].port # p
    <3>1. p # 0
      BY DEF Ports
    <3> QED
      BY <2>0, <2>8, <3>1 DEF QInv, IInv, DefaultAddressInv, OutputContexts, Early
  <2> QED
    BY <2>9, <2>10
<1> QED
  BY <1>1, QueueInvariance, PTL DEF Spec, NoResetAfterAddress

-----------------------------------------------------------------------------
(* How many transfers are outstanding *)

(* The answers to SetProtocol of slot s on the event ring. *)
IsReply(e, s) == e.type = "Transfer" /\ e.of = "SetProtocol" /\ e.slot = s

Replies(q, s) == {i \in 1 .. Len(q) : IsReply(q[i], s)}

(* No device is asked for more of them than it has endpoint numbers. *)
Expected(s) == dev[s].tds["SetProtocol"] + Cardinality(Replies(events, s))

ReplyInv == \A s \in Slots : Expected(s) <= EndpointNumbers[dev[s].port]

LEMMA RepliesFinite ==
  ASSUME NEW S, NEW q \in Seq(S), NEW s
  PROVE  IsFiniteSet(Replies(q, s)) /\ Cardinality(Replies(q, s)) \in Nat
<1>1. IsFiniteSet(1 .. Len(q))
  BY FS_Interval
<1>2. Replies(q, s) \in SUBSET (1 .. Len(q))
  BY DEF Replies
<1>3. IsFiniteSet(Replies(q, s))
  BY <1>1, <1>2, FS_Subset
<1> QED
  BY <1>3, FS_CardinalityType

LEMMA RepliesOfAppend ==
  ASSUME NEW S, NEW q \in Seq(S), NEW x \in S, NEW s
  PROVE  Cardinality(Replies(Append(q, x), s)) =
           Cardinality(Replies(q, s)) + (IF IsReply(x, s) THEN 1 ELSE 0)
<1> DEFINE r == Append(q, x)
           n == Len(q) + 1
<1>1. /\ Len(r) = n /\ Len(q) \in Nat /\ r[n] = x
      /\ \A i \in 1 .. Len(q) : r[i] = q[i]
      /\ n \notin 1 .. Len(q) /\ 1 .. n = (1 .. Len(q)) \cup {n}
  OBVIOUS
<1>2. IsFiniteSet(Replies(q, s)) /\ Cardinality(Replies(q, s)) \in Nat
  BY RepliesFinite
<1> HIDE DEF r, n
<1>3. Replies(r, s) = Replies(q, s) \cup (IF IsReply(x, s) THEN {n} ELSE {})
  BY <1>1 DEF Replies
<1>4. n \notin Replies(q, s)
  BY <1>1 DEF Replies
<1>5. Cardinality(Replies(q, s) \cup {n}) = Cardinality(Replies(q, s)) + 1
  BY <1>2, <1>4, FS_AddElement
<1>6. Cardinality(Replies(r, s)) = Cardinality(Replies(q, s)) + (IF IsReply(x, s) THEN 1 ELSE 0)
  <2>1. CASE IsReply(x, s)
    BY <1>3, <1>5, <2>1
  <2>2. CASE ~IsReply(x, s)
    <3>1. Replies(r, s) = Replies(q, s)
      BY <1>3, <2>2
    <3> QED
      BY <1>2, <2>2, <3>1
  <2> QED
    BY <2>1, <2>2
<1> QED
  BY <1>6 DEF r

LEMMA RepliesOfTail ==
  ASSUME NEW S, NEW q \in Seq(S), q # <<>>, NEW s
  PROVE  Cardinality(Replies(Tail(q), s)) <= Cardinality(Replies(q, s))
<1> DEFINE r == Tail(q)
           A == Replies(r, s)
           B == Replies(q, s)
           f == [i \in A |-> i + 1]
<1>1. /\ Len(q) \in Nat
      /\ \A i \in 1 .. Len(r) : i \in Int /\ i + 1 \in 1 .. Len(q) /\ r[i] = q[i + 1]
  OBVIOUS
<1>2. IsFiniteSet(B)
  BY RepliesFinite
<1> HIDE DEF r
<1>3. \A i \in A : i \in Int /\ i + 1 \in B
  BY <1>1 DEF Replies
<1> HIDE DEF A, B
<1>4. f \in [A -> B] /\ \A i, j \in A : f[i] = f[j] => i = j
  BY <1>3
<1>5. f \in Injection(A, B)
  BY <1>4 DEF Injection, IsInjective
<1>6. Cardinality(A) <= Cardinality(B)
  BY <1>2, <1>5, FS_Injection
<1> QED
  BY <1>6 DEF A, B, r

(* What a step can do to the event ring. *)
EventsMove ==
  \/ events' = events
  \/ events # <<>> /\ events' = Tail(events)
  \/ \E x \in Events : events' = Append(events, x) /\ x.type # "Transfer"

(* A step that asks a device for no more, and ends none of its requests,   *)
(* leaves it with no more to answer.                                       *)
LEMMA RepliesStay ==
  ASSUME QInv, ReplyInv, NEW s \in Slots, EventsMove,
         dev'[s].tds["SetProtocol"] = dev[s].tds["SetProtocol"]
  PROVE  Expected(s)' <= Expected(s) /\ Expected(s) \in Nat /\ Expected(s)' \in Nat
<1>0. /\ events \in Seq(Events) /\ dev[s] \in Devices /\ "SetProtocol" \in Transfers
      /\ dev[s].tds["SetProtocol"] \in Nat
  BY QueueTypes DEF QInv, Transfers, Devices
<1>1. Cardinality(Replies(events, s)) \in Nat
  BY <1>0, RepliesFinite
<1>2. /\ Cardinality(Replies(events', s)) <= Cardinality(Replies(events, s))
      /\ Cardinality(Replies(events', s)) \in Nat
  <2>1. CASE events' = events
    BY <1>1, <2>1
  <2>2. CASE events # <<>> /\ events' = Tail(events)
    <3>1. Tail(events) \in Seq(Events)
      BY <1>0, <2>2
    <3>2. Cardinality(Replies(Tail(events), s)) \in Nat
      BY <3>1, RepliesFinite
    <3> QED
      BY <1>0, <2>2, <3>2, RepliesOfTail
  <2>3. ASSUME NEW x \in Events, events' = Append(events, x), x.type # "Transfer"
        PROVE  Cardinality(Replies(events', s)) = Cardinality(Replies(events, s))
    BY <1>0, <1>1, <2>3, RepliesOfAppend DEF IsReply
  <2> QED
    BY <1>1, <2>1, <2>2, <2>3 DEF EventsMove
<1> QED
  BY <1>0, <1>1, <1>2 DEF Expected

(* The steps that do: all but the end of a transfer and the handler that   *)
(* starts a class driver.                                                  *)
LEMMA QuietSteps ==
  ASSUME QInv, [Next]_vars, NEW s \in 0 .. NumSlots,
         \A t \in Slots, k \in Transfers : ~CompleteTransfer(t, k),
         OnConfigureEndpoint => Ignore
  PROVE  EventsMove /\ dev'[s].tds["SetProtocol"] = dev[s].tds["SetProtocol"]
<1>0. /\ dev \in [0 .. NumSlots -> Devices] /\ dev[s] \in Devices
      /\ "SetProtocol" \in Transfers /\ "SetProtocol" \notin Singles
      /\ Slots \subseteq 0 .. NumSlots
  BY QueueTypes DEF QInv, Transfers, Singles
<1>a. dev[s].tds \in [Transfers -> Nat]
  BY <1>0 DEF Devices
<1>1. ASSUME NEW t, NEW d, dev' = [dev EXCEPT ![t] = d],
             t = s => d.tds["SetProtocol"] = dev[s].tds["SetProtocol"]
      PROVE  dev'[s].tds["SetProtocol"] = dev[s].tds["SetProtocol"]
  BY <1>0, <1>1
<1>2. Started(dev[s]).tds["SetProtocol"] = dev[s].tds["SetProtocol"]
  BY <1>0, <1>a, StartedType
<1>3. ASSUME NEW of
      PROVE  Reaction(dev[s], of).tds["SetProtocol"] = dev[s].tds["SetProtocol"]
  <2>1. PICK e : e = Reaction(dev[s], of)
    OBVIOUS
  <2>2. e.tds = dev[s].tds \/ \E u \in Singles : AsksNext(dev[s], of, e, u)
    BY <1>0, <2>1, ReactionType
  <2>3. ASSUME NEW u \in Singles, AsksNext(dev[s], of, e, u)
        PROVE  e.tds["SetProtocol"] = dev[s].tds["SetProtocol"]
    <3>1. e.tds = [dev[s].tds EXCEPT ![u] = dev[s].tds[u] + 1]
      BY <2>3 DEF AsksNext
    <3> QED
      BY <1>0, <1>a, <3>1
  <2> QED
    BY <2>1, <2>2, <2>3
<1>4. CASE BootPort \/ WriteReset
  BY <1>4 DEF BootPort, WriteReset, hwVars, EventsMove
<1>5. CASE FinishReset
  <2>1. EventsMove
    BY <1>5 DEF FinishReset, Pop, EventsMove, QInv, IInv, ControlInv, ResetInv, Resetting
  <2>2. dev' = dev \/ dev' = [dev EXCEPT ![after.slot] = Started(dev[after.slot])]
    BY <1>5 DEF FinishReset
  <2> QED
    BY <1>1, <1>2, <2>1, <2>2
<1>6. CASE OnPortStatusChange
  BY <1>6 DEF OnPortStatusChange, OnPlugged, OnPortReset, Ignore, driverVars, HasEvent, Pop,
     EventsMove
<1>7. CASE OnEnableSlot
  <2>1. EventsMove
    BY <1>7 DEF OnEnableSlot, Ignore, HasEvent, Pop, EventsMove
  <2>2. dev' = dev \/ \E t : dev' = [dev EXCEPT ![t] = [dev[t] EXCEPT !.alloc = TRUE]]
    BY <1>7 DEF OnEnableSlot, Ignore, driverVars
  <2>3. PICK e : e = [dev[s] EXCEPT !.alloc = TRUE]
    OBVIOUS
  <2>4. e.tds = dev[s].tds
    BY <1>0, <2>3, AllocatedType
  <2>5. ASSUME NEW t, dev' = [dev EXCEPT ![t] = [dev[t] EXCEPT !.alloc = TRUE]]
        PROVE  dev'[s].tds["SetProtocol"] = dev[s].tds["SetProtocol"]
    <3>1. PICK d : d = [dev[t] EXCEPT !.alloc = TRUE]
      OBVIOUS
    <3>2. dev' = [dev EXCEPT ![t] = d] /\ (t = s => d = e)
      BY <2>3, <2>5, <3>1
    <3> QED
      BY <1>1, <2>4, <3>2
  <2> QED
    BY <2>1, <2>2, <2>5
<1>8. CASE OnAddressDevice
  <2>1. EventsMove
    BY <1>8 DEF OnAddressDevice, HasEvent, Pop, EventsMove
  <2>2. dev' = dev \/ dev' = [dev EXCEPT ![Front.slot] = Started(dev[Front.slot])]
    BY <1>8, SMTT(20) DEF OnAddressDevice
  <2> QED
    BY <1>1, <1>2, <2>1, <2>2
<1>9. CASE OnConfigureEndpoint
  BY <1>9 DEF OnConfigureEndpoint, Ignore, driverVars, HasEvent, Pop, EventsMove
<1>10. CASE OnTransfer
  <2>1. EventsMove
    BY <1>10 DEF OnTransfer, Ignore, HasEvent, Pop, EventsMove
  <2>2. \/ dev' = dev
        \/ dev' = [dev EXCEPT ![Front.slot] = Reaction(dev[Front.slot], Front.of)]
    BY <1>10 DEF OnTransfer, Ignore, driverVars
  <2> QED
    BY <1>1, <1>3, <2>1, <2>2
<1>11. CASE ExecCommand
  <2>1. cmds # <<>> /\ \E t \in 0 .. NumSlots, ok \in BOOLEAN : Complete(t, ok)
    <3>1. cmds # <<>> /\ Head(cmds).slot \in 0 .. NumSlots
      BY <1>11, CommandType DEF ExecCommand, ExecEnableSlot, ExecAddressDevice,
         ExecConfigureEndpoint, FailCommand, QInv, IInv, CommandTRBs
    <3> QED
      BY <1>0, <1>11, <3>1 DEF ExecCommand, ExecEnableSlot, ExecAddressDevice,
         ExecConfigureEndpoint, FailCommand
  <2>2. EventsMove
    <3>1. PICK t \in 0 .. NumSlots, ok \in BOOLEAN : Complete(t, ok)
      BY <2>1
    <3>2. Head(cmds).kind \in Commands
      BY <2>1, CommandType DEF QInv, IInv, CommandTRBs
    <3>3. /\ CommandEvent(Head(cmds).kind, t, ok) \in Events
          /\ CommandEvent(Head(cmds).kind, t, ok).type = "Command"
      BY <3>2, CommandEventType DEF CommandEvent
    <3> QED
      BY <3>1, <3>3 DEF Complete, EventsMove
  <2>3. \/ dev' = dev
        \/ \E t, p : /\ p \in 0 .. NumPorts
                     /\ dev' = [dev EXCEPT ![t] = [dev[t] EXCEPT !.port = p]]
    <3>1. Head(cmds).port \in 0 .. NumPorts
      BY <2>1, CommandType DEF QInv, IInv, CommandTRBs
    <3> QED
      BY <1>11, <3>1 DEF ExecCommand, ExecEnableSlot, ExecAddressDevice,
         ExecConfigureEndpoint, FailCommand, driverVars
  <2>4. \A p \in 0 .. NumPorts : [dev[s] EXCEPT !.port = p].tds = dev[s].tds
    BY <1>0, AddressedType
  <2> QED
    BY <1>1, <2>2, <2>3, <2>4
<1>12. ASSUME NEW p \in Ports, PlugIn(p) \/ PullOut(p) \/ ResetDone(p)
       PROVE  EventsMove /\ dev' = dev
  <2>1. \E bit : Report(p, bit)
    BY <1>12 DEF PlugIn, PullOut, ResetDone
  <2>2. PortEvent(p) \in Events /\ PortEvent(p).type = "Port"
    BY PortEventType DEF PortEvent
  <2> QED
    BY <1>12, <2>1, <2>2 DEF PlugIn, PullOut, ResetDone, driverVars, Report, EventsMove
<1>13. CASE UNCHANGED vars
  BY <1>13 DEF vars, driverVars, hwVars, EventsMove
<1> QED
  BY <1>4, <1>5, <1>6, <1>7, <1>8, <1>9, <1>10, <1>11, <1>12, <1>13 DEF Next, Driver

(* A slot whose output context gets a port has nothing to answer yet. *)
LEMMA NothingExpected ==
  ASSUME QInv, NEW s \in Slots, \A y \in {"InitializingDevice", "Configured"} : ~InPhase(s, y)
  PROVE  Expected(s) = 0
<1>0. s \in 0 .. NumSlots /\ events \in Seq(Events) /\ "SetProtocol" \in Transfers
  BY QueueTypes DEF QInv, Transfers
<1>1. /\ dev[s].tds["SetProtocol"] = 0
      /\ \A e \in Items(events) : ~IsReply(e, s)
  BY <1>0, NoTransfers DEF IsReply
<1>2. Replies(events, s) = {}
  BY <1>1 DEF Replies, Items
<1> QED
  BY <1>1, <1>2, FS_EmptySet DEF Expected

LEMMA ReplyStep == QInv /\ ReplyInv /\ [Next]_vars => ReplyInv'
<1> SUFFICES ASSUME QInv, ReplyInv, [Next]_vars, NEW s \in Slots
             PROVE  Expected(s)' <= EndpointNumbers[dev'[s].port]
  BY DEF ReplyInv
<1>0. /\ events \in Seq(Events) /\ dev[s] \in Devices /\ s \in 0 .. NumSlots
      /\ dev \in [0 .. NumSlots -> Devices]
      /\ "SetProtocol" \in Transfers /\ dev[s].tds["SetProtocol"] \in Nat
      /\ dev[s].tds \in [Transfers -> Nat]
      /\ dev[s].port \in 0 .. NumPorts /\ Slots \subseteq 0 .. NumSlots
  BY QueueTypes DEF QInv, Transfers, Devices
<1>1. /\ QInv' /\ Expected(s) <= EndpointNumbers[dev[s].port]
      /\ EndpointNumbers[dev[s].port] \in Nat
  BY <1>0, QueueStep, EndpointNumbersType DEF ReplyInv
<1>2. dev'[s].port \in 0 .. NumPorts /\ EndpointNumbers[dev'[s].port] \in Nat
  <2>1. dev' \in [0 .. NumSlots -> Devices]
    BY <1>1 DEF QInv, IInv, TypeOK
  <2>2. dev'[s].port \in 0 .. NumPorts
    BY <1>0, <2>1 DEF Devices
  <2> QED
    BY <2>2, EndpointNumbersType
<1>3. ASSUME EventsMove, dev'[s].tds["SetProtocol"] = dev[s].tds["SetProtocol"]
      PROVE  Expected(s)' <= EndpointNumbers[dev'[s].port]
  <2>1. Expected(s)' <= Expected(s) /\ Expected(s) \in Nat /\ Expected(s)' \in Nat
    BY <1>3, RepliesStay
  <2>2. CASE dev'[s].port = dev[s].port
    BY <1>1, <2>1, <2>2
  <2>3. CASE dev'[s].port # dev[s].port
    <3>1. ExecAddressDevice /\ s = Head(cmds).slot
      <4>1. ExecAddressDevice
        BY <1>0, <2>3, DevicePorts DEF QInv
      <4> QED
        BY <1>0, <2>3, <4>1 DEF ExecAddressDevice
    <3>2. slot[s] = "Enabled"
      <4>1. PICK c : c = Head(cmds)
        OBVIOUS
      <4>2. Works(c) /\ c.kind = "AddressDevice" /\ c.slot = s
        BY <3>1, <4>1 DEF ExecAddressDevice
      <4> QED
        BY <4>2 DEF Works
    <3>3. dev[s].port = 0
      BY <1>0, <3>2 DEF QInv, QueueInv, ContextInv
    <3>4. Expected(s) = 0
      BY <3>3, NothingExpected DEF InPhase
    <3> QED
      BY <1>2, <2>1, <3>4
  <2> QED
    BY <2>2, <2>3
<1>4. CASE OnConfigureEndpoint /\ ~Ignore
  <2>1. /\ phase[dev[Front.slot].port] = "ConfiguringEndpoints"
        /\ dev' = [dev EXCEPT ![Front.slot] = ClassStarted(dev[Front.slot])]
        /\ events # <<>> /\ events' = Tail(events)
    BY <1>4 DEF OnConfigureEndpoint, HasEvent, Pop
  <2>2. EventsMove
    BY <2>1 DEF EventsMove
  <2>3. CASE Front.slot # s
    BY <1>0, <1>3, <2>1, <2>2, <2>3
  <2>4. CASE Front.slot = s
    <3>1. /\ dev'[s].port = dev[s].port
          /\ dev'[s].tds["SetProtocol"] =
               dev[s].tds["SetProtocol"] + EndpointNumbers[dev[s].port]
      BY <1>0, <2>1, <2>4, ClassStartedType
    <3>2. \A y \in {"InitializingDevice", "Configured"} : ~InPhase(s, y)
      BY <2>1, <2>4 DEF InPhase
    <3>3. /\ dev[s].tds["SetProtocol"] = 0
          /\ \A e \in Items(events) : ~IsReply(e, s)
      BY <1>0, <3>2, NoTransfers DEF IsReply
    <3>4. Items(events') \subseteq Items(events)
      BY <1>0, <2>1, ItemsOfTail
    <3>5. Replies(events', s) = {}
      BY <3>3, <3>4 DEF Replies, Items
    <3>6. Expected(s)' = EndpointNumbers[dev[s].port]
      BY <1>1, <3>1, <3>3, <3>5, FS_EmptySet DEF Expected
    <3> QED
      BY <1>1, <3>1, <3>6
  <2> QED
    BY <2>3, <2>4
<1>5. ASSUME NEW t \in Slots, NEW k \in Transfers, CompleteTransfer(t, k)
      PROVE  Expected(s)' <= EndpointNumbers[dev'[s].port]
  <2>0. dev[t] \in Devices /\ \A u \in Transfers : dev[t].tds[u] \in Nat
    BY <1>0 DEF Devices
  <2>1. PICK n \in Nat : n < dev[t].tds[k] /\ dev' = [dev EXCEPT ![t] = Pending(dev[t], k, n)]
    <3>1. dev[t].tds[k] - 1 \in Nat /\ dev[t].tds[k] - 1 < dev[t].tds[k]
      BY <1>5, <2>0 DEF CompleteTransfer
    <3> QED
      BY <1>5, <2>0, <3>1 DEF CompleteTransfer
  <2>2. PICK x \in Events :
          events' = Append(events, x) /\ x.type = "Transfer" /\ x.of = k /\ x.slot = t
    <3>1. PICK ok \in BOOLEAN : events' = Append(events, TransferEvent(k, t, ok))
      BY <1>5 DEF CompleteTransfer
    <3> QED
      BY <3>1, TransferEventType DEF TransferEvent
  <2>3. /\ Cardinality(Replies(events, s)) \in Nat
        /\ Cardinality(Replies(events', s)) =
             Cardinality(Replies(events, s)) + (IF IsReply(x, s) THEN 1 ELSE 0)
    BY <1>0, <2>2, RepliesFinite, RepliesOfAppend
  <2>a. PICK e : e = Pending(dev[t], k, n)
    OBVIOUS
  <2>b. e.port = dev[t].port /\ e.tds = [dev[t].tds EXCEPT ![k] = n]
    BY <2>0, <2>a, PendingType
  <2>c. dev'[s] = IF t = s THEN e ELSE dev[s]
    BY <1>0, <2>1, <2>a
  <2>4. dev'[s].port = dev[s].port
    BY <2>b, <2>c
  <2>5. dev'[s].tds["SetProtocol"] =
          IF t = s /\ k = "SetProtocol" THEN n ELSE dev[s].tds["SetProtocol"]
    BY <1>0, <2>b, <2>c
  <2>6. IsReply(x, s) <=> t = s /\ k = "SetProtocol"
    BY <2>2 DEF IsReply
  <2>7. Expected(s)' <= Expected(s) /\ Expected(s) \in Nat /\ Expected(s)' \in Nat
    BY <1>0, <2>0, <2>1, <2>3, <2>5, <2>6, SMTT(20) DEF Expected
  <2> QED
    BY <1>1, <2>4, <2>7
<1>6. CASE /\ \A t \in Slots, k \in Transfers : ~CompleteTransfer(t, k)
           /\ OnConfigureEndpoint => Ignore
  BY <1>0, <1>3, <1>6, QuietSteps
<1> QED
  BY <1>4, <1>5, <1>6

LEMMA ReplyInvariance == Spec => [](QInv /\ ReplyInv)
<1>1. Init => ReplyInv
  <2> SUFFICES ASSUME Init, NEW s \in Slots PROVE Expected(s) <= EndpointNumbers[dev[s].port]
    BY DEF ReplyInv
  <2>1. QInv
    BY InitType, InitControl, InitDefault, QueueInit DEF QInv, IInv
  <2>2. s \in 0 .. NumSlots
    BY <2>1, QueueTypes DEF QInv
  <2>3. dev[s].port = 0 /\ EndpointNumbers[0] \in Nat
    BY <2>2, EndpointNumbersType DEF Init, NoDevice
  <2>4. Expected(s) = 0
    BY <2>1, <2>3, NothingExpected DEF InPhase
  <2> QED
    BY <2>3, <2>4
<1> QED
  BY <1>1, ReplyStep, QueueInvariance, PTL DEF Spec

(* What a device's outstanding transfers have in common: the device is at  *)
(* the point of its work that they are for.                                *)
LEMMA OutstandingFits ==
  ASSUME QInv, NEW s \in Slots, NEW t \in Transfers
  PROVE  LET E == {i \in DOMAIN events : events[i].type = "Transfer"
                                         /\ events[i].of = t /\ events[i].slot = s}
         IN
         /\ IsFiniteSet(E) /\ Cardinality(E) \in Nat /\ dev[s].tds[t] \in Nat
         /\ E \subseteq 1 .. Len(events)
         /\ \A i \in E : events[i] \in Items(events) /\ Fits(s, t)
         /\ t \in Singles => (E = {} \/ NoSingle(dev[s])) /\ \A i, j \in E : i = j
<1> DEFINE E == {i \in DOMAIN events : events[i].type = "Transfer"
                                       /\ events[i].of = t /\ events[i].slot = s}
<1>0. /\ events \in Seq(Events) /\ dev[s] \in Devices /\ EventInv /\ Distinct(cmds, events)
  BY QueueTypes DEF QInv, QueueInv
<1>1. E \subseteq 1 .. Len(events)
  BY <1>0
<1>2. IsFiniteSet(E) /\ Cardinality(E) \in Nat
  <2>1. IsFiniteSet(1 .. Len(events))
    BY <1>0, FS_Interval
  <2>2. IsFiniteSet(E)
    BY <1>1, <2>1, FS_Subset
  <2> QED
    BY <2>2, FS_CardinalityType
<1>3. \A i \in E : /\ events[i] \in Items(events) /\ events[i].type = "Transfer"
                   /\ events[i].of = t /\ events[i].slot = s
  BY <1>1 DEF Items
<1> HIDE DEF E
<1>4. \A i \in E : Fits(s, t) /\ (t \in Singles => NoSingle(dev[s]))
  BY <1>0, <1>3 DEF EventInv, Answered
<1>5. ASSUME t \in Singles, NEW i \in E, NEW j \in E PROVE i = j
  <2>1. Keyed(events[i]) /\ Keyed(events[j])
    BY <1>3, <1>5 DEF Keyed, Singles
  <2>2. EventKey(events[i]) = EventKey(events[j])
    BY <1>3, Keys
  <2> QED
    BY <1>0, <1>1, <2>1, <2>2 DEF Distinct
<1>6. dev[s].tds[t] \in Nat
  BY <1>0 DEF Devices
<1> QED
  BY <1>1, <1>2, <1>3, <1>4, <1>5, <1>6 DEF E

(* Of a kind that a device is asked for one by one, one is outstanding at  *)
(* most, and what is outstanding fits.                                     *)
LEMMA OutstandingBounds ==
  ASSUME QInv, NEW s \in Slots, NEW t \in Transfers
  PROVE  LET n == TransfersOutstanding(s, t) IN
         /\ n \in Nat
         /\ n > 0 => Fits(s, t)
         /\ t \in Singles => n <= 1
<1> DEFINE E == {i \in DOMAIN events : events[i].type = "Transfer"
                                       /\ events[i].of = t /\ events[i].slot = s}
<1>0. Asked(s)
  BY QueueTypes DEF QInv, QueueInv, TransferInv
<1>1. /\ IsFiniteSet(E) /\ Cardinality(E) \in Nat /\ dev[s].tds[t] \in Nat
      /\ \A i \in E : Fits(s, t)
      /\ t \in Singles => (E = {} \/ NoSingle(dev[s])) /\ \A i, j \in E : i = j
  BY OutstandingFits
<1>2. TransfersOutstanding(s, t) = dev[s].tds[t] + Cardinality(E)
  BY DEF TransfersOutstanding
<1> HIDE DEF E
<1>3. E = {} <=> Cardinality(E) = 0
  BY <1>1, FS_EmptySet
<1>4. (\A i, j \in E : i = j) => Cardinality(E) <= 1
  <2>1. ASSUME \A i, j \in E : i = j PROVE Cardinality(E) + Cardinality({}) <= 1
    BY <2>1, AtMostOne
  <2> QED
    BY <1>1, <2>1, FS_EmptySet
<1>5. dev[s].tds[t] > 0 => Fits(s, t)
  BY <1>0 DEF Asked
<1>6. t \in Singles => dev[s].tds[t] <= 1 /\ (NoSingle(dev[s]) => dev[s].tds[t] = 0)
  BY <1>0 DEF Asked, OneSingle, NoSingle
<1> QED
  BY <1>1, <1>2, <1>3, <1>4, <1>5, <1>6

(* Two kinds that are asked for one by one are never both outstanding. *)
LEMMA OutstandingAlone ==
  ASSUME QInv, NEW s \in Slots, NEW t \in Singles, NEW u \in Singles,
         TransfersOutstanding(s, t) > 0, TransfersOutstanding(s, u) > 0
  PROVE  t = u
<1> DEFINE E(k) == {i \in DOMAIN events : events[i].type = "Transfer"
                                          /\ events[i].of = k /\ events[i].slot = s}
<1>0. /\ Asked(s) /\ events \in Seq(Events) /\ Distinct(cmds, events)
      /\ Singles \subseteq Transfers
  BY QueueTypes DEF QInv, QueueInv, TransferInv, Singles
<1>1. ASSUME NEW k \in Singles
      PROVE  /\ IsFiniteSet(E(k)) /\ Cardinality(E(k)) \in Nat /\ dev[s].tds[k] \in Nat
             /\ E(k) \subseteq 1 .. Len(events) /\ (E(k) = {} \/ NoSingle(dev[s]))
             /\ \A i \in E(k) : /\ events[i].type = "Transfer" /\ events[i].of = k
                                /\ events[i].slot = s
  BY <1>0, OutstandingFits
<1>2. ASSUME NEW k \in Singles, TransfersOutstanding(s, k) > 0
      PROVE  dev[s].tds[k] > 0 \/ E(k) # {}
  <2>1. TransfersOutstanding(s, k) = dev[s].tds[k] + Cardinality(E(k))
    BY DEF TransfersOutstanding
  <2> HIDE DEF E
  <2>2. E(k) = {} => Cardinality(E(k)) = 0
    BY FS_EmptySet
  <2> QED
    BY <1>1, <1>2, <2>1, <2>2
<1> HIDE DEF E
<1>3. CASE dev[s].tds[t] > 0 /\ dev[s].tds[u] > 0
  BY <1>0, <1>3 DEF Asked, OneSingle
<1>4. ASSUME NEW i \in E(t), NEW j \in E(u) PROVE t = u
  <2>1. Keyed(events[i]) /\ Keyed(events[j])
    BY <1>1, <1>4 DEF Keyed, Singles
  <2>2. EventKey(events[i]) = EventKey(events[j])
    BY <1>1, <1>4, Keys
  <2>3. i = j
    BY <1>0, <1>1, <1>4, <2>1, <2>2 DEF Distinct
  <2> QED
    BY <1>1, <1>4, <2>3
<1>5. CASE (E(t) # {} /\ dev[s].tds[u] > 0) \/ (E(u) # {} /\ dev[s].tds[t] > 0)
  <2>1. NoSingle(dev[s])
    BY <1>1, <1>5
  <2> QED
    BY <1>5, <2>1 DEF NoSingle
<1> QED
  BY <1>2, <1>3, <1>4, <1>5

(* The rings and the buffers of a device are not overrun: one transfer of  *)
(* each kind is outstanding at most, of SetProtocol one per endpoint       *)
(* number of the class driver, and no kind beside another but the first    *)
(* report beside the late answers to SetProtocol.                          *)
THEOREM TransfersLimited == Spec => []TransfersBounded
<1>1. QInv /\ ReplyInv => TransfersBounded
  <2> SUFFICES ASSUME QInv, ReplyInv, NEW s \in Slots
               PROVE  /\ \A t \in Transfers :
                           TransfersOutstanding(s, t)
                             <= IF t = "SetProtocol" THEN EndpointNumbers[dev[s].port] ELSE 1
                      /\ \A t, u \in Transfers :
                           TransfersOutstanding(s, t) > 0 /\ TransfersOutstanding(s, u) > 0
                             /\ t # u => {t, u} = {"SetProtocol", "InterruptIn"}
    BY DEF TransfersBounded
  <2>1. TransfersOutstanding(s, "SetProtocol") = Expected(s)
    <3>1. DOMAIN events = 1 .. Len(events)
      BY QueueTypes DEF QInv
    <3>2. {i \in DOMAIN events : events[i].type = "Transfer"
                                 /\ events[i].of = "SetProtocol" /\ events[i].slot = s}
            = Replies(events, s)
      BY <3>1 DEF Replies, IsReply
    <3> QED
      BY <3>2 DEF TransfersOutstanding, Expected
  <2>2. ASSUME NEW t \in Transfers
        PROVE  TransfersOutstanding(s, t)
                 <= IF t = "SetProtocol" THEN EndpointNumbers[dev[s].port] ELSE 1
    BY <2>1, OutstandingBounds DEF ReplyInv, Singles
  <2>3. ASSUME NEW t \in Transfers, NEW u \in Transfers, t # u,
               TransfersOutstanding(s, t) > 0, TransfersOutstanding(s, u) > 0
        PROVE  {t, u} = {"SetProtocol", "InterruptIn"}
    <3>1. Fits(s, t) /\ Fits(s, u)
      BY <2>3, OutstandingBounds
    <3>2. PhaseOf(t) = PhaseOf(u)
      BY <3>1 DEF Fits, InPhase
    <3>3. t = "SetProtocol" \/ u = "SetProtocol"
      BY <2>3, OutstandingAlone DEF Singles
    <3> QED
      BY <2>3, <3>2, <3>3 DEF PhaseOf
  <2> QED
    BY <2>2, <2>3
<1> QED
  BY <1>1, ReplyInvariance, PTL
=============================================================================

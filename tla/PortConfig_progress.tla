------------------------- MODULE PortConfig_progress -------------------------
(***************************************************************************)
(* Proofs about PortConfig, concluded: what holds as long as the hardware  *)
(* does what it is asked, for any number of ports and slots.  What is      *)
(* assumed of the bounds (no fault, enough slots, nothing pulled out) each *)
(* theorem says for itself.                                                *)
(***************************************************************************)
EXTENDS PortConfig_proofs

(* A queue is its first item and the rest.                                 *)
LEMMA ItemsOfHead ==
  ASSUME NEW S, NEW q \in Seq(S), q # <<>>
  PROVE  Items(q) \subseteq Items(Tail(q)) \cup {Head(q)}
<1> DEFINE r == Tail(q)
<1>1. /\ Len(r) = Len(q) - 1 /\ Len(q) \in Nat \ {0}
      /\ \A i \in 1 .. Len(r) : r[i] = q[i + 1]
      /\ Head(q) = q[1]
  OBVIOUS
<1> HIDE DEF r
<1>2. ASSUME NEW i \in 1 .. Len(q), i # 1 PROVE q[i] \in Items(r)
  <2>1. i - 1 \in 1 .. Len(r) /\ r[i - 1] = q[i]
    BY <1>1, <1>2
  <2> QED
    BY <2>1 DEF Items
<1>3. Items(q) \subseteq Items(r) \cup {Head(q)}
  BY <1>1, <1>2 DEF Items
<1> QED
  BY <1>3 DEF r

(* A set of natural numbers has a lowest member.                           *)
LEMMA LowestMember ==
  ASSUME NEW S \in SUBSET Nat, S # {}
  PROVE  \E x \in S : \A y \in S : x <= y
<1>0. PICK R : R = OpToRel(<, Nat)
  OBVIOUS
<1>1. IsWellFoundedOn(R, Nat)
  BY <1>0, NatLessThanWellFounded, Zenon
<1>2. PICK x \in S : \A y \in S : ~ (<<y, x>> \in R)
  BY <1>1, WFMin
<1>3. ASSUME NEW y \in S, y < x PROVE FALSE
  <2>1. <<y, x>> \in R
    BY <1>0, <1>3, Zenon DEF OpToRel
  <2> QED
    BY <1>2, <2>1
<1> QED
  BY <1>2, <1>3

-----------------------------------------------------------------------------
(* Where a command, an event and the state of a slot come from *)

(* A handler rings in one command of the kind that follows.                *)
LEMMA CommandSource ==
  ASSUME QInv, [Next]_vars, NEW c \in Items(cmds')
  PROVE  \/ c \in Items(cmds)
         \/ /\ OnPortStatusChange /\ OnPortReset(Front.port)
            /\ c = [kind |-> "EnableSlot", slot |-> 0, port |-> 0]
         \/ /\ OnEnableSlot /\ phase[addressing] = "EnablingSlot"
            /\ c = [kind |-> "AddressDevice", slot |-> Front.slot, port |-> addressing]
         \/ /\ OnTransfer /\ Front.ok /\ dev[Front.slot].alloc
            /\ NeedsEndpoints(Reaction(dev[Front.slot], Front.of))
            /\ c = [kind |-> "ConfigureEndpoint", slot |-> Front.slot, port |-> 0]
<1>0. /\ cmds \in Seq(CommandTRBs) /\ TypeOK
      /\ Front \in Events \/ events = <<>>
  BY QueueTypes, FrontType DEF QInv, IInv
<1>1. ASSUME NEW x \in CommandTRBs, cmds' = Append(cmds, x) PROVE c \in Items(cmds) \/ c = x
  BY <1>0, <1>1, ItemsOfAppend
<1>2. ASSUME cmds # <<>>, cmds' = Tail(cmds) PROVE c \in Items(cmds)
  BY <1>0, <1>2, ItemsOfTail
<1>3. CASE OnPortStatusChange /\ cmds' # cmds
  <2> DEFINE x == [kind |-> "EnableSlot", slot |-> 0, port |-> 0]
  <2>1. OnPortReset(Front.port) /\ cmds' = Append(cmds, x)
    BY <1>3 DEF OnPortStatusChange, OnPlugged, OnPortReset, Ignore, Ring
  <2>2. x \in CommandTRBs
    BY PortConfigAssumption DEF CommandTRBs, Commands
  <2> HIDE DEF x
  <2>3. c \in Items(cmds) \/ c = x
    BY <1>1, <2>1, <2>2
  <2> QED
    BY <1>3, <2>1, <2>3 DEF x
<1>4. CASE OnEnableSlot /\ cmds' # cmds
  <2> DEFINE x == [kind |-> "AddressDevice", slot |-> Front.slot, port |-> addressing]
  <2>1. phase[addressing] = "EnablingSlot" /\ cmds' = Append(cmds, x) /\ events # <<>>
    BY <1>4 DEF OnEnableSlot, HasEvent, Ignore, Ring
  <2>2. Front.slot \in 0 .. NumSlots /\ addressing \in 0 .. NumPorts
    BY <1>0, <2>1, QueueTypes DEF QInv
  <2>3. x \in CommandTRBs
    BY <2>2 DEF CommandTRBs, Commands
  <2> HIDE DEF x
  <2>4. c \in Items(cmds) \/ c = x
    BY <1>1, <2>1, <2>3
  <2> QED
    BY <1>4, <2>1, <2>4 DEF x
<1>5. CASE OnTransfer /\ cmds' # cmds
  <2> DEFINE x == [kind |-> "ConfigureEndpoint", slot |-> Front.slot, port |-> 0]
  <2>1. /\ Front.ok /\ dev[Front.slot].alloc /\ events # <<>>
        /\ NeedsEndpoints(Reaction(dev[Front.slot], Front.of))
        /\ cmds' = Append(cmds, x)
    BY <1>5 DEF OnTransfer, ConfigureEndpoints, HasEvent, Ignore, Ring
  <2>2. Front.slot \in 0 .. NumSlots
    BY <1>0, <2>1, QueueTypes DEF QInv
  <2>3. x \in CommandTRBs
    BY <2>2, PortConfigAssumption DEF CommandTRBs, Commands
  <2> HIDE DEF x
  <2>4. c \in Items(cmds) \/ c = x
    BY <1>1, <2>1, <2>3
  <2> QED
    BY <1>5, <2>1, <2>4 DEF x
<1>6. CASE ExecCommand
  <2>1. cmds # <<>> /\ cmds' = Tail(cmds)
    BY <1>6 DEF ExecCommand, ExecEnableSlot, ExecAddressDevice, ExecConfigureEndpoint,
       FailCommand, Complete
  <2> QED
    BY <1>2, <2>1
<1>7. Driver /\ cmds' # cmds => OnEnableSlot \/ OnPortStatusChange \/ OnTransfer
  BY DEF Driver, BootPort, WriteReset, FinishReset, OnAddressDevice, OnConfigureEndpoint,
     Ignore, hwVars
<1>8. ASSUME NEW q \in Ports, PlugIn(q) \/ PullOut(q) \/ ResetDone(q) PROVE cmds' = cmds
  BY <1>8 DEF PlugIn, PullOut, ResetDone
<1>9. ASSUME NEW t \in Slots, NEW k \in Transfers, CompleteTransfer(t, k)
      PROVE  cmds' = cmds
  BY <1>9 DEF CompleteTransfer
<1>10. UNCHANGED vars => cmds' = cmds
  BY DEF vars, hwVars
<1> QED
  BY <1>3, <1>4, <1>5, <1>6, <1>7, <1>8, <1>9, <1>10 DEF Next

(* The hardware reports a port, the command it has executed or given up,   *)
(* or the end of a transfer.                                               *)
LEMMA EventSource ==
  ASSUME QInv, [Next]_vars, NEW e \in Items(events')
  PROVE  \/ e \in Items(events)
         \/ e.type = "Port"
         \/ /\ ExecEnableSlot
            /\ \E s \in Slots : /\ slot[s] = "Disabled" /\ slot'[s] = "Enabled"
                                /\ e = CommandEvent("EnableSlot", s, TRUE)
         \/ ExecAddressDevice /\ e = CommandEvent("AddressDevice", Head(cmds).slot, TRUE)
         \/ ExecConfigureEndpoint /\ e = CommandEvent("ConfigureEndpoint", Head(cmds).slot, TRUE)
         \/ FailCommand /\ e = CommandEvent(Head(cmds).kind, Head(cmds).slot, FALSE)
         \/ \E s \in Slots, t \in Transfers :
              /\ CompleteTransfer(s, t)
              /\ \E ok \in BOOLEAN : e = TransferEvent(t, s, ok)
<1>0. /\ events \in Seq(Events) /\ TypeOK /\ slot \in [Slots -> SlotStates]
      /\ dev \in [0 .. NumSlots -> Devices] /\ Slots \subseteq 0 .. NumSlots
  BY QueueTypes DEF QInv, IInv, TypeOK
<1>1. ASSUME NEW x \in Events, events' = Append(events, x) PROVE e \in Items(events) \/ e = x
  BY <1>0, <1>1, ItemsOfAppend
<1>2. CASE events # <<>> /\ events' = Tail(events)
  BY <1>0, <1>2, ItemsOfTail
<1>3. Driver => events' = events \/ (events # <<>> /\ events' = Tail(events))
  BY DEF Driver, BootPort, WriteReset, FinishReset, OnPortStatusChange, OnPlugged, OnPortReset,
     OnEnableSlot, OnAddressDevice, OnConfigureEndpoint, OnTransfer, Ignore, Pop, HasEvent,
     hwVars, QInv, IInv, ControlInv, ResetInv, Resetting
<1>4. ASSUME NEW q \in Ports, PlugIn(q) \/ PullOut(q) \/ ResetDone(q)
      PROVE  e \in Items(events) \/ e.type = "Port"
  <2>1. \E bit : Report(q, bit)
    BY <1>4 DEF PlugIn, PullOut, ResetDone
  <2> QED
    BY <2>1, ReportStep
<1>5. ASSUME cmds # <<>>, NEW s \in 0 .. NumSlots, NEW ok \in BOOLEAN, Complete(s, ok)
      PROVE  e \in Items(events) \/ e = CommandEvent(Head(cmds).kind, s, ok)
  <2>1. Head(cmds).kind \in Commands
    BY <1>0, <1>5, CommandType DEF CommandTRBs
  <2>2. CommandEvent(Head(cmds).kind, s, ok) \in Events
    BY <2>1, CommandEventType
  <2> QED
    BY <1>1, <1>5, <2>2 DEF Complete
<1>6. cmds # <<>> => Head(cmds).slot \in 0 .. NumSlots
  BY <1>0, CommandType DEF CommandTRBs
<1>7. CASE ExecEnableSlot
  <2>1. PICK s \in Slots : /\ slot[s] = "Disabled"
                           /\ slot' = [slot EXCEPT ![s] = "Enabled"]
                           /\ Complete(s, TRUE)
    BY <1>7 DEF ExecEnableSlot
  <2>2. slot'[s] = "Enabled"
    BY <1>0, <2>1
  <2>3. e \in Items(events) \/ e = CommandEvent("EnableSlot", s, TRUE)
    BY <1>0, <1>5, <1>7, <2>1 DEF ExecEnableSlot
  <2> QED
    BY <1>7, <2>1, <2>2, <2>3
<1>8. CASE ExecAddressDevice \/ ExecConfigureEndpoint
  BY <1>5, <1>6, <1>8 DEF ExecAddressDevice, ExecConfigureEndpoint
<1>9. CASE FailCommand
  BY <1>5, <1>6, <1>9 DEF FailCommand
<1>10. ASSUME NEW s \in Slots, NEW t \in Transfers, CompleteTransfer(s, t)
       PROVE  e \in Items(events) \/ \E ok \in BOOLEAN : e = TransferEvent(t, s, ok)
  <2>1. PICK ok \in BOOLEAN : events' = Append(events, TransferEvent(t, s, ok))
    BY <1>10 DEF CompleteTransfer
  <2>2. TransferEvent(t, s, ok) \in Events
    BY TransferEventType
  <2> QED
    BY <1>1, <2>1, <2>2
<1>11. UNCHANGED vars => events' = events
  BY DEF vars, hwVars
<1> QED
  BY <1>2, <1>3, <1>4, <1>7, <1>8, <1>9, <1>10, <1>11 DEF Next, ExecCommand

(* A slot goes through its states one command at a time.                   *)
LEMMA SlotSource ==
  ASSUME QInv, [Next]_vars, NEW s \in Slots
  PROVE  \/ slot'[s] = slot[s]
         \/ ExecEnableSlot /\ slot[s] = "Disabled" /\ slot'[s] = "Enabled"
         \/ /\ ExecAddressDevice /\ s = Head(cmds).slot
            /\ slot[s] = "Enabled" /\ slot'[s] = "Addressed"
         \/ /\ ExecConfigureEndpoint /\ s = Head(cmds).slot
            /\ slot[s] = "Addressed" /\ slot'[s] = "Configured"
<1>0. slot \in [Slots -> SlotStates]
  BY DEF QInv, IInv, TypeOK
<1>1. CASE ExecEnableSlot
  BY <1>0, <1>1 DEF ExecEnableSlot
<1>2. CASE ExecAddressDevice
  BY <1>0, <1>2 DEF ExecAddressDevice, Works
<1>3. CASE ExecConfigureEndpoint
  BY <1>0, <1>3 DEF ExecConfigureEndpoint, Works
<1>4. CASE FailCommand \/ Driver \/ UNCHANGED vars
  BY <1>4 DEF FailCommand, Driver, BootPort, WriteReset, FinishReset, OnPortStatusChange,
     OnPlugged, OnPortReset, OnEnableSlot, OnAddressDevice, OnConfigureEndpoint, OnTransfer,
     Ignore, hwVars, vars
<1>5. ASSUME NEW p \in Ports, PlugIn(p) \/ PullOut(p) \/ ResetDone(p) PROVE slot' = slot
  BY <1>5 DEF PlugIn, PullOut, ResetDone
<1>6. ASSUME NEW t \in Slots, NEW k \in Transfers, CompleteTransfer(t, k)
      PROVE  slot' = slot
  BY <1>6 DEF CompleteTransfer
<1> QED
  BY <1>1, <1>2, <1>3, <1>4, <1>5, <1>6 DEF Next, ExecCommand

-----------------------------------------------------------------------------
(* Enough slots: no EnableSlot fails *)

(* The slots in use are at most those of the ports that were given one.    *)
Used == {s \in Slots : slot[s] # "Disabled"}

EnablePending == \E c \in Items(cmds) : c.kind = "EnableSlot"

HasSlot(p) == phase[p] \notin Untouched /\ ~(phase[p] = "EnablingSlot" /\ EnablePending)

Holders == {p \in Ports : HasSlot(p)}

SlotsInv ==
  /\ Cardinality(Used) <= Cardinality(Holders)
  /\ \A e \in Items(events) : e.type = "Command" /\ e.of = "EnableSlot" => e.slot \in Slots
  /\ ScratchpadKept

LEMMA FiniteSlots ==
  /\ IsFiniteSet(Used) /\ IsFiniteSet(Holders) /\ IsFiniteSet(Slots) /\ IsFiniteSet(Ports)
  /\ Cardinality(Used) \in Nat /\ Cardinality(Holders) \in Nat
  /\ Cardinality(Slots) = NumSlots /\ Cardinality(Ports) = NumPorts
<1>0. NumSlots \in Nat /\ NumPorts \in Nat
  BY PortConfigAssumption
<1>1. /\ IsFiniteSet(Slots) /\ IsFiniteSet(Ports)
      /\ Cardinality(Slots) = NumSlots /\ Cardinality(Ports) = NumPorts
  BY <1>0, FS_Interval DEF Slots, Ports
<1>2. Used \subseteq Slots /\ Holders \subseteq Ports
  BY DEF Used, Holders
<1>3. IsFiniteSet(Used) /\ IsFiniteSet(Holders)
  BY <1>1, <1>2, FS_Subset
<1> QED
  BY <1>1, <1>3, FS_CardinalityType

(* The command whose completion is awaited has its port not counted yet.   *)
LEMMA EnablePort ==
  ASSUME QInv, EnablePending
  PROVE  /\ phase[addressing] = "EnablingSlot" /\ addressing \in Ports
         /\ addressing \notin Holders
<1>1. phase[addressing] = "EnablingSlot"
  BY DEF QInv, QueueInv, CommandInv, EnablePending
<1>2. addressing \in Ports
  BY <1>1, QueueTypes DEF QInv, IInv, TypeOK, Ports
<1> QED
  BY <1>1, <1>2 DEF Holders, HasSlot

(* A slot is free when the command is executed.                            *)
LEMMA SlotFree ==
  ASSUME NumSlots >= NumPorts, QInv, SlotsInv, EnablePending
  PROVE  \E s \in Slots : slot[s] = "Disabled"
<1> SUFFICES ASSUME \A s \in Slots : slot[s] # "Disabled" PROVE FALSE
  OBVIOUS
<1>1. Used = Slots
  BY DEF Used
<1>2. addressing \in Ports /\ addressing \notin Holders
  BY EnablePort
<1>3. Holders \subseteq Ports /\ Holders # Ports
  BY <1>2 DEF Holders
<1>4. Cardinality(Holders) <= NumPorts /\ Cardinality(Holders) # NumPorts
  BY <1>3, FiniteSlots, FS_Subset
<1> QED
  BY <1>1, <1>4, FiniteSlots, PortConfigAssumption DEF SlotsInv

LEMMA HoldersStay ==
  ASSUME QInv, [Next]_vars
  PROVE  Holders \subseteq Holders'
<1> SUFFICES ASSUME NEW p \in Ports, HasSlot(p) PROVE HasSlot(p)'
  BY DEF Holders
<1>1. p \in 0 .. NumPorts /\ phase \in [0 .. NumPorts -> Phases]
  BY QueueTypes DEF QInv
<1>2. phase'[p] = phase[p] \/ <<phase[p], phase'[p]>> \in Successor
  BY <1>1, PhaseStep DEF QInv
<1>3. phase'[p] \notin Untouched /\ (phase'[p] = "EnablingSlot" => phase[p] = "EnablingSlot")
  BY <1>2 DEF HasSlot, Untouched, Successor
<1>4. ASSUME phase'[p] = "EnablingSlot", NEW c \in Items(cmds'), c.kind = "EnableSlot"
      PROVE  FALSE
  <2>1. phase[p] = "EnablingSlot" /\ ~EnablePending
    BY <1>3, <1>4 DEF HasSlot
  <2>2. OnPortStatusChange /\ OnPortReset(Front.port)
    BY <1>4, <2>1, CommandSource DEF EnablePending
  <2>3. phase[Front.port] = "ResettingPort" /\ Front.port \in Ports
    <3>1. Front \in Events /\ Front.type = "Port"
      BY <2>2, FrontType DEF QInv, IInv, OnPortStatusChange, HasEvent
    <3> QED
      BY <2>2, <3>1 DEF OnPortReset, Events
  <2>4. \A q \in Ports : phase[q] \in InSequence => q = addressing
    BY <2>2, HandlersQuiet DEF QInv, IInv, OnPortStatusChange
  <2> QED
    BY <2>1, <2>3, <2>4 DEF InSequence
<1> QED
  BY <1>3, <1>4 DEF HasSlot, EnablePending

(* The command that is executed is not pending any more.                   *)
LEMMA EnableExecuted ==
  ASSUME QInv, cmds # <<>>, Head(cmds).kind = "EnableSlot", cmds' = Tail(cmds),
         UNCHANGED <<phase, addressing>>
  PROVE  EnablePending /\ Holders \cup {addressing} \subseteq Holders'
<1>1. /\ cmds \in Seq(CommandTRBs) /\ events \in Seq(Events) /\ Distinct(cmds, events)
      /\ Items(cmds') \subseteq Items(cmds) /\ Head(cmds) \in Items(cmds)
  BY QueueTypes, ItemsOfTail DEF QInv, QueueInv
<1>2. EnablePending
  BY <1>1 DEF EnablePending
<1>3. \A c \in Items(cmds') : CommandKey(c.kind, c.slot) # CommandKey("EnableSlot", Head(cmds).slot)
  BY <1>1, DistinctExec
<1>4. ~EnablePending'
  BY <1>3, Keys DEF EnablePending
<1>5. phase[addressing] = "EnablingSlot" /\ addressing \in Ports
  BY <1>2, EnablePort
<1> QED
  BY <1>2, <1>4, <1>5 DEF Holders, HasSlot, Untouched

LEMMA UsedStep ==
  ASSUME QInv, SlotsInv, [Next]_vars
  PROVE  (Cardinality(Used) <= Cardinality(Holders))'
<1>0. slot \in [Slots -> SlotStates] /\ Holders \subseteq Holders'
  BY HoldersStay DEF QInv, IInv, TypeOK
<1>1. IsFiniteSet(Holders') /\ Cardinality(Used') \in Nat /\ Cardinality(Holders') \in Nat
  <2>1. Used' \subseteq Slots /\ Holders' \subseteq Ports
    BY DEF Used, Holders
  <2>2. IsFiniteSet(Used') /\ IsFiniteSet(Holders')
    BY <2>1, FiniteSlots, FS_Subset
  <2> QED
    BY <2>2, FS_CardinalityType
<1>2. CASE ExecEnableSlot
  <2>1. PICK s \in Slots : slot[s] = "Disabled" /\ slot' = [slot EXCEPT ![s] = "Enabled"]
    BY <1>2 DEF ExecEnableSlot
  <2>2. s \notin Used /\ Used' = Used \cup {s}
    BY <1>0, <2>1 DEF Used
  <2>3. Cardinality(Used') = Cardinality(Used) + 1
    BY <2>2, FiniteSlots, FS_AddElement
  <2>4. EnablePending /\ Holders \cup {addressing} \subseteq Holders'
    BY <1>2, EnableExecuted DEF ExecEnableSlot, Complete, driverVars
  <2>5. addressing \notin Holders
    BY <2>4, EnablePort
  <2>6. /\ Cardinality(Holders \cup {addressing}) = Cardinality(Holders) + 1
        /\ Cardinality(Holders \cup {addressing}) <= Cardinality(Holders')
    BY <1>1, <2>4, <2>5, FiniteSlots, FS_AddElement, FS_Subset
  <2> QED
    BY <1>1, <2>3, <2>6, FiniteSlots DEF SlotsInv
<1>3. CASE ~ExecEnableSlot
  <2>1. \A s \in Slots : slot[s] = "Disabled" <=> slot'[s] = "Disabled"
    BY <1>3, SlotSource
  <2>2. Used' = Used
    BY <2>1 DEF Used
  <2>3. Cardinality(Holders) <= Cardinality(Holders')
    BY <1>0, <1>1, FS_Subset
  <2> QED
    BY <1>1, <2>2, <2>3, FiniteSlots DEF SlotsInv
<1> QED
  BY <1>2, <1>3

LEMMA SlotsStep ==
  ASSUME NumSlots >= NumPorts, MaxFaults = 0, QInv, SlotsInv, [Next]_vars
  PROVE  SlotsInv'
<1>1. ASSUME NEW e \in Items(events'), e.type = "Command", e.of = "EnableSlot"
      PROVE  e.slot \in Slots
  <2>1. CASE e \in Items(events)
    BY <1>1, <2>1 DEF SlotsInv
  <2>2. ASSUME NEW s \in Slots, e = CommandEvent("EnableSlot", s, TRUE) PROVE e.slot \in Slots
    BY <2>2 DEF CommandEvent
  <2>3. \A s, ok : e # CommandEvent("AddressDevice", s, ok)
                   /\ e # CommandEvent("ConfigureEndpoint", s, ok)
    BY <1>1 DEF CommandEvent
  <2>4. \A t, s, ok : e # TransferEvent(t, s, ok)
    BY <1>1 DEF TransferEvent
  <2>5. ASSUME FailCommand, e = CommandEvent(Head(cmds).kind, Head(cmds).slot, FALSE) PROVE FALSE
    <3>1. Head(cmds).kind = "EnableSlot"
      BY <1>1, <2>5 DEF CommandEvent
    <3>2. ~Works(Head(cmds))
      BY <2>5 DEF FailCommand, QInv, IInv, TypeOK
    <3>3. EnablePending
      BY <2>5, <3>1, QueueTypes, ItemsOfTail DEF QInv, FailCommand, EnablePending
    <3>4. \E s \in Slots : slot[s] = "Disabled"
      BY <3>3, SlotFree
    <3> QED
      BY <3>1, <3>2, <3>4 DEF Works
  <2> QED
    BY <1>1, <2>1, <2>2, <2>3, <2>4, <2>5, EventSource
<1>2. ScratchpadKept'
  <2>1. CASE OnEnableSlot
    <3>1. Front \in Items(events)
      BY <2>1, QueueTypes, ItemsOfTail DEF QInv, OnEnableSlot, HasEvent, Front
    <3>2. Front.slot \in Slots
      BY <2>1, <3>1 DEF SlotsInv, OnEnableSlot
    <3>3. Front.slot # 0
      BY <3>2 DEF Slots
    <3>4. dcbaa' = dcbaa \/ dcbaa' = [dcbaa EXCEPT ![Front.slot] = "device"]
      BY <2>1 DEF OnEnableSlot, LoadDCBAA, Ignore, driverVars
    <3>5. dcbaa'[0] = dcbaa[0]
      BY <3>3, <3>4, PortConfigAssumption DEF QInv, IInv, TypeOK
    <3> QED
      BY <3>5 DEF SlotsInv, ScratchpadKept
  <2>2. CASE Driver /\ ~OnEnableSlot
    BY <2>2 DEF SlotsInv, ScratchpadKept, Driver, BootPort, WriteReset, FinishReset,
       OnPortStatusChange, OnPlugged, OnPortReset, OnAddressDevice, OnConfigureEndpoint,
       OnTransfer, Ignore, driverVars
  <2>3. CASE ExecCommand \/ UNCHANGED vars
    BY <2>3 DEF SlotsInv, ScratchpadKept, ExecCommand, ExecEnableSlot, ExecAddressDevice,
       ExecConfigureEndpoint, FailCommand, vars, driverVars
  <2>4. ASSUME NEW q \in Ports, PlugIn(q) \/ PullOut(q) \/ ResetDone(q) PROVE dcbaa' = dcbaa
    BY <2>4 DEF PlugIn, PullOut, ResetDone, driverVars
  <2>5. ASSUME NEW t \in Slots, NEW k \in Transfers, CompleteTransfer(t, k)
        PROVE  dcbaa' = dcbaa
    BY <2>5 DEF CompleteTransfer
  <2> QED
    BY <2>1, <2>2, <2>3, <2>4, <2>5 DEF Next, SlotsInv, ScratchpadKept
<1> QED
  BY <1>1, <1>2, UsedStep DEF SlotsInv

LEMMA SlotsInit == Init => SlotsInv
<1> SUFFICES ASSUME Init PROVE SlotsInv
  OBVIOUS
<1>1. Used = {} /\ ScratchpadKept
  BY PortConfigAssumption DEF Init, Used, ScratchpadKept
<1>2. Items(events) = {}
  <2>1. Len(events) = 0
    BY DEF Init
  <2> QED
    BY <2>1 DEF Items
<1> QED
  BY <1>1, <1>2, FS_EmptySet, FiniteSlots DEF SlotsInv

(* With a slot for every port and no failing command, entry 0 of the       *)
(* context array keeps the scratchpad buffers, whatever is pulled out: an  *)
(* EnableSlot never fails, so no handler ever gets slot 0.                 *)
THEOREM Scratchpad ==
  ASSUME NumSlots >= NumPorts, MaxFaults = 0
  PROVE  Spec => []ScratchpadKept
<1>1. Init => QInv /\ SlotsInv
  BY InitType, InitControl, InitDefault, QueueInit, SlotsInit DEF QInv, IInv
<1>2. QInv /\ SlotsInv /\ [Next]_vars => (QInv /\ SlotsInv)'
  BY QueueStep, SlotsStep
<1>3. SlotsInv => ScratchpadKept
  BY DEF SlotsInv
<1> QED
  BY <1>1, <1>2, <1>3, PTL DEF Spec

-----------------------------------------------------------------------------
(* Nothing fails, nothing is pulled out: what is called configured is      *)

Undisturbed == MaxUnplugs = 0 /\ MaxFaults = 0

LEMMA Quiet ==
  ASSUME Undisturbed, QInv
  PROVE  (\A p \in Ports : ~PullOut(p)) /\ (FailCommand => ~Works(Head(cmds)))
<1>1. ~(unplugs < MaxUnplugs) /\ ~(faults < MaxFaults)
  BY DEF Undisturbed, QInv, IInv, TypeOK
<1> QED
  BY <1>1, Zenon DEF PullOut, FailCommand

(* An output context gets a port when the AddressDevice for it works.      *)
LEMMA PortSource ==
  ASSUME QInv, [Next]_vars, NEW s \in 0 .. NumSlots
  PROVE  \/ dev'[s].port = dev[s].port
         \/ /\ ExecAddressDevice /\ s = Head(cmds).slot /\ s \in Slots
            /\ dev[s].port = 0 /\ dev'[s].port = addressing /\ addressing \in Ports
            /\ slot[s] = "Enabled" /\ slot'[s] = "Addressed"
            /\ phase' = phase /\ phase[addressing] = "AddressingDevice"
            /\ addr' = [addr EXCEPT ![addressing] = s]
            /\ \A t \in 0 .. NumSlots : dev[t].port # addressing
<1>1. CASE ~ExecAddressDevice
  BY <1>1, DevicePorts DEF QInv
<1>2. CASE ExecAddressDevice /\ dev'[s].port # dev[s].port
  <2>0. PICK c : c = Head(cmds)
    OBVIOUS
  <2>1. /\ c \in Items(cmds) /\ c.kind = "AddressDevice" /\ c.slot \in Slots
        /\ UNCHANGED phase
        /\ addr' = [addr EXCEPT ![c.port] = c.slot]
        /\ dev' = [dev EXCEPT ![c.slot] = [dev[c.slot] EXCEPT !.port = c.port]]
    BY <1>2, <2>0, ExecAddress, QueueTypes, ItemsOfTail
       DEF QInv, IInv, ExecAddressDevice, Slots
  <2>2. slot[c.slot] = "Enabled" /\ slot' = [slot EXCEPT ![c.slot] = "Addressed"]
    BY <1>2, <2>0, <2>1 DEF ExecAddressDevice, Works
  <2>3. /\ phase[addressing] = "AddressingDevice" /\ c.port = addressing
        /\ \A t \in 0 .. NumSlots : dev[t].port # addressing
    BY <2>1 DEF QInv, QueueInv, CommandInv
  <2>4. addressing \in Ports
    BY <2>3, QueueTypes DEF QInv, Ports
  <2>5. s = c.slot /\ dev'[s].port = c.port /\ slot'[s] = "Addressed"
    BY <1>2, <2>1, <2>2, QueueTypes DEF QInv, IInv, TypeOK, Devices
  <2>6. dev[s].port = 0
    BY <2>2, <2>5 DEF QInv, QueueInv, ContextInv
  <2> QED
    BY <1>2, <2>0, <2>1, <2>2, <2>3, <2>4, <2>5, <2>6
<1> QED
  BY <1>1, <1>2

LEMMA PortStays ==
  ASSUME QInv, [Next]_vars, NEW s \in 0 .. NumSlots, dev[s].port # 0
  PROVE  dev'[s].port = dev[s].port
BY PortSource

(* What a handler takes an event for, the queues have promised.            *)
LEMMA FrontSlot ==
  ASSUME QInv, HasEvent, Front.type = "Command" \/ Front.type = "Transfer"
  PROVE  /\ Front \in Items(events) /\ Front \in Events /\ Front.slot \in 0 .. NumSlots
         /\ dev[Front.slot].port # 0 => Front.slot \in Slots /\ dev[Front.slot].port \in Ports
<1>1. Front \in Items(events) /\ Front \in Events
  BY QueueTypes, ItemsOfTail DEF QInv, HasEvent, Front
<1>2. Front.slot \in 0 .. NumSlots
  BY <1>1, QueueTypes DEF QInv
<1>3. dev[Front.slot].port \in 0 .. NumPorts
  BY <1>2, QueueTypes DEF QInv
<1>4. dev[Front.slot].port # 0 => Front.slot # 0
  BY <1>2 DEF QInv, QueueInv, ContextInv
<1> QED
  BY <1>1, <1>2, <1>3, <1>4 DEF Ports, Slots

(* A port comes past its address with the device that is started ...       *)
LEMMA StartSource ==
  ASSUME QInv, [Next]_vars, NEW p \in Ports, phase'[p] = "InitializingDevice"
  PROVE  \/ phase[p] = "InitializingDevice"
         \/ \E s \in Slots : dev[s].port = p /\ dev'[s] = Started(dev[s])
<1>0. /\ phase \in [0 .. NumPorts -> Phases] /\ dev \in [0 .. NumSlots -> Devices]
      /\ Ports \subseteq 0 .. NumPorts /\ Slots \subseteq 0 .. NumSlots
      /\ phase[0] = "NotConnected"
  BY QueueTypes DEF QInv
<1> SUFFICES ASSUME phase[p] # "InitializingDevice"
             PROVE  \E s \in Slots : dev[s].port = p /\ dev'[s] = Started(dev[s])
  OBVIOUS
<1>1. CASE FinishReset
  <2>1. PICK s : s = after.slot
    OBVIOUS
  <2>2. /\ after.to = "Init" /\ HandingOver /\ p = after.port
        /\ dev' = [dev EXCEPT ![s] = Started(dev[s])]
    BY <1>0, <1>1, <2>1 DEF FinishReset, HandingOver, Resetting
  <2>3. dev[s].port = p /\ s \in 0 .. NumSlots
    BY <2>1, <2>2 DEF QInv, QueueInv, HandOverInv, IInv, TypeOK, Continuations
  <2>4. s \in Slots
    BY <2>3 DEF QInv, QueueInv, ContextInv, Ports, Slots
  <2> QED
    BY <1>0, <2>2, <2>3, <2>4
<1>2. CASE OnAddressDevice
  <2>1. PICK s : s = Front.slot
    OBVIOUS
  <2>2. /\ dev[s].port = p
        /\ dev' = [dev EXCEPT ![s] = Started(dev[s])]
    BY <1>0, <1>2, <2>1 DEF OnAddressDevice, BeginReset
  <2>3. s \in Slots
    BY <1>2, <2>1, <2>2, FrontSlot DEF OnAddressDevice, Ports
  <2> QED
    BY <1>0, <2>2, <2>3
<1>3. CASE BootPort
  BY <1>0, <1>3 DEF BootPort, BeginReset, Queue
<1>4. CASE OnPortStatusChange
  BY <1>0, <1>4 DEF OnPortStatusChange, OnPlugged, OnPortReset, BeginReset, Queue, Ignore,
     driverVars
<1>5. CASE OnEnableSlot
  BY <1>0, <1>5 DEF OnEnableSlot, Ignore, driverVars
<1>6. CASE OnConfigureEndpoint
  BY <1>0, <1>6 DEF OnConfigureEndpoint, Ignore, driverVars
<1>7. CASE OnTransfer
  BY <1>0, <1>7 DEF OnTransfer, ConfigureEndpoints, Ignore, driverVars
<1>8. CASE WriteReset \/ ExecCommand \/ UNCHANGED vars
  BY <1>8 DEF WriteReset, ExecCommand, ExecEnableSlot, ExecAddressDevice,
     ExecConfigureEndpoint, FailCommand, driverVars, vars
<1>9. ASSUME NEW q \in Ports, PlugIn(q) \/ PullOut(q) \/ ResetDone(q) PROVE phase' = phase
  BY <1>9 DEF PlugIn, PullOut, ResetDone, driverVars
<1>10. ASSUME NEW t \in Slots, NEW k \in Transfers, CompleteTransfer(t, k)
       PROVE  phase' = phase
  BY <1>10 DEF CompleteTransfer
<1> QED
  BY <1>1, <1>2, <1>3, <1>4, <1>5, <1>6, <1>7, <1>8, <1>9, <1>10 DEF Next, Driver

(* ... has its endpoints configured by the handler of its last transfer    *)
(* and is configured by the handler of the command's completion.           *)
LEMMA LateSource ==
  ASSUME QInv, [Next]_vars, NEW p \in Ports,
         phase'[p] # phase[p], phase'[p] \in {"ConfiguringEndpoints", "Configured"}
  PROVE  /\ Front.slot \in Slots /\ dev[Front.slot].port = p
         /\ \/ /\ OnTransfer /\ phase[p] = "InitializingDevice"
               /\ phase'[p] = "ConfiguringEndpoints"
            \/ /\ OnConfigureEndpoint /\ phase[p] = "ConfiguringEndpoints"
               /\ phase'[p] = "Configured"
<1>0. /\ phase \in [0 .. NumPorts -> Phases] /\ dev \in [0 .. NumSlots -> Devices]
      /\ Ports \subseteq 0 .. NumPorts /\ Slots \subseteq 0 .. NumSlots
      /\ phase[0] = "NotConnected" /\ 0 \notin Ports
  BY QueueTypes DEF QInv, Ports
<1>1. CASE FinishReset
  BY <1>0, <1>1 DEF FinishReset
<1>2. CASE OnAddressDevice
  BY <1>0, <1>2 DEF OnAddressDevice, BeginReset
<1>3. CASE BootPort
  BY <1>0, <1>3 DEF BootPort, BeginReset, Queue
<1>4. CASE OnPortStatusChange
  BY <1>0, <1>4 DEF OnPortStatusChange, OnPlugged, OnPortReset, BeginReset, Queue, Ignore,
     driverVars
<1>5. CASE OnEnableSlot
  BY <1>0, <1>5 DEF OnEnableSlot, Ignore, driverVars
<1>6. CASE OnConfigureEndpoint
  <2>1. /\ dev[Front.slot].port = p /\ phase[p] = "ConfiguringEndpoints"
        /\ phase' = [phase EXCEPT ![p] = "Configured"]
    BY <1>0, <1>6 DEF OnConfigureEndpoint, Ignore, driverVars
  <2>2. Front.slot \in Slots
    BY <1>0, <1>6, <2>1, FrontSlot DEF OnConfigureEndpoint
  <2> QED
    BY <1>0, <1>6, <2>1, <2>2
<1>7. CASE OnTransfer
  <2>1. PICK d : d = Reaction(dev[Front.slot], Front.of)
    OBVIOUS
  <2>2. /\ Front.slot \in 0 .. NumSlots /\ dev[Front.slot] \in Devices
        /\ dev[Front.slot].port # 0 => Front.slot \in Slots
    BY <1>0, <1>7, FrontSlot DEF OnTransfer
  <2>3. d.port = dev[Front.slot].port
    BY <2>1, <2>2, ReactionType
  <2>4. NeedsEndpoints(d) /\ phase' = [phase EXCEPT ![d.port] = "ConfiguringEndpoints"]
    BY <1>7, <2>1 DEF OnTransfer, ConfigureEndpoints, Ignore, driverVars
  <2>5. p = d.port /\ phase[p] = "InitializingDevice"
    BY <1>0, <2>4 DEF NeedsEndpoints
  <2> QED
    BY <1>0, <1>7, <2>2, <2>3, <2>4, <2>5
<1>8. CASE WriteReset \/ ExecCommand \/ UNCHANGED vars
  BY <1>8 DEF WriteReset, ExecCommand, ExecEnableSlot, ExecAddressDevice,
     ExecConfigureEndpoint, FailCommand, driverVars, vars
<1>9. ASSUME NEW q \in Ports, PlugIn(q) \/ PullOut(q) \/ ResetDone(q) PROVE phase' = phase
  BY <1>9 DEF PlugIn, PullOut, ResetDone, driverVars
<1>10. ASSUME NEW t \in Slots, NEW k \in Transfers, CompleteTransfer(t, k)
       PROVE  phase' = phase
  BY <1>10 DEF CompleteTransfer
<1> QED
  BY <1>1, <1>2, <1>3, <1>4, <1>5, <1>6, <1>7, <1>8, <1>9, <1>10 DEF Next, Driver

(* The address of a port is the one its output context has, and a slot has *)
(* endpoints from the ConfigureEndpoint command on.                        *)
SlotReal(s) ==
  /\ addr[dev[s].port] = s
  /\ slot[s] = "Configured" => phase[dev[s].port] \in {"ConfiguringEndpoints", "Configured"}
  /\ phase[dev[s].port] = "Configured" => slot[s] = "Configured"

ContextOfPort == \A p \in Ports : phase[p] \in Past => \E s \in Slots : dev[s].port = p

EndpointsReal ==
  /\ \A c \in Items(cmds) : c.kind = "ConfigureEndpoint" => slot[c.slot] = "Addressed"
  /\ \A e \in Items(events) :
       e.type = "Command" /\ e.of = "ConfigureEndpoint" => slot[e.slot] = "Configured"

RealInv ==
  ContextOfPort /\ EndpointsReal /\ \A s \in Slots : dev[s].port # 0 => SlotReal(s)

LEMMA ContextOfPortStep ==
  ASSUME QInv, RealInv, [Next]_vars
  PROVE  ContextOfPort'
<1> SUFFICES ASSUME NEW p \in Ports, phase'[p] \in Past
             PROVE  \E s \in Slots : dev'[s].port = p
  BY DEF ContextOfPort
<1>0. p # 0 /\ p \in 0 .. NumPorts /\ Slots \subseteq 0 .. NumSlots
  BY QueueTypes DEF QInv, Ports
<1>1. \E s \in Slots : dev[s].port = p
  <2>1. CASE phase[p] \in Past
    BY <2>1 DEF RealInv, ContextOfPort
  <2>2. CASE phase[p] \notin Past
    <3>1. phase'[p] = "InitializingDevice" /\ phase[p] # "InitializingDevice"
      BY <1>0, <2>2, PhaseStep DEF QInv, Past, Successor
    <3> QED
      BY <3>1, StartSource
  <2> QED
    BY <2>1, <2>2
<1> QED
  BY <1>0, <1>1, PortStays

(* A ConfigureEndpoint is rung in for a slot that is only addressed and is *)
(* the only one for it, so it does not fail.                               *)
LEMMA ConfigureWorks ==
  ASSUME Undisturbed, QInv, RealInv, FailCommand
  PROVE  Head(cmds).kind # "ConfigureEndpoint"
<1> SUFFICES ASSUME Head(cmds).kind = "ConfigureEndpoint" PROVE FALSE
  OBVIOUS
<1>0. PICK c : c = Head(cmds)
  OBVIOUS
<1>1. c \in Items(cmds) /\ c \in CommandTRBs /\ ~Works(c) /\ c.kind = "ConfigureEndpoint"
  BY <1>0, QueueTypes, ItemsOfTail, Quiet DEF QInv, FailCommand
<1>2. slot[c.slot] = "Addressed"
  BY <1>1 DEF RealInv, EndpointsReal
<1>3. dev[c.slot].port # 0 /\ c.slot \in 0 .. NumSlots
  BY <1>1 DEF QInv, QueueInv, CommandInv, InPhase, CommandTRBs
<1>4. c.slot # 0
  BY <1>3 DEF QInv, QueueInv, ContextInv
<1> QED
  BY <1>1, <1>2, <1>4 DEF Works

LEMMA EndpointsRealStep ==
  ASSUME Undisturbed, QInv, RealInv, [Next]_vars
  PROVE  EndpointsReal'
<1>0. /\ cmds \in Seq(CommandTRBs) /\ events \in Seq(Events) /\ Distinct(cmds, events)
      /\ Items(cmds) \subseteq CommandTRBs /\ Items(events) \subseteq Events
      /\ \A e \in Events : e.slot \in 0 .. NumSlots
  BY QueueTypes DEF QInv, QueueInv
<1>1. ASSUME NEW c \in Items(cmds), c.kind = "ConfigureEndpoint"
      PROVE  c.slot \in Slots /\ slot[c.slot] = "Addressed"
  <2>1. c.slot \in 0 .. NumSlots /\ dev[c.slot].port # 0
    BY <1>0, <1>1 DEF CommandTRBs, QInv, QueueInv, CommandInv, InPhase
  <2>2. c.slot # 0
    BY <2>1 DEF QInv, QueueInv, ContextInv
  <2> QED
    BY <1>1, <2>1, <2>2 DEF RealInv, EndpointsReal, Slots
<1>2. ASSUME NEW c \in Items(cmds'), c.kind = "ConfigureEndpoint"
      PROVE  slot'[c.slot] = "Addressed"
  <2>1. CASE c \in Items(cmds)
    <3>1. c.slot \in Slots /\ slot[c.slot] = "Addressed"
      BY <1>1, <1>2, <2>1
    <3>2. ~(ExecConfigureEndpoint /\ c.slot = Head(cmds).slot)
      <4> SUFFICES ASSUME ExecConfigureEndpoint, c.slot = Head(cmds).slot PROVE FALSE
        OBVIOUS
      <4>1. cmds # <<>> /\ Head(cmds).kind = "ConfigureEndpoint" /\ cmds' = Tail(cmds)
        BY DEF ExecConfigureEndpoint, Complete
      <4>2. CommandKey(c.kind, c.slot) # CommandKey(Head(cmds).kind, Head(cmds).slot)
        BY <1>0, <4>1, DistinctExec
      <4> QED
        BY <1>2, <4>1, <4>2
    <3> QED
      BY <3>1, <3>2, SlotSource
  <2>2. CASE c \notin Items(cmds)
    <3>1. /\ OnTransfer /\ NeedsEndpoints(Reaction(dev[Front.slot], Front.of))
          /\ c.slot = Front.slot
      BY <1>2, <2>2, CommandSource
    <3>2. /\ Front.slot \in 0 .. NumSlots /\ dev[Front.slot] \in Devices
          /\ dev[Front.slot].port # 0 => Front.slot \in Slots
      BY <3>1, FrontSlot, QueueTypes DEF OnTransfer, QInv
    <3>3. phase[dev[Front.slot].port] = "InitializingDevice"
      BY <3>1, <3>2, ReactionType DEF NeedsEndpoints
    <3>4. dev[Front.slot].port # 0
      BY <3>3, QueueTypes DEF QInv
    <3>5. slot[Front.slot] = "Addressed"
      BY <3>2, <3>3, <3>4 DEF RealInv, SlotReal, QInv, QueueInv, ContextInv
    <3>6. slot' = slot
      BY <3>1 DEF OnTransfer, Ignore
    <3> QED
      BY <3>1, <3>5, <3>6
  <2> QED
    BY <2>1, <2>2
<1>3. ASSUME NEW e \in Items(events'), e.type = "Command", e.of = "ConfigureEndpoint"
      PROVE  slot'[e.slot] = "Configured"
  <2>1. CASE e \in Items(events)
    <3>1. slot[e.slot] = "Configured"
      BY <1>3, <2>1 DEF RealInv, EndpointsReal
    <3>2. e.slot \in 0 .. NumSlots /\ dev[e.slot].port # 0
      BY <1>0, <1>3, <2>1 DEF QInv, QueueInv, EventInv, InPhase
    <3>3. e.slot \in Slots
      BY <3>2 DEF QInv, QueueInv, ContextInv, Slots
    <3> QED
      BY <3>1, <3>3, SlotSource
  <2>2. CASE e \notin Items(events)
    <3>1. ASSUME NEW s, NEW ok, e = CommandEvent("EnableSlot", s, ok) PROVE FALSE
      BY <1>3, <3>1 DEF CommandEvent
    <3>2. ASSUME NEW s, NEW ok, e = CommandEvent("AddressDevice", s, ok) PROVE FALSE
      BY <1>3, <3>2 DEF CommandEvent
    <3>3. ASSUME NEW t, NEW s, NEW ok, e = TransferEvent(t, s, ok) PROVE FALSE
      BY <1>3, <3>3 DEF TransferEvent
    <3>4. ASSUME FailCommand, e = CommandEvent(Head(cmds).kind, Head(cmds).slot, FALSE) PROVE FALSE
      BY <1>3, <3>4, ConfigureWorks DEF CommandEvent
    <3>5. /\ ExecConfigureEndpoint
          /\ e = CommandEvent("ConfigureEndpoint", Head(cmds).slot, TRUE)
      BY <1>3, <2>2, <3>1, <3>2, <3>3, <3>4, EventSource
    <3>6. e.slot = Head(cmds).slot
      BY <3>5 DEF CommandEvent
    <3>7. Head(cmds) \in Items(cmds) /\ Head(cmds).kind = "ConfigureEndpoint"
      BY <1>0, <3>5, ItemsOfTail DEF ExecConfigureEndpoint
    <3>8. Head(cmds).slot \in Slots
      BY <1>1, <3>7
    <3> QED
      BY <3>5, <3>6, <3>8 DEF ExecConfigureEndpoint, QInv, IInv, TypeOK
  <2> QED
    BY <2>1, <2>2
<1> QED
  BY <1>2, <1>3 DEF EndpointsReal

(* While nothing is pulled out, an address is not lost.                    *)
LEMMA AddressStays ==
  ASSUME Undisturbed, QInv, [Next]_vars, ~ExecAddressDevice,
         NEW s \in Slots, dev[s].port # 0
  PROVE  addr'[dev[s].port] = addr[dev[s].port]
<1>0. /\ addr \in [Ports -> 0 .. NumSlots] /\ s \in 0 .. NumSlots /\ dev[s].port \in 0 .. NumPorts
  BY QueueTypes DEF QInv, IInv, TypeOK
<1>1. CASE WriteReset
  <2>1. phase[addressing] = "ResettingPort"
    BY <1>1 DEF WriteReset, QInv, IInv, ControlInv, ResetInv, Resetting
  <2>2. dev[s].port # addressing
    BY <1>0, <2>1 DEF QInv, IInv, DefaultAddressInv, OutputContexts, Early
  <2> QED
    BY <1>0, <1>1, <2>2 DEF WriteReset
<1>2. CASE Driver /\ ~WriteReset
  BY <1>2 DEF Driver, BootPort, FinishReset, OnPortStatusChange, OnPlugged, OnPortReset,
     OnEnableSlot, OnAddressDevice, OnConfigureEndpoint, OnTransfer, Ignore, hwVars
<1>3. CASE ExecCommand \/ UNCHANGED vars
  BY <1>3 DEF ExecCommand, ExecEnableSlot, ExecConfigureEndpoint, FailCommand, vars, hwVars
<1>4. ASSUME NEW q \in Ports, PlugIn(q) \/ PullOut(q) \/ ResetDone(q) PROVE addr' = addr
  BY <1>4, Quiet DEF PlugIn, ResetDone
<1>5. ASSUME NEW t \in Slots, NEW k \in Transfers, CompleteTransfer(t, k)
      PROVE  addr' = addr
  BY <1>5 DEF CompleteTransfer
<1> QED
  BY <1>1, <1>2, <1>3, <1>4, <1>5 DEF Next

LEMMA SlotRealStep ==
  ASSUME Undisturbed, QInv, RealInv, [Next]_vars, NEW s \in Slots, dev'[s].port # 0
  PROVE  SlotReal(s)'
<1>0. /\ s \in 0 .. NumSlots /\ addr \in [Ports -> 0 .. NumSlots] /\ Slots \subseteq 0 .. NumSlots
      /\ dev[s].port \in 0 .. NumPorts
  BY QueueTypes DEF QInv, IInv, TypeOK
<1>1. CASE dev'[s].port # dev[s].port
  <2>1. /\ dev'[s].port = addressing /\ addressing \in Ports
        /\ addr' = [addr EXCEPT ![addressing] = s]
        /\ slot'[s] = "Addressed" /\ phase'[addressing] = "AddressingDevice"
    BY <1>0, <1>1, PortSource
  <2> QED
    BY <1>0, <2>1 DEF SlotReal
<1>2. CASE dev'[s].port = dev[s].port
  <2>0. PICK p : p = dev[s].port
    OBVIOUS
  <2>1. p \in Ports /\ p \in 0 .. NumPorts /\ SlotReal(s)
    BY <1>0, <1>2, <2>0 DEF Ports, RealInv
  <2>2. addr'[p] = s
    <3>1. CASE ExecAddressDevice
      <4>1. Head(cmds) \in Items(cmds) /\ Head(cmds).kind = "AddressDevice"
        BY <3>1, QueueTypes, ItemsOfTail DEF QInv, ExecAddressDevice
      <4>2. p # Head(cmds).port
        BY <1>0, <2>0, <4>1 DEF QInv, QueueInv, CommandInv
      <4> QED
        BY <1>0, <2>0, <2>1, <3>1, <4>2 DEF ExecAddressDevice, SlotReal
    <3>2. CASE ~ExecAddressDevice
      BY <1>2, <2>0, <2>1, <3>2, AddressStays DEF SlotReal
    <3> QED
      BY <3>1, <3>2
  <2>3. ASSUME slot'[s] = "Configured"
        PROVE  phase'[p] \in {"ConfiguringEndpoints", "Configured"}
    <3>1. phase[p] \in {"ConfiguringEndpoints", "Configured"}
      <4>1. CASE slot[s] = "Configured"
        BY <2>0, <2>1, <4>1 DEF SlotReal
      <4>2. CASE slot[s] # "Configured"
        <5>1. ExecConfigureEndpoint /\ s = Head(cmds).slot
          BY <2>3, <4>2, SlotSource
        <5>2. Head(cmds) \in Items(cmds) /\ Head(cmds).kind = "ConfigureEndpoint"
          BY <5>1, QueueTypes, ItemsOfTail DEF QInv, ExecConfigureEndpoint
        <5> QED
          BY <2>0, <5>1, <5>2 DEF QInv, QueueInv, CommandInv, InPhase
      <4> QED
        BY <4>1, <4>2
    <3> QED
      BY <2>1, <3>1, PhaseStep DEF QInv, Successor
  <2>4. ASSUME phase'[p] = "Configured"
        PROVE  slot'[s] = "Configured"
    <3>1. slot[s] = "Configured"
      <4>1. CASE phase[p] = "Configured"
        BY <2>0, <2>1, <4>1 DEF SlotReal
      <4>2. CASE phase[p] # "Configured"
        <5>1. OnConfigureEndpoint /\ Front.slot \in Slots /\ dev[Front.slot].port = p
          <6>1. phase'[p] # phase[p]
            BY <2>4, <4>2
          <6>2. \/ phase'[p] = "ConfiguringEndpoints"
                \/ OnConfigureEndpoint /\ Front.slot \in Slots /\ dev[Front.slot].port = p
            BY <2>1, <2>4, <6>1, LateSource
          <6> QED
            BY <2>4, <6>2
        <5>2. Front.slot = s
          <6>1. Front.slot \in 0 .. NumSlots /\ dev[Front.slot].port = dev[s].port
            BY <1>0, <2>0, <5>1
          <6>2. dev[s].port # 0
            BY <1>2
          <6> QED
            BY <1>0, <6>1, <6>2, Zenon DEF QInv, QueueInv, ContextInv
        <5>3. Front \in Items(events)
          BY <5>1, FrontSlot DEF OnConfigureEndpoint
        <5> QED
          BY <5>1, <5>2, <5>3 DEF RealInv, EndpointsReal, OnConfigureEndpoint
      <4> QED
        BY <4>1, <4>2
    <3> QED
      BY <3>1, SlotSource
  <2> QED
    BY <1>2, <2>0, <2>2, <2>3, <2>4 DEF SlotReal
<1> QED
  BY <1>1, <1>2

LEMMA RealStep ==
  ASSUME Undisturbed, QInv, RealInv, [Next]_vars
  PROVE  RealInv'
<1>1. \A s \in Slots : dev'[s].port # 0 => SlotReal(s)'
  BY SlotRealStep
<1> QED
  BY <1>1, ContextOfPortStep, EndpointsRealStep DEF RealInv

LEMMA RealInit == Init => RealInv
<1> SUFFICES ASSUME Init PROVE RealInv
  OBVIOUS
<1>1. Len(cmds) = 0 /\ Len(events) = 0
  BY DEF Init
<1>2. Items(cmds) = {} /\ Items(events) = {}
  BY <1>1 DEF Items
<1>3. \A s \in Slots : dev[s].port = 0
  BY PortConfigAssumption DEF Init, NoDevice, Slots
<1>4. \A p \in Ports : phase[p] = "NotConnected"
  BY PortConfigAssumption DEF Init, Ports
<1> QED
  BY <1>2, <1>3, <1>4 DEF RealInv, ContextOfPort, EndpointsReal, Past

(* As long as nothing is pulled out and nothing fails, a port the driver   *)
(* calls configured has a device with an address and a slot with endpoints *)
(* - although no handler looks at a completion code.                       *)
THEOREM Configured ==
  ASSUME MaxUnplugs = 0, MaxFaults = 0
  PROVE  Spec => []ConfiguredForReal
<1>0. Undisturbed
  BY DEF Undisturbed
<1>1. Init => QInv /\ RealInv
  BY InitType, InitControl, InitDefault, QueueInit, RealInit DEF QInv, IInv
<1>2. QInv /\ RealInv /\ [Next]_vars => (QInv /\ RealInv)'
  BY <1>0, QueueStep, RealStep
<1>3. QInv /\ RealInv => ConfiguredForReal
  <2> SUFFICES ASSUME QInv, RealInv, NEW p \in Ports, phase[p] = "Configured"
               PROVE  \E s \in Slots : dev[s].port = p /\ addr[p] = s /\ slot[s] = "Configured"
    BY DEF ConfiguredForReal
  <2>1. PICK s \in Slots : dev[s].port = p
    BY DEF RealInv, ContextOfPort, Past
  <2>2. p # 0
    BY DEF Ports
  <2> QED
    BY <2>1, <2>2 DEF RealInv, SlotReal
<1> QED
  BY <1>1, <1>2, <1>3, PTL DEF Spec

-----------------------------------------------------------------------------
(* The status bits of a port, its events and the loops of the driver *)

(* The events behind the one a handler in the middle of a reset is about.  *)
Later == IF after.to = "Boot" THEN events ELSE Tail(events)

BitsInv ==
  \A p \in Ports :
    /\ portsc[p].ccs = FALSE => phase[p] = "NotConnected" /\ portsc[p].csc = FALSE
    /\ phase[p] \notin Untouched => portsc[p].ped
    /\ phase[p] \in {"NotConnected", "WaitingAddressed"} \/ (p = addressing /\ pc = "Reset") =>
         portsc[p].prc = FALSE

SpinInv ==
  pc = "Spin" =>
    IF portsc[addressing].pr
      THEN portsc[addressing].csc = FALSE /\ portsc[addressing].prc = FALSE
      ELSE /\ portsc[addressing].ped /\ portsc[addressing].prc
           /\ PortEvent(addressing) \in Items(Later)

(* A port in reset, or connected and not seen yet, has its event.          *)
ResetReported(p) ==
  phase[p] = "ResettingPort" /\ ~Resetting =>
    portsc[p].ped /\ portsc[p].prc /\ PortEvent(p) \in Items(events)

ConnectReported(p) ==
  phase[p] = "NotConnected" /\ portsc[p].ccs =>
    PortEvent(p) \in Items(events) \/ (pc # "Loop" /\ bootPort <= p)

LoopInv ==
  /\ pc = "Loop" \/ (Resetting /\ after.to # "Boot") => bootPort = NumPorts + 1
  /\ Resetting /\ after.to = "Boot" => bootPort = addressing
  /\ Resetting /\ after.to = "Loop" =>
       Head(events).type = "Port" /\ Head(events).port = addressing
  /\ addressing = 0 => WaitingPorts = {}

PortsInv ==
  BitsInv /\ SpinInv /\ LoopInv /\ \A p \in Ports : ResetReported(p) /\ ConnectReported(p)

(* What a step does to the status bits of a port that stays connected.     *)
LEMMA StatusSource ==
  ASSUME Undisturbed, QInv, [Next]_vars, NEW p \in Ports
  PROVE  \/ portsc'[p] = portsc[p]
         \/ /\ WriteReset /\ p = addressing
            /\ portsc'[p].ccs = portsc[p].ccs /\ portsc'[p].prc = portsc[p].prc
            /\ portsc'[p].csc = FALSE /\ portsc'[p].pr = portsc[p].ccs
         \/ /\ OnPortStatusChange /\ Front.port = p /\ OnPortReset(p)
            /\ portsc'[p].ccs = portsc[p].ccs /\ portsc'[p].csc = portsc[p].csc
            /\ portsc'[p].ped = portsc[p].ped
         \/ /\ PlugIn(p) /\ portsc[p].ccs = FALSE
            /\ portsc'[p].ccs = TRUE /\ portsc'[p].prc = portsc[p].prc
         \/ /\ ResetDone(p) /\ portsc[p].pr /\ portsc'[p].pr = FALSE
            /\ portsc'[p].ped /\ portsc'[p].prc
            /\ portsc'[p].ccs = portsc[p].ccs /\ portsc'[p].csc = portsc[p].csc
<1>0. portsc \in [Ports -> PortStatus] /\ portsc[p] \in PortStatus
  BY DEF QInv, IInv, TypeOK
<1>1. CASE WriteReset
  <2>1. PICK d : d = [portsc[p] EXCEPT !.csc = FALSE, !.pr = portsc[p].ccs, !.ped = FALSE]
    OBVIOUS
  <2>2. /\ d.ccs = portsc[p].ccs /\ d.prc = portsc[p].prc
        /\ d.csc = FALSE /\ d.pr = portsc[p].ccs
    BY <1>0, <2>1 DEF PortStatus
  <2>3. p = addressing => portsc'[p] = d
    BY <1>0, <1>1, <2>1 DEF WriteReset
  <2>4. p # addressing => portsc'[p] = portsc[p]
    BY <1>0, <1>1 DEF WriteReset
  <2> QED
    BY <1>1, <2>2, <2>3, <2>4
<1>2. CASE OnPortStatusChange
  <2>1. PICK d : d = [portsc[p] EXCEPT !.prc = FALSE]
    OBVIOUS
  <2>2. d.ccs = portsc[p].ccs /\ d.csc = portsc[p].csc /\ d.ped = portsc[p].ped
    BY <1>0, <2>1 DEF PortStatus
  <2>3. \/ portsc' = portsc
        \/ /\ OnPortReset(Front.port)
           /\ portsc' = [portsc EXCEPT ![Front.port] = [portsc[Front.port] EXCEPT !.prc = FALSE]]
    BY <1>2 DEF OnPortStatusChange, OnPlugged, OnPortReset, Ignore
  <2>4. CASE OnPortReset(Front.port) /\ p = Front.port
    BY <1>0, <1>2, <2>1, <2>2, <2>3, <2>4 DEF OnPortReset
  <2>5. CASE ~(OnPortReset(Front.port) /\ p = Front.port)
    BY <1>0, <2>3, <2>5
  <2> QED
    BY <2>4, <2>5
<1>3. CASE Driver /\ ~WriteReset /\ ~OnPortStatusChange
  BY <1>3 DEF Driver, BootPort, FinishReset, OnEnableSlot, OnAddressDevice, OnConfigureEndpoint,
     OnTransfer, Ignore, hwVars
<1>4. CASE ExecCommand \/ UNCHANGED vars
  BY <1>4 DEF ExecCommand, ExecEnableSlot, ExecAddressDevice, ExecConfigureEndpoint, FailCommand,
     vars, hwVars
<1>5. ASSUME NEW q \in Ports, PlugIn(q), portsc'[p] # portsc[p]
      PROVE  /\ PlugIn(p) /\ portsc[p].ccs = FALSE
             /\ portsc'[p].ccs = TRUE /\ portsc'[p].prc = portsc[p].prc
  <2>1. q = p
    BY <1>0, <1>5 DEF PlugIn
  <2>2. PICK d : d = [portsc[p] EXCEPT !.ccs = TRUE, !.csc = TRUE, !.ped = p \in SuperSpeedPorts]
    OBVIOUS
  <2>3. d.ccs = TRUE /\ d.prc = portsc[p].prc
    BY <1>0, <2>2 DEF PortStatus
  <2>4. portsc'[p] = d
    BY <1>0, <1>5, <2>1, <2>2 DEF PlugIn
  <2>5. portsc[p].ccs = FALSE
    BY <1>0, <1>5, <2>1 DEF PlugIn, PortStatus
  <2> QED
    BY <1>5, <2>1, <2>3, <2>4, <2>5
<1>6. ASSUME NEW q \in Ports, ResetDone(q), portsc'[p] # portsc[p]
      PROVE  /\ ResetDone(p) /\ portsc[p].pr /\ portsc'[p].pr = FALSE
             /\ portsc'[p].ped /\ portsc'[p].prc
             /\ portsc'[p].ccs = portsc[p].ccs /\ portsc'[p].csc = portsc[p].csc
  <2>1. q = p
    BY <1>0, <1>6 DEF ResetDone
  <2>2. PICK d : d = [portsc[p] EXCEPT !.pr = FALSE, !.ped = TRUE, !.prc = TRUE]
    OBVIOUS
  <2>3. d.pr = FALSE /\ d.ped /\ d.prc /\ d.ccs = portsc[p].ccs /\ d.csc = portsc[p].csc
    BY <1>0, <2>2 DEF PortStatus
  <2>4. portsc'[p] = d
    BY <1>0, <1>6, <2>1, <2>2 DEF ResetDone
  <2> QED
    BY <1>6, <2>1, <2>3, <2>4 DEF ResetDone
<1>7. \A q \in Ports : ~PullOut(q)
  BY Quiet
<1>8. ASSUME NEW t \in Slots, NEW k \in Transfers, CompleteTransfer(t, k)
      PROVE  portsc' = portsc
  BY <1>8 DEF CompleteTransfer
<1> QED
  BY <1>1, <1>2, <1>3, <1>4, <1>5, <1>6, <1>7, <1>8 DEF Next

(* An event stays until it is handled.                                     *)
LEMMA EventStays ==
  ASSUME QInv, [Next]_vars, NEW e \in Items(events)
  PROVE  \/ e \in Items(events')
         \/ /\ events # <<>> /\ events' = Tail(events) /\ e = Front
            /\ (HasEvent /\ Driver) \/ (FinishReset /\ after.to # "Boot")
<1>0. events \in Seq(Events)
  BY QueueTypes DEF QInv
<1>1. ASSUME events # <<>>, events' = Tail(events) PROVE e \in Items(events') \/ e = Front
  BY <1>0, <1>1, ItemsOfHead DEF Front
<1>2. ASSUME NEW x \in Events, events' = Append(events, x) PROVE e \in Items(events')
  BY <1>0, <1>2, ItemsOfAppend
<1>3. CASE FinishReset
  BY <1>1, <1>3 DEF FinishReset, Pop, QInv, IInv, ControlInv, ResetInv, Resetting
<1>4. CASE OnPortStatusChange \/ OnEnableSlot \/ OnAddressDevice \/ OnConfigureEndpoint \/ OnTransfer
  <2>1. HasEvent /\ events # <<>> /\ Driver
    BY <1>4 DEF OnPortStatusChange, OnEnableSlot, OnAddressDevice, OnConfigureEndpoint, OnTransfer,
       HasEvent, Driver
  <2>2. events' = events \/ events' = Tail(events)
    BY <1>4 DEF OnPortStatusChange, OnPlugged, OnPortReset, OnEnableSlot, OnAddressDevice,
       OnConfigureEndpoint, OnTransfer, Ignore, Pop
  <2> QED
    BY <1>1, <2>1, <2>2
<1>5. CASE BootPort \/ WriteReset \/ UNCHANGED vars
  BY <1>5 DEF BootPort, WriteReset, hwVars, vars
<1>6. ASSUME NEW q \in Ports, PlugIn(q) \/ PullOut(q) \/ ResetDone(q) PROVE e \in Items(events')
  <2>1. \E bit : Report(q, bit)
    BY <1>6 DEF PlugIn, PullOut, ResetDone
  <2>2. events' = events \/ events' = Append(events, PortEvent(q))
    BY <2>1 DEF Report
  <2> QED
    BY <1>2, <2>2, PortEventType
<1>7. CASE ExecCommand
  <2>1. PICK s \in 0 .. NumSlots, ok \in BOOLEAN : cmds # <<>> /\ Complete(s, ok)
    <3>1. cmds # <<>> => Head(cmds).slot \in 0 .. NumSlots
      BY CommandType DEF QInv, IInv, CommandTRBs
    <3> QED
      BY <1>7, <3>1, QueueTypes DEF QInv, ExecCommand, ExecEnableSlot, ExecAddressDevice,
         ExecConfigureEndpoint, FailCommand
  <2>2. Head(cmds).kind \in Commands
    BY <2>1, CommandType DEF QInv, IInv, CommandTRBs
  <2>3. CommandEvent(Head(cmds).kind, s, ok) \in Events
    BY <2>2, CommandEventType
  <2> QED
    BY <1>2, <2>1, <2>3 DEF Complete
<1>8. ASSUME NEW t \in Slots, NEW k \in Transfers, CompleteTransfer(t, k)
      PROVE  e \in Items(events')
  <2>1. PICK ok \in BOOLEAN : events' = Append(events, TransferEvent(k, t, ok))
    BY <1>8 DEF CompleteTransfer
  <2> QED
    BY <1>2, <2>1, TransferEventType
<1> QED
  BY <1>3, <1>4, <1>5, <1>6, <1>7, <1>8 DEF Next, Driver

LEMMA TailOfAppend ==
  ASSUME NEW S, NEW q \in Seq(S), q # <<>>, NEW x \in S
  PROVE  Tail(Append(q, x)) = Append(Tail(q), x) /\ Head(Append(q, x)) = Head(q)
OBVIOUS

LEMMA AppendDiffers ==
  ASSUME NEW S, NEW q \in Seq(S), NEW x
  PROVE  Append(q, x) # q
<1>1. Len(q) \in Nat /\ Len(Append(q, x)) = Len(q) + 1
  OBVIOUS
<1> QED
  BY <1>1

(* The hardware adds to the events and leaves the driver's variables alone.*)
LEMMA Hardware ==
  ASSUME QInv, [Next]_vars, ~Driver
  PROVE  /\ UNCHANGED <<phase, addressing, dcbaa, pc, after, bootPort>>
         /\ events' = events \/ \E x \in Events : events' = Append(events, x)
<1>1. CASE ExecCommand
  <2>1. PICK s \in 0 .. NumSlots, ok \in BOOLEAN : cmds # <<>> /\ Complete(s, ok)
    <3>1. cmds # <<>> => Head(cmds).slot \in 0 .. NumSlots
      BY CommandType DEF QInv, IInv, CommandTRBs
    <3> QED
      BY <1>1, <3>1, QueueTypes DEF QInv, ExecCommand, ExecEnableSlot, ExecAddressDevice,
         ExecConfigureEndpoint, FailCommand
  <2>2. Head(cmds).kind \in Commands
    BY <2>1, CommandType DEF QInv, IInv, CommandTRBs
  <2>3. CommandEvent(Head(cmds).kind, s, ok) \in Events
    BY <2>2, CommandEventType
  <2> QED
    BY <1>1, <2>1, <2>3 DEF Complete, ExecCommand, ExecEnableSlot, ExecAddressDevice,
       ExecConfigureEndpoint, FailCommand, driverVars
<1>2. ASSUME NEW q \in Ports, PlugIn(q) \/ PullOut(q) \/ ResetDone(q)
      PROVE  /\ UNCHANGED <<phase, addressing, dcbaa, pc, after, bootPort>>
             /\ events' = events \/ \E x \in Events : events' = Append(events, x)
  BY <1>2, PortEventType DEF PlugIn, PullOut, ResetDone, Report, driverVars
<1>3. ASSUME NEW t \in Slots, NEW k \in Transfers, CompleteTransfer(t, k)
      PROVE  /\ UNCHANGED <<phase, addressing, dcbaa, pc, after, bootPort>>
             /\ events' = events \/ \E x \in Events : events' = Append(events, x)
  <2>1. PICK ok \in BOOLEAN : events' = Append(events, TransferEvent(k, t, ok))
    BY <1>3 DEF CompleteTransfer
  <2> QED
    BY <1>3, <2>1, TransferEventType DEF CompleteTransfer
<1>4. CASE UNCHANGED vars
  BY <1>4 DEF vars, driverVars, hwVars
<1> QED
  BY <1>1, <1>2, <1>3, <1>4 DEF Next

LEMMA LaterStays ==
  ASSUME QInv, [Next]_vars, ~Driver, Resetting
  PROVE  /\ Items(Later) \subseteq Items(Later')
         /\ after.to # "Boot" => Head(events') = Head(events)
         /\ \A x \in Events : events' = Append(events, x) => x \in Items(Later')
<1>0. /\ events \in Seq(Events) /\ after' = after
      /\ after.to # "Boot" => events # <<>>
      /\ events' = events \/ \E x \in Events : events' = Append(events, x)
  BY QueueTypes, Hardware DEF QInv, IInv, ControlInv, ResetInv
<1>1. CASE events' = events
  BY <1>0, <1>1, AppendDiffers DEF Later
<1>2. ASSUME NEW x \in Events, events' = Append(events, x)
      PROVE  /\ Items(Later') = Items(Later) \cup {x}
             /\ after.to # "Boot" => Head(events') = Head(events)
  <2>1. CASE after.to = "Boot"
    BY <1>0, <1>2, <2>1, ItemsOfAppend DEF Later
  <2>2. CASE after.to # "Boot"
    <3>1. Tail(events') = Append(Tail(events), x) /\ Head(events') = Head(events)
      BY <1>0, <1>2, <2>2, TailOfAppend
    <3>2. PICK r : r = Tail(events)
      OBVIOUS
    <3>3. r \in Seq(Events)
      BY <1>0, <2>2, <3>2
    <3>4. Items(Append(r, x)) = Items(r) \cup {x}
      BY <3>3, ItemsOfAppend
    <3>5. Later = r /\ Later' = Append(r, x)
      BY <1>0, <2>2, <3>1, <3>2 DEF Later
    <3> QED
      BY <3>1, <3>4, <3>5
  <2> QED
    BY <2>1, <2>2
<1> QED
  BY <1>0, <1>1, <1>2

(* In the middle of a reset the driver goes on with that. *)
LEMMA ResetGoesOn ==
  ASSUME QInv, [Next]_vars
  PROVE  /\ pc = "Reset" /\ Driver => WriteReset
         /\ pc = "Spin" /\ Driver => FinishReset
         /\ Resetting /\ pc' = "Reset" => ~Driver /\ pc = "Reset"
<1>1. Resetting => ~(HasEvent \/ BootPort)
  BY DEF Resetting, HasEvent, BootPort
<1>2. Driver /\ ~(BootPort \/ WriteReset \/ FinishReset) => HasEvent
  BY DEF Driver, OnPortStatusChange, OnEnableSlot, OnAddressDevice, OnConfigureEndpoint, OnTransfer
<1>3. ~(WriteReset /\ pc' = "Reset") /\ ~(Resetting /\ FinishReset /\ pc' = "Reset")
  BY DEF WriteReset, FinishReset, NextBootPort
<1>4. WriteReset => pc = "Reset"
  BY DEF WriteReset
<1>5. FinishReset => pc = "Spin"
  BY DEF FinishReset
<1>6. Resetting /\ pc' = "Reset" => ~Driver
  BY <1>1, <1>2, <1>3
<1>7. Resetting /\ pc' = "Reset" => pc = "Reset"
  BY <1>6, Hardware
<1> QED
  BY <1>1, <1>2, <1>4, <1>5, <1>6, <1>7 DEF Resetting

(* A port the driver has begun with was connected, and not begun with.     *)
LEMMA BeginSource ==
  ASSUME QInv, [Next]_vars, NEW p \in Ports, phase'[p] # "NotConnected", phase[p] = "NotConnected"
  PROVE  /\ portsc[p].ccs /\ portsc' = portsc
         /\ \/ BootPort /\ p = bootPort
            \/ OnPortStatusChange /\ OnPlugged(p)
<1>0. phase \in [0 .. NumPorts -> Phases] /\ phase[0] = "NotConnected" /\ p \in 0 .. NumPorts
  BY QueueTypes DEF QInv
<1>1. CASE BootPort
  BY <1>0, <1>1 DEF BootPort, BeginReset, Queue, hwVars
<1>2. CASE OnPortStatusChange
  BY <1>0, <1>2 DEF OnPortStatusChange, OnPlugged, OnPortReset, BeginReset, Queue, Ignore,
     driverVars
<1>3. ~FinishReset
  <2> SUFFICES ASSUME FinishReset PROVE FALSE
    OBVIOUS
  <2>1. after.to = "Init" => phase[after.port] = "AddressingDevice"
    BY DEF FinishReset, QInv, IInv, ControlInv, ResetInv, Resetting
  <2> QED
    BY <1>0, <2>1 DEF FinishReset
<1>4. ~OnEnableSlot
  BY <1>0 DEF OnEnableSlot, Ignore, driverVars
<1>5. ~OnAddressDevice
  BY <1>0 DEF OnAddressDevice, BeginReset, HandsOver, WaitingPorts
<1>6. ~OnConfigureEndpoint
  BY <1>0 DEF OnConfigureEndpoint, Ignore, driverVars
<1>7. ~OnTransfer
  BY <1>0 DEF OnTransfer, ConfigureEndpoints, NeedsEndpoints, Ignore, driverVars
<1>8. ~WriteReset
  BY DEF WriteReset
<1>9. Driver
  BY Hardware
<1> QED
  BY <1>1, <1>2, <1>3, <1>4, <1>5, <1>6, <1>7, <1>8, <1>9 DEF Driver

(* A reset has ended when the port's slot is enabled.                      *)
LEMMA EnableSource ==
  ASSUME QInv, [Next]_vars, NEW p \in Ports,
         phase[p] = "ResettingPort", phase'[p] # "ResettingPort"
  PROVE  /\ OnPortStatusChange /\ Front.port = p /\ OnPortReset(p)
         /\ phase'[p] = "EnablingSlot" /\ portsc'[p].ped = portsc[p].ped
<1>0. /\ phase \in [0 .. NumPorts -> Phases] /\ phase[0] = "NotConnected" /\ p \in 0 .. NumPorts
      /\ portsc \in [Ports -> PortStatus]
  BY QueueTypes DEF QInv, IInv, TypeOK
<1>1. CASE OnPortStatusChange
  <2>1. OnPortReset(Front.port) /\ Front.port = p
    BY <1>0, <1>1 DEF OnPortStatusChange, OnPlugged, OnPortReset, IsFresh, BeginReset, Queue,
       Ignore,
       driverVars
  <2>2. PICK d : d = [portsc[p] EXCEPT !.prc = FALSE]
    OBVIOUS
  <2>3. d.ped = portsc[p].ped
    BY <1>0, <2>2 DEF PortStatus
  <2>4. portsc'[p] = d /\ phase'[p] = "EnablingSlot"
    BY <1>0, <2>1, <2>2 DEF OnPortReset
  <2> QED
    BY <1>1, <2>1, <2>3, <2>4
<1>2. ~BootPort
  <2> SUFFICES ASSUME BootPort PROVE FALSE
    OBVIOUS
  <2>1. bootPort \in Ports /\ phase[bootPort] = "NotConnected"
    BY DEF BootPort, QInv, IInv, ControlInv, BootInv, Ports
  <2> QED
    BY <1>0, <2>1 DEF BootPort, BeginReset, Queue
<1>3. ~FinishReset
  <2> SUFFICES ASSUME FinishReset PROVE FALSE
    OBVIOUS
  <2>1. after.to = "Init" => phase[after.port] = "AddressingDevice"
    BY DEF FinishReset, QInv, IInv, ControlInv, ResetInv, Resetting
  <2> QED
    BY <1>0, <2>1 DEF FinishReset
<1>4. ~OnEnableSlot
  BY <1>0 DEF OnEnableSlot, Ignore, driverVars
<1>5. ~OnAddressDevice
  BY <1>0 DEF OnAddressDevice, BeginReset, HandsOver, IsLowest, WaitingPorts
<1>6. ~OnConfigureEndpoint
  BY <1>0 DEF OnConfigureEndpoint, Ignore, driverVars
<1>7. ~OnTransfer
  BY <1>0 DEF OnTransfer, ConfigureEndpoints, NeedsEndpoints, Ignore, driverVars
<1>8. ~WriteReset
  BY DEF WriteReset
<1>9. Driver
  BY Hardware
<1> QED
  BY <1>1, <1>2, <1>3, <1>4, <1>5, <1>6, <1>7, <1>8, <1>9 DEF Driver

(* A reset begins with a port that is connected and has not been reset.    *)
LEMMA ResetSource ==
  ASSUME QInv, [Next]_vars, pc # "Reset", pc' = "Reset"
  PROVE  /\ phase[addressing'] \in {"NotConnected", "WaitingAddressed"} /\ portsc' = portsc
         /\ \/ BootPort /\ addressing' = bootPort /\ after' = Nowhere /\ bootPort' = bootPort
            \/ /\ HasEvent /\ bootPort' = bootPort /\ events' = events
               /\ \/ /\ after' = BackToLoop /\ Front.type = "Port" /\ addressing' = Front.port
                  \/ after'.to = "Init"
<1>1. CASE BootPort
  <2>1. /\ BeginReset(bootPort, Nowhere) /\ bootPort' = bootPort /\ UNCHANGED hwVars /\ pc = "Boot"
    BY <1>1 DEF BootPort, NextBootPort
  <2>2. bootPort \in Ports /\ phase[bootPort] = "NotConnected"
    BY <2>1 DEF QInv, IInv, ControlInv, BootInv, Ports
  <2> QED
    BY <1>1, <2>1, <2>2 DEF BeginReset, hwVars
<1>2. CASE OnPortStatusChange
  BY <1>2 DEF OnPortStatusChange, OnPlugged, OnPortReset, BeginReset, IsFresh, Ignore, driverVars
<1>3. CASE OnAddressDevice
  BY <1>3 DEF OnAddressDevice, BeginReset, IsLowest, WaitingPorts
<1>4. ~(OnEnableSlot \/ OnConfigureEndpoint \/ OnTransfer)
  BY DEF OnEnableSlot, OnConfigureEndpoint, OnTransfer, Ignore, driverVars
<1>5. ~(WriteReset \/ FinishReset)
  BY DEF WriteReset, FinishReset, NextBootPort
<1>6. Driver
  BY Hardware
<1> QED
  BY <1>1, <1>2, <1>3, <1>4, <1>5, <1>6 DEF Driver

LEMMA BitsStep ==
  ASSUME Undisturbed, QInv, PortsInv, [Next]_vars
  PROVE  BitsInv'
<1> SUFFICES ASSUME NEW p \in Ports
             PROVE  /\ portsc'[p].ccs = FALSE => phase'[p] = "NotConnected" /\ portsc'[p].csc = FALSE
                    /\ phase'[p] \notin Untouched => portsc'[p].ped
                    /\ phase'[p] \in {"NotConnected", "WaitingAddressed"}
                         \/ (p = addressing' /\ pc' = "Reset") => portsc'[p].prc = FALSE
  BY DEF BitsInv
<1>0. /\ portsc[p] \in PortStatus /\ portsc[p].ccs \in BOOLEAN /\ portsc[p].csc \in BOOLEAN
      /\ p \in 0 .. NumPorts /\ phase \in [0 .. NumPorts -> Phases]
  BY QueueTypes DEF QInv, IInv, TypeOK, PortStatus
<1>1. /\ portsc[p].ccs = FALSE => phase[p] = "NotConnected" /\ portsc[p].csc = FALSE
      /\ phase[p] \notin Untouched => portsc[p].ped
      /\ phase[p] \in {"NotConnected", "WaitingAddressed"} \/ (p = addressing /\ pc = "Reset") =>
           portsc[p].prc = FALSE
  BY DEF PortsInv, BitsInv
<1>2. phase'[p] = phase[p] \/ <<phase[p], phase'[p]>> \in Successor
  BY <1>0, PhaseStep DEF QInv
<1>3. ASSUME portsc'[p].ccs = FALSE
      PROVE  phase'[p] = "NotConnected" /\ portsc'[p].csc = FALSE
  <2>1. portsc[p].ccs = FALSE /\ portsc'[p].csc = FALSE
    BY <1>0, <1>1, <1>3, StatusSource
  <2>2. phase[p] = "NotConnected"
    BY <1>1, <2>1
  <2> QED
    BY <2>1, <2>2, BeginSource
<1>4. ASSUME phase'[p] \notin Untouched
      PROVE  portsc'[p].ped
  <2>1. CASE phase[p] \in Untouched
    <3>1. phase[p] = "ResettingPort" /\ phase'[p] = "EnablingSlot"
      BY <1>2, <1>4, <2>1 DEF Successor, Untouched
    <3>2. OnPortReset(p) /\ portsc'[p].ped = portsc[p].ped
      BY <3>1, EnableSource
    <3> QED
      BY <3>2 DEF OnPortReset
  <2>2. CASE phase[p] \notin Untouched
    <3>1. portsc[p].ped /\ portsc[p].ccs # FALSE
      BY <1>1, <2>2 DEF Untouched
    <3>2. ~(WriteReset /\ p = addressing)
      BY <2>2 DEF WriteReset, QInv, IInv, ControlInv, ResetInv, Resetting, Untouched
    <3> QED
      BY <3>1, <3>2, StatusSource
  <2> QED
    BY <2>1, <2>2
<1>5. ASSUME phase'[p] \in {"NotConnected", "WaitingAddressed"} \/ (p = addressing' /\ pc' = "Reset")
      PROVE  portsc'[p].prc = FALSE
  <2>1. CASE phase[p] \in {"NotConnected", "WaitingAddressed"} \/ (p = addressing /\ pc = "Reset")
    <3>1. portsc[p].prc = FALSE
      BY <1>1, <2>1
    <3>2. ~ResetDone(p)
      BY <2>1 DEF ResetDone, QInv, IInv, DefaultAddressInv, ResetHolder, ControlInv, ResetInv,
         Resetting
    <3>3. ~(OnPortStatusChange /\ OnPortReset(p))
      BY <2>1 DEF OnPortReset, OnPortStatusChange, HasEvent
    <3> QED
      BY <3>1, <3>2, <3>3, StatusSource
  <2>2. CASE ~(phase[p] \in {"NotConnected", "WaitingAddressed"} \/ (p = addressing /\ pc = "Reset"))
    <3>1. phase'[p] \notin {"NotConnected", "WaitingAddressed"}
      BY <1>2, <2>2 DEF Successor
    <3>2. p = addressing' /\ pc' = "Reset"
      BY <1>5, <3>1
    <3>3. pc # "Reset"
      BY <2>2, <3>2, ResetGoesOn, Hardware DEF Resetting
    <3> QED
      BY <2>2, <3>2, <3>3, ResetSource
  <2> QED
    BY <2>1, <2>2
<1> QED
  BY <1>3, <1>4, <1>5

(* A reset that goes on is the one of the same port. *)
LEMMA ResetContinues ==
  ASSUME QInv, [Next]_vars, Resetting'
  PROVE  \/ pc \in {"Boot", "Loop"} /\ pc' = "Reset"
         \/ /\ Resetting /\ UNCHANGED <<phase, addressing, after, bootPort>>
            /\ WriteReset \/ (~Driver /\ pc' = pc)
            /\ Items(Later) \subseteq Items(Later')
            /\ after.to # "Boot" => Head(events') = Head(events)
<1>0. pc \in {"Boot", "Loop", "Reset", "Spin"}
  BY DEF QInv, IInv, TypeOK
<1>1. CASE Resetting /\ ~Driver
  BY <1>1, Hardware, LaterStays
<1>2. CASE Resetting /\ Driver
  <2>1. ~FinishReset
    BY DEF FinishReset, NextBootPort, Resetting
  <2>2. WriteReset
    BY <1>2, <2>1, ResetGoesOn DEF Resetting
  <2>3. UNCHANGED <<phase, addressing, after, bootPort, events>>
    BY <2>2 DEF WriteReset
  <2> QED
    BY <1>2, <2>2, <2>3 DEF Later
<1>3. CASE ~Resetting
  <2>1. ~WriteReset /\ ~FinishReset
    BY <1>3 DEF WriteReset, FinishReset, Resetting
  <2>2. pc' # "Spin"
    <3> SUFFICES ASSUME pc' = "Spin" PROVE FALSE
      OBVIOUS
    <3>1. Driver
      BY <1>3, Hardware DEF Resetting
    <3> QED
      BY <1>3, <2>1, <3>1 DEF Resetting, Driver, BootPort, BeginReset, NextBootPort,
         OnPortStatusChange, OnPlugged, OnPortReset, OnEnableSlot, OnAddressDevice,
         OnConfigureEndpoint, OnTransfer, Ignore, driverVars
  <2> QED
    BY <1>0, <1>3, <2>2 DEF Resetting
<1> QED
  BY <1>1, <1>2, <1>3

(* The loop over the ports ends behind the last one. *)
LEMMA LoopSource ==
  ASSUME QInv, LoopInv, [Next]_vars, pc' = "Loop"
  PROVE  bootPort' = NumPorts + 1
<1>1. CASE ~Driver
  BY <1>1, Hardware DEF LoopInv
<1>2. CASE BootPort
  BY <1>2 DEF BootPort, BeginReset, NextBootPort
<1>3. CASE WriteReset
  BY <1>3 DEF WriteReset
<1>4. CASE FinishReset
  BY <1>4 DEF FinishReset, NextBootPort, LoopInv, Resetting
<1>5. CASE OnPortStatusChange \/ OnEnableSlot \/ OnAddressDevice \/ OnConfigureEndpoint \/ OnTransfer
  <2>1. bootPort' = bootPort
    BY <1>5 DEF OnPortStatusChange, OnPlugged, OnPortReset, OnEnableSlot, OnAddressDevice,
       OnConfigureEndpoint, OnTransfer, Ignore, driverVars
  <2>2. pc = "Loop"
    BY <1>5 DEF OnPortStatusChange, OnEnableSlot, OnAddressDevice, OnConfigureEndpoint, OnTransfer,
       HasEvent
  <2> QED
    BY <2>1, <2>2 DEF LoopInv
<1> QED
  BY <1>1, <1>2, <1>3, <1>4, <1>5 DEF Driver

(* When the critical section is released, or has not been taken, no port   *)
(* waits for it: the handler that releases it takes the lowest waiting     *)
(* port, which is still connected.                                         *)
LEMMA NobodyWaits ==
  ASSUME QInv, PortsInv, [Next]_vars, addressing' = 0
  PROVE  WaitingPorts' = {}
<1>0. /\ phase \in [0 .. NumPorts -> Phases] /\ addressing \in 0 .. NumPorts
      /\ WaitingPorts \subseteq Ports
      /\ \A p \in Ports : portsc[p] \in PortStatus
  BY QueueTypes DEF QInv, IInv, TypeOK, WaitingPorts
<1>1. CASE addressing # 0
  <2>1. Driver
    BY <1>1, Hardware
  <2>2. ~BootPort
    <3> SUFFICES ASSUME BootPort PROVE FALSE
      OBVIOUS
    <3>1. bootPort \in Ports
      BY DEF BootPort, QInv, IInv, ControlInv, BootInv
    <3> QED
      BY <1>1, <3>1 DEF BootPort, BeginReset, Queue, Idle
  <2>3. ~(WriteReset \/ FinishReset \/ OnPortStatusChange \/ OnEnableSlot \/ OnConfigureEndpoint \/ OnTransfer)
    BY <1>1 DEF WriteReset, FinishReset, OnPortStatusChange, OnPlugged, Idle, Queue, OnPortReset,
       OnEnableSlot, OnConfigureEndpoint, OnTransfer, Ignore, driverVars
  <2>4. OnAddressDevice
    BY <2>1, <2>2, <2>3 DEF Driver
  <2>5. /\ \A w \in WaitingPorts : IsLowest(w) => ~portsc[w].ccs
        /\ \E q \in 0 .. NumPorts : phase' = [phase EXCEPT ![q] = "InitializingDevice"]
    <3>1. HasEvent /\ Front.type = "Command"
      BY <2>4 DEF OnAddressDevice
    <3>2. dev[Front.slot].port \in 0 .. NumPorts
      BY <3>1, FrontSlot, QueueTypes DEF QInv
    <3> QED
      BY <1>0, <1>1, <2>4, <3>2 DEF OnAddressDevice, BeginReset, IsLowest, Ports
  <2>6. WaitingPorts = {}
    <3> SUFFICES ASSUME WaitingPorts # {} PROVE FALSE
      OBVIOUS
    <3>1. WaitingPorts \in SUBSET Nat
      BY <1>0 DEF Ports
    <3>2. PICK w \in WaitingPorts : \A v \in WaitingPorts : w <= v
      BY <3>1, LowestMember
    <3>3. ~portsc[w].ccs /\ w \in Ports /\ phase[w] = "WaitingAddressed"
      BY <2>5, <3>2 DEF IsLowest, WaitingPorts
    <3>4. portsc[w].ccs = FALSE
      BY <1>0, <3>3 DEF PortStatus
    <3> QED
      BY <3>3, <3>4 DEF PortsInv, BitsInv
  <2> QED
    BY <1>0, <2>5, <2>6 DEF WaitingPorts, Ports
<1>2. CASE addressing = 0
  <2>1. \A p \in Ports : phase[p] # "WaitingAddressed"
    BY <1>2 DEF PortsInv, LoopInv, WaitingPorts
  <2>2. ASSUME NEW p \in Ports, phase'[p] = "WaitingAddressed" PROVE FALSE
    <3>1. phase[p] = "NotConnected" /\ p \in 0 .. NumPorts
      BY <2>1, <2>2, PhaseStep DEF QInv, Successor, Ports
    <3>2. (BootPort /\ p = bootPort) \/ (OnPortStatusChange /\ OnPlugged(p))
      BY <2>2, <3>1, BeginSource
    <3>3. BeginReset(p, Nowhere) \/ BeginReset(p, BackToLoop)
      BY <1>2, <2>2, <3>1, <3>2 DEF BootPort, OnPlugged, Queue
    <3> QED
      BY <1>0, <2>2, <3>1, <3>3 DEF BeginReset
  <2> QED
    BY <2>2 DEF WaitingPorts
<1> QED
  BY <1>1, <1>2

LEMMA LoopStep ==
  ASSUME QInv, PortsInv, [Next]_vars
  PROVE  LoopInv'
<1>1. ASSUME pc' = "Loop" \/ (Resetting' /\ after'.to # "Boot")
      PROVE  bootPort' = NumPorts + 1
  <2>1. CASE pc' = "Loop"
    BY <2>1, LoopSource DEF PortsInv
  <2>2. CASE Resetting' /\ after'.to # "Boot"
    <3>1. CASE pc \in {"Boot", "Loop"} /\ pc' = "Reset"
      <4>1. HasEvent /\ bootPort' = bootPort
        BY <2>2, <3>1, ResetSource DEF Nowhere
      <4> QED
        BY <4>1 DEF HasEvent, PortsInv, LoopInv
    <3>2. CASE Resetting /\ UNCHANGED <<phase, addressing, after, bootPort>>
      BY <2>2, <3>2 DEF PortsInv, LoopInv
    <3> QED
      BY <2>2, <3>1, <3>2, ResetContinues
  <2> QED
    BY <1>1, <2>1, <2>2
<1>2. ASSUME Resetting', after'.to = "Boot"
      PROVE  bootPort' = addressing'
  <2>1. CASE pc \in {"Boot", "Loop"} /\ pc' = "Reset"
    BY <1>2, <2>1, ResetSource DEF BackToLoop
  <2>2. CASE Resetting /\ UNCHANGED <<phase, addressing, after, bootPort>>
    BY <1>2, <2>2 DEF PortsInv, LoopInv
  <2> QED
    BY <1>2, <2>1, <2>2, ResetContinues
<1>3. ASSUME Resetting', after'.to = "Loop"
      PROVE  Head(events').type = "Port" /\ Head(events').port = addressing'
  <2>1. CASE pc \in {"Boot", "Loop"} /\ pc' = "Reset"
    BY <1>3, <2>1, ResetSource DEF Nowhere, Front
  <2>2. CASE /\ Resetting /\ UNCHANGED <<phase, addressing, after, bootPort>>
             /\ after.to # "Boot" => Head(events') = Head(events)
    BY <1>3, <2>2 DEF PortsInv, LoopInv
  <2> QED
    BY <1>3, <2>1, <2>2, ResetContinues
<1> QED
  BY <1>1, <1>2, <1>3, NobodyWaits DEF LoopInv, Resetting

(* The end of a reset is reported: the port had no change bit up, so the   *)
(* one the end of the reset sets is an event.                              *)
LEMMA SpinStep ==
  ASSUME Undisturbed, QInv, PortsInv, [Next]_vars
  PROVE  SpinInv'
<1> SUFFICES ASSUME pc' = "Spin"
             PROVE  IF portsc'[addressing'].pr
                      THEN portsc'[addressing'].csc = FALSE /\ portsc'[addressing'].prc = FALSE
                      ELSE /\ portsc'[addressing'].ped /\ portsc'[addressing'].prc
                           /\ PortEvent(addressing') \in Items(Later')
  BY DEF SpinInv
<1>1. /\ Resetting /\ addressing' = addressing
      /\ WriteReset \/ (~Driver /\ pc = "Spin")
      /\ Items(Later) \subseteq Items(Later')
  BY ResetContinues DEF Resetting
<1>2. /\ addressing \in Ports /\ phase[addressing] = "ResettingPort"
      /\ portsc[addressing] \in PortStatus /\ portsc[addressing].ccs = TRUE
      /\ portsc \in [Ports -> PortStatus] /\ PortEvent(addressing) \in Events
  BY <1>1, PortEventType DEF QInv, IInv, TypeOK, ControlInv, ResetInv, PortsInv, BitsInv, PortStatus
<1>3. CASE WriteReset
  <2>1. PICK d : d = [portsc[addressing] EXCEPT !.csc = FALSE, !.pr = portsc[addressing].ccs,
                                                !.ped = FALSE]
    OBVIOUS
  <2>2. d.pr = TRUE /\ d.csc = FALSE /\ d.prc = portsc[addressing].prc
    BY <1>2, <2>1 DEF PortStatus
  <2>3. portsc'[addressing] = d
    BY <1>2, <1>3, <2>1 DEF WriteReset
  <2>4. portsc[addressing].prc = FALSE
    BY <1>2, <1>3 DEF WriteReset, PortsInv, BitsInv
  <2> QED
    BY <1>1, <2>2, <2>3, <2>4
<1>4. CASE ~Driver /\ pc = "Spin"
  <2>0. IF portsc[addressing].pr
          THEN portsc[addressing].csc = FALSE /\ portsc[addressing].prc = FALSE
          ELSE /\ portsc[addressing].ped /\ portsc[addressing].prc
               /\ PortEvent(addressing) \in Items(Later)
    BY <1>4 DEF PortsInv, SpinInv
  <2>1. CASE portsc'[addressing] = portsc[addressing]
    BY <1>1, <2>0, <2>1
  <2>2. CASE /\ ResetDone(addressing) /\ portsc[addressing].pr
             /\ portsc'[addressing].pr = FALSE
             /\ portsc'[addressing].ped /\ portsc'[addressing].prc
    <3>1. portsc[addressing].csc = FALSE /\ portsc[addressing].prc = FALSE
      BY <2>0, <2>2
    <3>2. events' = Append(events, PortEvent(addressing))
      BY <2>2, <3>1 DEF ResetDone, Report
    <3>3. PortEvent(addressing) \in Items(Later')
      BY <1>1, <1>2, <1>4, <3>2, LaterStays
    <3> QED
      BY <1>1, <2>2, <3>3
  <2> QED
    BY <1>2, <1>4, <2>1, <2>2, StatusSource DEF Driver
<1> QED
  BY <1>1, <1>3, <1>4

LEMMA ResetStarts ==
  ASSUME QInv, [Next]_vars, NEW p \in Ports,
         phase[p] # "ResettingPort", phase'[p] = "ResettingPort"
  PROVE  pc' = "Reset"
<1>0. /\ phase \in [0 .. NumPorts -> Phases] /\ p \in 0 .. NumPorts
      /\ \A s \in 0 .. NumSlots : dev[s].port \in 0 .. NumPorts
  BY QueueTypes DEF QInv
<1>1. Driver
  BY Hardware
<1>2. ASSUME BootPort \/ OnPortStatusChange PROVE pc' = "Reset"
  BY <1>0, <1>2 DEF BootPort, Queue, BeginReset, OnPortStatusChange, OnPlugged, OnPortReset, Ignore,
     driverVars
<1>3. ASSUME OnAddressDevice PROVE pc' = "Reset"
  BY <1>0, <1>3 DEF OnAddressDevice, BeginReset
<1>4. ~(WriteReset \/ FinishReset \/ OnEnableSlot \/ OnConfigureEndpoint)
  BY <1>0 DEF WriteReset, FinishReset, OnEnableSlot, OnConfigureEndpoint, Ignore, driverVars
<1>5. ~OnTransfer
  BY <1>0 DEF OnTransfer, ConfigureEndpoints, Ignore, driverVars
<1> QED
  BY <1>1, <1>2, <1>3, <1>4, <1>5 DEF Driver

LEMMA ResetReportedStep ==
  ASSUME Undisturbed, QInv, PortsInv, [Next]_vars, NEW p \in Ports
  PROVE  ResetReported(p)'
<1> SUFFICES ASSUME phase'[p] = "ResettingPort", ~Resetting'
             PROVE  portsc'[p].ped /\ portsc'[p].prc /\ PortEvent(p) \in Items(events')
  BY DEF ResetReported
<1>0. /\ phase \in [0 .. NumPorts -> Phases] /\ p \in 0 .. NumPorts
      /\ portsc[p] \in PortStatus /\ PortEvent(p).type = "Port" /\ PortEvent(p).port = p
  BY QueueTypes DEF QInv, IInv, TypeOK, PortEvent
<1>1. phase[p] = "ResettingPort"
  BY ResetStarts DEF Resetting
<1>2. CASE Resetting
  <2>1. FinishReset
    <3>1. Driver /\ ~WriteReset
      BY <1>2, Hardware DEF WriteReset, Resetting
    <3> QED
      BY <1>2, <3>1, ResetGoesOn DEF Resetting
  <2>2. p = addressing
    BY <1>1, <1>2 DEF QInv, IInv, ControlInv, AddressingExclusive, InSequence, Leaving, ResetInv
  <2>3. events' = Later /\ portsc' = portsc /\ ~portsc[p].pr /\ pc = "Spin"
    BY <2>1, <2>2 DEF FinishReset, Later, Pop
  <2> QED
    BY <2>2, <2>3 DEF PortsInv, SpinInv
<1>3. CASE ~Resetting
  <2>1. portsc[p].ped /\ portsc[p].prc /\ PortEvent(p) \in Items(events)
    BY <1>1, <1>3 DEF PortsInv, ResetReported
  <2>2. ~(OnPortStatusChange /\ OnPortReset(p))
    BY <1>0 DEF OnPortReset
  <2>3. portsc'[p].ped /\ portsc'[p].prc
    <3>1. ~WriteReset
      BY <1>3 DEF WriteReset, Resetting
    <3>2. portsc[p].ccs # FALSE
      BY <1>1 DEF PortsInv, BitsInv
    <3> QED
      BY <2>1, <2>2, <3>1, <3>2, StatusSource
  <2>4. PortEvent(p) \in Items(events')
    <3> SUFFICES ASSUME PortEvent(p) \notin Items(events') PROVE FALSE
      OBVIOUS
    <3>1. ~FinishReset
      BY <1>3 DEF FinishReset, Resetting
    <3>2. HasEvent /\ Driver /\ PortEvent(p) = Front
      BY <2>1, <3>1, EventStays
    <3>3. Front.type = "Port" /\ Front.port = p
      BY <1>0, <3>2
    <3>4. OnPortStatusChange
      BY <3>1, <3>2, <3>3 DEF Driver, HasEvent, BootPort, WriteReset, OnEnableSlot, OnAddressDevice,
         OnConfigureEndpoint, OnTransfer
    <3> QED
      BY <1>1, <2>1, <2>2, <3>3, <3>4 DEF OnPortStatusChange, OnPlugged, IsFresh
  <2> QED
    BY <2>3, <2>4
<1> QED
  BY <1>2, <1>3

(* A device that is plugged in has its event, or main's loop comes by.     *)
LEMMA ConnectReportedStep ==
  ASSUME Undisturbed, QInv, PortsInv, [Next]_vars, NEW p \in Ports
  PROVE  ConnectReported(p)'
<1> SUFFICES ASSUME phase'[p] = "NotConnected", portsc'[p].ccs
             PROVE  PortEvent(p) \in Items(events') \/ (pc' # "Loop" /\ bootPort' <= p)
  BY DEF ConnectReported
<1>0. /\ phase \in [0 .. NumPorts -> Phases] /\ p \in 0 .. NumPorts
      /\ portsc[p] \in PortStatus /\ portsc[p].ccs \in BOOLEAN /\ PortEvent(p) \in Events
      /\ events \in Seq(Events) /\ bootPort \in 1 .. NumPorts + 1 /\ NumPorts \in Nat
      /\ PortEvent(p).type = "Port" /\ PortEvent(p).port = p
  BY QueueTypes, PortEventType, PortConfigAssumption DEF QInv, IInv, TypeOK, PortStatus, PortEvent
<1>1. phase[p] = "NotConnected"
  BY <1>0, PhaseStep DEF QInv, Successor
<1>2. CASE portsc[p].ccs = FALSE
  <2>1. PlugIn(p)
    BY <1>2, StatusSource
  <2>2. portsc[p].csc = FALSE /\ portsc[p].prc = FALSE
    BY <1>1, <1>2 DEF PortsInv, BitsInv
  <2>3. events' = Append(events, PortEvent(p))
    BY <2>1, <2>2 DEF PlugIn, Report
  <2> QED
    BY <1>0, <2>3, ItemsOfAppend
<1>3. CASE portsc[p].ccs = TRUE /\ PortEvent(p) \in Items(events)
  <2> SUFFICES ASSUME PortEvent(p) \notin Items(events') PROVE FALSE
    OBVIOUS
  <2>1. /\ PortEvent(p) = Front
        /\ (HasEvent /\ Driver) \/ (FinishReset /\ after.to # "Boot")
    BY <1>3, EventStays
  <2>2. Front.type = "Port" /\ Front.port = p
    BY <1>0, <2>1
  <2>3. CASE HasEvent /\ Driver
    <3>1. OnPortStatusChange
      BY <2>2, <2>3 DEF Driver, HasEvent, BootPort, WriteReset, FinishReset, OnEnableSlot,
         OnAddressDevice, OnConfigureEndpoint, OnTransfer
    <3>2. OnPlugged(p)
      BY <1>1, <1>3, <2>2, <3>1 DEF OnPortStatusChange, OnPortReset, IsFresh
    <3> QED
      BY <1>0, <3>2 DEF OnPlugged, BeginReset, Queue
  <2>4. CASE FinishReset /\ after.to # "Boot"
    <3>1. Resetting /\ phase[addressing] = "ResettingPort"
      BY <2>4 DEF FinishReset, Resetting, QInv, IInv, ControlInv, ResetInv
    <3>2. after.to \in {"Loop", "Init"}
      BY <2>4 DEF QInv, IInv, TypeOK, Continuations
    <3>3. after.to # "Init"
      BY <2>2, <3>1 DEF Front, QInv, QueueInv, HandOverInv, HandingOver
    <3> QED
      BY <1>1, <2>2, <3>1, <3>2, <3>3 DEF Front, PortsInv, LoopInv
  <2> QED
    BY <2>1, <2>3, <2>4
<1>4. CASE portsc[p].ccs = TRUE /\ pc # "Loop" /\ bootPort <= p
  <2>1. CASE ~Driver
    BY <1>4, <2>1, Hardware
  <2>2. CASE WriteReset
    BY <1>4, <2>2 DEF WriteReset
  <2>3. CASE BootPort
    <3>1. p # bootPort
      BY <1>0, <1>4, <2>3 DEF BootPort, BeginReset, Queue
    <3>2. bootPort < p /\ bootPort # NumPorts
      BY <1>0, <1>4, <3>1
    <3> QED
      BY <1>0, <1>4, <2>3, <3>2 DEF BootPort, BeginReset, NextBootPort
  <2>4. CASE FinishReset
    <3>1. Resetting /\ phase[addressing] = "ResettingPort"
      BY <2>4 DEF FinishReset, Resetting, QInv, IInv, ControlInv, ResetInv
    <3>2. after.to = "Boot" /\ bootPort = addressing
      BY <1>0, <1>4, <3>1 DEF PortsInv, LoopInv
    <3>3. bootPort < p /\ bootPort # NumPorts
      BY <1>0, <1>1, <1>4, <3>1, <3>2
    <3> QED
      BY <1>0, <2>4, <3>2, <3>3 DEF FinishReset, NextBootPort
  <2> QED
    BY <1>4, <2>1, <2>2, <2>3, <2>4 DEF Driver, OnPortStatusChange, OnEnableSlot, OnAddressDevice,
       OnConfigureEndpoint, OnTransfer, HasEvent
<1>5. portsc[p].ccs = TRUE => PortEvent(p) \in Items(events) \/ (pc # "Loop" /\ bootPort <= p)
  BY <1>1 DEF PortsInv, ConnectReported
<1> QED
  BY <1>0, <1>2, <1>3, <1>4, <1>5

LEMMA PortsStep ==
  ASSUME Undisturbed, QInv, PortsInv, [Next]_vars
  PROVE  PortsInv'
BY BitsStep, SpinStep, LoopStep, ResetReportedStep, ConnectReportedStep DEF PortsInv

LEMMA PortsInit == Init => PortsInv
<1> SUFFICES ASSUME Init PROVE PortsInv
  OBVIOUS
<1>1. /\ \A p \in Ports : phase[p] = "NotConnected" /\ portsc[p].prc = FALSE
                           /\ portsc[p].csc = portsc[p].ccs
      /\ pc = "Boot" /\ bootPort = 1 /\ WaitingPorts = {}
  <2>1. \A p \in Ports : p \in 0 .. NumPorts
    BY DEF Ports
  <2>2. PICK C \in SUBSET Ports :
          portsc = [p \in Ports |-> [ccs |-> p \in C, csc |-> p \in C,
                                     ped |-> p \in C \cap SuperSpeedPorts,
                                     pr |-> FALSE, prc |-> FALSE]]
    BY DEF Init
  <2> QED
    BY <2>1, <2>2 DEF Init, WaitingPorts
<1> QED
  BY <1>1 DEF PortsInv, BitsInv, SpinInv, LoopInv, ResetReported, ConnectReported, Resetting, Ports,
     Untouched

-----------------------------------------------------------------------------
(* The devices, and what becomes of a command *)

LEMMA AllocKept ==
  ASSUME NEW d \in Devices
  PROVE  /\ \A i : [d EXCEPT !.init = i].alloc = d.alloc
         /\ \A h : [d EXCEPT !.hid = h].alloc = d.alloc
         /\ \A c : [d EXCEPT !.tds = c].alloc = d.alloc
BY DEF Devices

LEMMA PendingAlloc ==
  ASSUME NEW d \in Devices, NEW t, NEW n
  PROVE  Pending(d, t, n).alloc = d.alloc /\ Ask(d, t, n).alloc = d.alloc
<1>1. \A m : Pending(d, t, m).alloc = d.alloc
  BY AllocKept DEF Pending
<1> QED
  BY <1>1 DEF Ask

LEMMA ReactionAlloc ==
  ASSUME NEW d \in Devices, NEW t
  PROVE  /\ Reaction(d, t).alloc = d.alloc
         /\ Started(d).alloc = d.alloc /\ ClassStarted(d).alloc = d.alloc
<1>0. /\ 1 \in 0 .. 4 /\ 2 \in 0 .. 4 /\ 3 \in 0 .. 4 /\ 1 \in 0 .. 2 /\ 2 \in 0 .. 2
  OBVIOUS
<1>1. ASSUME NEW i \in 0 .. 4, NEW u, NEW c, c = [d EXCEPT !.init = i]
      PROVE  Ask(c, u, 1).alloc = d.alloc
  <2>1. c \in Devices
    BY <1>1, InitFieldType
  <2>2. c.alloc = d.alloc
    BY <1>1, AllocKept
  <2> QED
    BY <2>1, <2>2, PendingAlloc
<1>2. ASSUME NEW h \in 0 .. 2, NEW u, NEW n, NEW c, c = [d EXCEPT !.hid = h]
      PROVE  Ask(c, u, n).alloc = d.alloc
  <2>1. c \in Devices
    BY <1>2, HidFieldType
  <2>2. c.alloc = d.alloc
    BY <1>2, AllocKept
  <2> QED
    BY <2>1, <2>2, PendingAlloc
<1>3. Started(d).alloc = d.alloc
  <2>1. PICK c : c = [d EXCEPT !.init = 1]
    OBVIOUS
  <2>2. Ask(c, "DeviceDesc", 1).alloc = d.alloc
    BY <1>0, <1>1, <2>1
  <2> QED
    BY <2>1, <2>2 DEF Started
<1>4. ClassStarted(d).alloc = d.alloc
  <2>1. PICK c : c = [d EXCEPT !.hid = 1]
    OBVIOUS
  <2>2. Ask(c, "SetProtocol", EndpointNumbers[d.port]).alloc = d.alloc
    BY <1>0, <1>2, <2>1
  <2> QED
    BY <2>1, <2>2 DEF ClassStarted
<1>5. DriverReaction(d, t).alloc = d.alloc
  <2>1. PICK c : c = [d EXCEPT !.hid = 2]
    OBVIOUS
  <2>2. Ask(c, "InterruptIn", 1).alloc = d.alloc
    BY <1>0, <1>2, <2>1
  <2>3. Ask(d, "InterruptIn", 1).alloc = d.alloc
    BY PendingAlloc
  <2> QED
    BY <2>1, <2>2, <2>3 DEF DriverReaction
<1>6. Reaction(d, t).alloc = d.alloc
  <2>1. PICK c : c = [d EXCEPT !.init = 2]
    OBVIOUS
  <2>2. Ask(c, "ConfigDesc", 1).alloc = d.alloc
    BY <1>0, <1>1, <2>1
  <2>3. PICK e : e = [d EXCEPT !.init = 3]
    OBVIOUS
  <2>4. Ask(e, "SetConfig", 1).alloc = d.alloc
    BY <1>0, <1>1, <2>3
  <2>5. PICK f : f = [d EXCEPT !.init = 4]
    OBVIOUS
  <2>6. f.alloc = d.alloc
    BY <2>5, AllocKept
  <2> QED
    BY <1>5, <2>1, <2>2, <2>3, <2>4, <2>5, <2>6 DEF Reaction
<1> QED
  BY <1>3, <1>4, <1>6

(* A transfer that ends leaves the state of its device and its driver. *)
LEMMA EndedType ==
  ASSUME QInv, NEW t \in Slots, NEW k \in Transfers, CompleteTransfer(t, k)
  PROVE  \E n \in Nat : dev' = [dev EXCEPT ![t] = Pending(dev[t], k, n)]
<1>1. dev[t] \in Devices /\ dev[t].tds[k] > 0
  BY QueueTypes DEF QInv, CompleteTransfer, Slots
<1>2. dev[t].tds[k] - 1 \in Nat
  BY <1>1 DEF Devices
<1> QED
  BY <1>2 DEF CompleteTransfer

(* The steps of a device and its driver stand still. *)
SameSteps(s) == dev'[s].port = dev[s].port /\ dev'[s].init = dev[s].init /\ dev'[s].hid = dev[s].hid

(* Transfer t of the device is over, and no other one. *)
Ended(s, t) ==
  /\ CompleteTransfer(s, t) /\ SameSteps(s)
  /\ \A u \in Transfers \ {t} : dev'[s].tds[u] = dev[s].tds[u]

(* Who changes a device, and what stays. *)
LEMMA DeviceSource ==
  ASSUME QInv, [Next]_vars, NEW s \in 0 .. NumSlots
  PROVE  \/ dev'[s] = dev[s]
         \/ /\ FinishReset \/ OnAddressDevice
            /\ InPhase(s, "AddressingDevice") /\ dev'[s] = Started(dev[s])
            /\ dev'[s].alloc = dev[s].alloc
         \/ /\ OnEnableSlot /\ dev'[s].alloc
            /\ SameSteps(s) /\ dev'[s].tds = dev[s].tds
         \/ /\ OnConfigureEndpoint /\ InPhase(s, "ConfiguringEndpoints")
            /\ dev'[s] = ClassStarted(dev[s])
            /\ dev'[s].alloc = dev[s].alloc
         \/ /\ OnTransfer /\ s = Front.slot /\ Front.ok /\ dev[s].alloc
            /\ dev'[s] = Reaction(dev[s], Front.of)
            /\ dev'[s].alloc = dev[s].alloc
         \/ /\ ExecAddressDevice /\ s = Head(cmds).slot
            /\ dev'[s].alloc = dev[s].alloc
         \/ /\ \E t \in Transfers : Ended(s, t)
            /\ dev'[s].alloc = dev[s].alloc
<1>0. /\ dev \in [0 .. NumSlots -> Devices] /\ dev[s] \in Devices
      /\ phase[0] = "NotConnected" /\ Slots \subseteq 0 .. NumSlots
  BY QueueTypes DEF QInv
<1> SUFFICES ASSUME dev'[s] # dev[s]
             PROVE  \/ /\ FinishReset \/ OnAddressDevice
                       /\ InPhase(s, "AddressingDevice") /\ dev'[s] = Started(dev[s])
                    \/ /\ OnEnableSlot /\ dev'[s].alloc
                       /\ SameSteps(s) /\ dev'[s].tds = dev[s].tds
                    \/ /\ OnConfigureEndpoint /\ InPhase(s, "ConfiguringEndpoints")
                       /\ dev'[s] = ClassStarted(dev[s])
                    \/ /\ OnTransfer /\ s = Front.slot /\ Front.ok /\ dev[s].alloc
                       /\ dev'[s] = Reaction(dev[s], Front.of)
                    \/ /\ ExecAddressDevice /\ s = Head(cmds).slot
                       /\ dev'[s].alloc = dev[s].alloc
                    \/ /\ \E t \in Transfers : Ended(s, t)
                       /\ dev'[s].alloc = dev[s].alloc
  BY <1>0, ReactionAlloc
<1>2. CASE FinishReset
  <2>1. after.to = "Init" /\ dev' = [dev EXCEPT ![after.slot] = Started(dev[after.slot])]
    BY <1>2 DEF FinishReset
  <2>2. s = after.slot /\ dev'[s] = Started(dev[s])
    BY <1>0, <2>1
  <2>3. /\ dev[s].port = after.port /\ phase[after.port] = "AddressingDevice" /\ after.port # 0
    BY <1>0, <1>2, <2>1, <2>2 DEF FinishReset, Resetting, QInv, IInv, ControlInv, ResetInv,
       QueueInv,
       HandOverInv, HandingOver
  <2> QED
    BY <1>2, <2>2, <2>3 DEF InPhase
<1>3. CASE OnAddressDevice
  <2>1. /\ HandsOver(Front.slot)
        /\ dev' = [dev EXCEPT ![Front.slot] = Started(dev[Front.slot])]
    BY <1>3 DEF OnAddressDevice
  <2>2. s = Front.slot /\ dev'[s] = Started(dev[s])
    BY <1>0, <2>1
  <2> QED
    BY <1>0, <1>3, <2>1, <2>2 DEF InPhase, HandsOver
<1>4. CASE OnEnableSlot
  <2>1. PICK d : d = [dev[s] EXCEPT !.alloc = TRUE]
    OBVIOUS
  <2>2. /\ d.alloc /\ d.port = dev[s].port /\ d.init = dev[s].init
        /\ d.hid = dev[s].hid /\ d.tds = dev[s].tds
    BY <1>0, <2>1 DEF Devices
  <2>3. dev' = [dev EXCEPT ![Front.slot] = [dev[Front.slot] EXCEPT !.alloc = TRUE]]
    BY <1>4 DEF OnEnableSlot, Ignore, driverVars
  <2>4. dev'[s] = d
    BY <1>0, <2>1, <2>3
  <2> QED
    BY <1>4, <2>2, <2>4 DEF SameSteps
<1>5. CASE OnConfigureEndpoint
  <2>1. /\ phase[dev[Front.slot].port] = "ConfiguringEndpoints"
        /\ dev' = [dev EXCEPT ![Front.slot] = ClassStarted(dev[Front.slot])]
    BY <1>5 DEF OnConfigureEndpoint, Ignore, driverVars
  <2>2. s = Front.slot /\ dev'[s] = ClassStarted(dev[s])
    BY <1>0, <2>1
  <2> QED
    BY <1>0, <1>5, <2>1, <2>2 DEF InPhase
<1>6. CASE OnTransfer
  <2>1. /\ Front.ok /\ dev[Front.slot].alloc
        /\ dev' = [dev EXCEPT ![Front.slot] = Reaction(dev[Front.slot], Front.of)]
    BY <1>6 DEF OnTransfer, Ignore, driverVars
  <2> QED
    BY <1>0, <1>6, <2>1
<1>7. CASE ExecAddressDevice
  <2>0. PICK c : c = Head(cmds)
    OBVIOUS
  <2>1. dev' = [dev EXCEPT ![c.slot] = [dev[c.slot] EXCEPT !.port = c.port]]
    BY <1>7, <2>0, ExecAddress DEF QInv, IInv
  <2>2. PICK d : d = [dev[s] EXCEPT !.port = c.port]
    OBVIOUS
  <2>3. d.alloc = dev[s].alloc
    BY <1>0, <2>2 DEF Devices
  <2>4. s = c.slot /\ dev'[s] = d
    BY <1>0, <2>1, <2>2
  <2> QED
    BY <1>7, <2>0, <2>3, <2>4
<1>8. ASSUME NEW t \in Slots, NEW k \in Transfers, CompleteTransfer(t, k)
      PROVE  Ended(s, k) /\ dev'[s].alloc = dev[s].alloc
  <2>1. PICK n \in Nat : dev' = [dev EXCEPT ![t] = Pending(dev[t], k, n)]
    BY <1>8, EndedType
  <2>2. s = t /\ dev'[s] = Pending(dev[s], k, n)
    BY <1>0, <2>1
  <2>3. /\ dev'[s].port = dev[s].port /\ dev'[s].init = dev[s].init /\ dev'[s].hid = dev[s].hid
        /\ dev'[s].tds = [dev[s].tds EXCEPT ![k] = n]
    BY <1>0, <2>2, PendingType
  <2>4. \A u \in Transfers \ {k} : dev'[s].tds[u] = dev[s].tds[u]
    BY <1>0, <2>3 DEF Devices
  <2>5. dev'[s].alloc = dev[s].alloc
    BY <1>0, <2>2, PendingAlloc
  <2> QED
    BY <1>8, <2>2, <2>3, <2>4, <2>5 DEF Ended, SameSteps
<1>9. ~(BootPort \/ WriteReset \/ OnPortStatusChange)
  BY DEF BootPort, WriteReset, OnPortStatusChange, OnPlugged, OnPortReset, Ignore, driverVars
<1>10. ~(ExecEnableSlot \/ ExecConfigureEndpoint \/ FailCommand \/ UNCHANGED vars)
  BY DEF ExecEnableSlot, ExecConfigureEndpoint, FailCommand, driverVars, vars
<1>11. ASSUME NEW q \in Ports PROVE ~(PlugIn(q) \/ PullOut(q) \/ ResetDone(q))
  BY DEF PlugIn, PullOut, ResetDone, driverVars
<1> QED
  BY <1>2, <1>3, <1>4, <1>5, <1>6, <1>7, <1>8, <1>9, <1>10, <1>11 DEF Next, Driver, ExecCommand

LEMMA AllocStays ==
  ASSUME QInv, [Next]_vars, NEW s \in 0 .. NumSlots, dev[s].alloc
  PROVE  dev'[s].alloc
BY DeviceSource

LEMMA DcbaaStays ==
  ASSUME QInv, [Next]_vars, NEW s \in 0 .. NumSlots, dcbaa[s] = "device"
  PROVE  dcbaa'[s] = "device"
<1>0. dcbaa \in [0 .. NumSlots -> DcbaaEntries]
  BY DEF QInv, IInv, TypeOK
<1>1. CASE ~Driver
  BY <1>1, Hardware
<1>2. CASE OnEnableSlot
  BY <1>0, <1>2 DEF OnEnableSlot, LoadDCBAA, Ignore, driverVars
<1>3. CASE Driver /\ ~OnEnableSlot
  BY <1>3 DEF Driver, BootPort, WriteReset, FinishReset, OnPortStatusChange, OnPlugged, OnPortReset,
     OnAddressDevice, OnConfigureEndpoint, OnTransfer, Ignore, driverVars
<1> QED
  BY <1>1, <1>2, <1>3

(* A command stays until it is executed, and then there is its event.      *)
LEMMA CommandStays ==
  ASSUME QInv, [Next]_vars, NEW c \in Items(cmds)
  PROVE  \/ c \in Items(cmds')
         \/ \E e \in Items(events') :
              /\ e.type = "Command" /\ e.of = c.kind
              /\ c.kind # "EnableSlot" => e.slot = c.slot
<1>0. /\ cmds \in Seq(CommandTRBs) /\ events \in Seq(Events) /\ Items(cmds) \subseteq CommandTRBs
      /\ Slots \subseteq 0 .. NumSlots
  BY QueueTypes DEF QInv
<1>1. cmds # <<>>
  BY <1>0 DEF Items
<1>2. CASE ExecCommand
  <2>1. PICK h : h = Head(cmds)
    OBVIOUS
  <2>2. h \in CommandTRBs /\ h.kind \in Commands /\ h.slot \in 0 .. NumSlots
    BY <1>1, <2>1, CommandType DEF QInv, IInv, CommandTRBs
  <2>3. \E s \in 0 .. NumSlots, ok \in BOOLEAN :
          /\ Complete(s, ok)
          /\ h.kind # "EnableSlot" => s = h.slot
    BY <1>0, <1>2, <2>1, <2>2 DEF ExecCommand, ExecEnableSlot, ExecAddressDevice,
       ExecConfigureEndpoint, FailCommand
  <2>4. PICK s \in 0 .. NumSlots, ok \in BOOLEAN :
          /\ Complete(s, ok)
          /\ h.kind # "EnableSlot" => s = h.slot
    BY <2>3
  <2>5. PICK x : x = CommandEvent(h.kind, s, ok)
    OBVIOUS
  <2>6. x \in Events /\ x.type = "Command" /\ x.of = h.kind /\ x.slot = s
    BY <2>2, <2>5, CommandEventType DEF CommandEvent
  <2>7. cmds' = Tail(cmds) /\ events' = Append(events, x)
    BY <2>1, <2>4, <2>5 DEF Complete
  <2>8. x \in Items(events')
    BY <1>0, <2>6, <2>7, ItemsOfAppend
  <2>9. c \in Items(cmds') \/ c = h
    BY <1>0, <1>1, <2>1, <2>7, ItemsOfHead
  <2> QED
    BY <2>4, <2>6, <2>8, <2>9
<1>3. CASE cmds' = cmds
  BY <1>3
<1>4. ASSUME NEW x \in CommandTRBs, cmds' = Append(cmds, x) PROVE c \in Items(cmds')
  BY <1>0, <1>4, ItemsOfAppend
<1>5. ASSUME OnPortStatusChange, cmds' # cmds PROVE c \in Items(cmds')
  <2>1. cmds' = Append(cmds, [kind |-> "EnableSlot", slot |-> 0, port |-> 0])
    BY <1>5 DEF OnPortStatusChange, OnPlugged, OnPortReset, Ignore, Ring
  <2>2. [kind |-> "EnableSlot", slot |-> 0, port |-> 0] \in CommandTRBs
    BY PortConfigAssumption DEF CommandTRBs, Commands
  <2> QED
    BY <1>4, <2>1, <2>2
<1>6. ASSUME OnEnableSlot \/ OnTransfer, cmds' # cmds PROVE c \in Items(cmds')
  <2>1. \/ cmds' = Append(cmds, [kind |-> "AddressDevice", slot |-> Front.slot, port |-> addressing])
        \/ cmds' = Append(cmds, [kind |-> "ConfigureEndpoint", slot |-> Front.slot, port |-> 0])
    BY <1>6 DEF OnEnableSlot, OnTransfer, ConfigureEndpoints, Ignore, Ring
  <2>2. Front.slot \in 0 .. NumSlots /\ addressing \in 0 .. NumPorts
    BY <1>6, FrontSlot, QueueTypes DEF OnEnableSlot, OnTransfer, QInv
  <2>3. /\ [kind |-> "AddressDevice", slot |-> Front.slot, port |-> addressing] \in CommandTRBs
        /\ [kind |-> "ConfigureEndpoint", slot |-> Front.slot, port |-> 0] \in CommandTRBs
    BY <2>2, PortConfigAssumption DEF CommandTRBs, Commands
  <2> QED
    BY <1>4, <2>1, <2>3
<1>7. ASSUME Driver, cmds' # cmds PROVE OnEnableSlot \/ OnPortStatusChange \/ OnTransfer
  BY <1>7 DEF Driver, BootPort, WriteReset, FinishReset, OnAddressDevice, OnConfigureEndpoint,
     Ignore, hwVars
<1>8. ASSUME NEW q \in Ports, PlugIn(q) \/ PullOut(q) \/ ResetDone(q) PROVE cmds' = cmds
  BY <1>8 DEF PlugIn, PullOut, ResetDone
<1>9. ASSUME NEW t \in Slots, NEW k \in Transfers, CompleteTransfer(t, k)
      PROVE  cmds' = cmds
  BY <1>9 DEF CompleteTransfer
<1>10. UNCHANGED vars => cmds' = cmds
  BY DEF vars, hwVars
<1> QED
  BY <1>2, <1>3, <1>5, <1>6, <1>7, <1>8, <1>9, <1>10 DEF Next

-----------------------------------------------------------------------------
(* The addressing sequence: what is rung in works, and comes back. *)

CommandsReal ==
  \A c \in Items(cmds) :
    /\ c.kind # "AddressDevice" => c.port = 0
    /\ c.kind = "AddressDevice" =>
         /\ c.slot \in Slots /\ slot[c.slot] = "Enabled"
         /\ dcbaa[c.slot] = "device" /\ dev[c.slot].alloc

EventsReal ==
  \A e \in Items(events) : e.type = "Command" =>
    /\ e.of = "EnableSlot" => e.slot \in Slots /\ slot[e.slot] = "Enabled"
    /\ e.of = "AddressDevice" /\ ~HandingOver =>
         e.slot \in Slots /\ dev[e.slot].alloc /\ dev[e.slot].port = addressing

SequenceInv == CommandsReal /\ EventsReal

(* No command of the driver fails by itself: there is a slot for every     *)
(* port, its context is published before it is addressed, and the device   *)
(* at the port is in the default state.                                    *)
LEMMA CommandsWork ==
  ASSUME Undisturbed, NumSlots >= NumPorts, QInv, SlotsInv, RealInv, PortsInv, SequenceInv
  PROVE  ~FailCommand
<1> SUFFICES ASSUME FailCommand PROVE FALSE
  OBVIOUS
<1>1. PICK c : c = Head(cmds)
  OBVIOUS
<1>2. c \in Items(cmds) /\ c.kind \in Commands /\ cmds # <<>>
  BY <1>1, QueueTypes, ItemsOfTail, CommandType DEF QInv, IInv, FailCommand, CommandTRBs
<1>3. ~Works(c)
  BY <1>1, Quiet
<1>4. c.kind # "ConfigureEndpoint"
  BY <1>1, ConfigureWorks
<1>5. CASE c.kind = "EnableSlot"
  <2>1. \E s \in Slots : slot[s] = "Disabled"
    BY <1>2, <1>5, SlotFree DEF EnablePending
  <2> QED
    BY <1>3, <1>5, <2>1 DEF Works
<1>6. CASE c.kind = "AddressDevice"
  <2>1. c.slot \in Slots /\ slot[c.slot] = "Enabled" /\ dcbaa[c.slot] = "device"
    BY <1>2, <1>6 DEF SequenceInv, CommandsReal
  <2>2. c.port = addressing /\ phase[addressing] = "AddressingDevice"
    BY <1>2, <1>6 DEF QInv, QueueInv, CommandInv
  <2>3. addressing \in Ports
    BY <2>2, QueueTypes DEF QInv, Ports
  <2>4. portsc[addressing].ped
    BY <2>2, <2>3 DEF PortsInv, BitsInv, Untouched
  <2> QED
    BY <1>3, <1>6, <2>1, <2>2, <2>4 DEF Works, Slots
<1> QED
  BY <1>2, <1>4, <1>5, <1>6 DEF Commands

LEMMA CommandsRealStep ==
  ASSUME QInv, SequenceInv, [Next]_vars
  PROVE  CommandsReal'
<1> SUFFICES ASSUME NEW c \in Items(cmds')
             PROVE  /\ c.kind # "AddressDevice" => c.port = 0
                    /\ c.kind = "AddressDevice" =>
                         /\ c.slot \in Slots /\ slot'[c.slot] = "Enabled"
                         /\ dcbaa'[c.slot] = "device" /\ dev'[c.slot].alloc
  BY DEF CommandsReal
<1>0. Slots \subseteq 0 .. NumSlots
  BY QueueTypes DEF QInv
<1>1. CASE c \in Items(cmds) /\ c.kind # "AddressDevice"
  BY <1>1 DEF SequenceInv, CommandsReal
<1>2. CASE c \in Items(cmds) /\ c.kind = "AddressDevice"
  <2>1. /\ c.slot \in Slots /\ slot[c.slot] = "Enabled"
        /\ dcbaa[c.slot] = "device" /\ dev[c.slot].alloc
    BY <1>2 DEF SequenceInv, CommandsReal
  <2>2. ~ExecAddressDevice
    <3> SUFFICES ASSUME ExecAddressDevice PROVE FALSE
      OBVIOUS
    <3>1. PICK h : h = Head(cmds)
      OBVIOUS
    <3>2. h.kind = "AddressDevice" /\ h.slot \in 0 .. NumSlots /\ Complete(h.slot, TRUE) /\ cmds # <<>>
      BY <3>1, CommandType DEF ExecAddressDevice, QInv, IInv, CommandTRBs
    <3>3. \A y \in Items(cmds') : y.kind = "ConfigureEndpoint"
      BY <3>1, <3>2, CompleteStep
    <3> QED
      BY <1>2, <3>3
  <2>3. slot'[c.slot] = "Enabled"
    BY <2>1, <2>2, SlotSource
  <2> QED
    BY <1>0, <1>2, <2>1, <2>3, AllocStays, DcbaaStays
<1>3. CASE c = [kind |-> "EnableSlot", slot |-> 0, port |-> 0]
  BY <1>3
<1>4. CASE c = [kind |-> "ConfigureEndpoint", slot |-> Front.slot, port |-> 0]
  BY <1>4
<1>5. CASE /\ OnEnableSlot /\ phase[addressing] = "EnablingSlot"
           /\ c = [kind |-> "AddressDevice", slot |-> Front.slot, port |-> addressing]
  <2>0. PICK s : s = Front.slot
    OBVIOUS
  <2>1. Front \in Items(events) /\ Front.type = "Command" /\ Front.of = "EnableSlot"
    BY <1>5, FrontSlot DEF OnEnableSlot
  <2>2. s \in Slots /\ slot[s] = "Enabled"
    BY <2>0, <2>1 DEF SequenceInv, EventsReal
  <2>3. /\ dev' = [dev EXCEPT ![s] = [dev[s] EXCEPT !.alloc = TRUE]]
        /\ dcbaa' = [dcbaa EXCEPT ![s] = "device"] /\ slot' = slot
    BY <1>5, <2>0 DEF OnEnableSlot, LoadDCBAA
  <2>4. /\ dev \in [0 .. NumSlots -> Devices] /\ dcbaa \in [0 .. NumSlots -> DcbaaEntries]
        /\ s \in 0 .. NumSlots
    BY <1>0, <2>2, QueueTypes DEF QInv, IInv, TypeOK
  <2>5. PICK d : d = [dev[s] EXCEPT !.alloc = TRUE]
    OBVIOUS
  <2>6. d.alloc
    BY <2>4, <2>5 DEF Devices
  <2>7. dev'[s] = d /\ dcbaa'[s] = "device"
    BY <2>3, <2>4, <2>5
  <2> QED
    BY <1>5, <2>0, <2>2, <2>3, <2>6, <2>7
<1> QED
  BY <1>1, <1>2, <1>3, <1>4, <1>5, CommandSource

(* The critical section does not change hands while the command that       *)
(* addresses the device is on its way back, unless its handler runs.       *)
LEMMA HolderWaits ==
  ASSUME QInv, [Next]_vars, phase[addressing] = "AddressingDevice", ~OnAddressDevice
  PROVE  addressing' = addressing
<1>1. addressing # 0
  BY QueueTypes DEF QInv
<1>2. CASE ~Driver
  BY <1>2, Hardware
<1>3. CASE BootPort
  BY <1>1, <1>3 DEF BootPort, Idle, Queue
<1>4. CASE Driver /\ ~BootPort
  BY <1>1, <1>4 DEF Driver, WriteReset, FinishReset, OnPortStatusChange, OnPlugged, Idle, Queue,
     OnPortReset, OnEnableSlot, OnConfigureEndpoint, OnTransfer, Ignore, driverVars
<1> QED
  BY <1>2, <1>3, <1>4

(* When the handler of AddressDevice is done, so is the sequence.          *)
LEMMA AddressedEvents ==
  ASSUME QInv, events # <<>>, Front.type = "Command", Front.of = "AddressDevice",
         NEW e \in Items(Tail(events)), e.type = "Command"
  PROVE  e.of = "ConfigureEndpoint"
BY OnlySequence

LEMMA EventsRealStep ==
  ASSUME Undisturbed, NumSlots >= NumPorts, QInv, SlotsInv, RealInv, PortsInv, SequenceInv,
         [Next]_vars
  PROVE  EventsReal'
<1> SUFFICES ASSUME NEW e \in Items(events'), e.type = "Command"
             PROVE  /\ e.of = "EnableSlot" => e.slot \in Slots /\ slot'[e.slot] = "Enabled"
                    /\ e.of = "AddressDevice" /\ ~HandingOver' =>
                         /\ e.slot \in Slots /\ dev'[e.slot].alloc
                         /\ dev'[e.slot].port = addressing'
  BY DEF EventsReal
<1>0. Slots \subseteq 0 .. NumSlots
  BY QueueTypes DEF QInv
<1>1. ASSUME e \in Items(events), e.of = "EnableSlot"
      PROVE  e.slot \in Slots /\ slot'[e.slot] = "Enabled"
  <2>1. e.slot \in Slots /\ slot[e.slot] = "Enabled"
    BY <1>1 DEF SequenceInv, EventsReal
  <2>2. phase[addressing] = "EnablingSlot"
    BY <1>1 DEF QInv, QueueInv, EventInv
  <2>3. ~ExecAddressDevice
    <3>1. ExecAddressDevice => Head(cmds) \in Items(cmds) /\ Head(cmds).kind = "AddressDevice"
      BY QueueTypes, ItemsOfTail DEF QInv, ExecAddressDevice
    <3> QED
      BY <2>2, <3>1 DEF QInv, QueueInv, CommandInv
  <2> QED
    BY <2>1, <2>3, SlotSource
<1>2. ASSUME e \in Items(events), e.of = "AddressDevice", ~HandingOver'
      PROVE  e.slot \in Slots /\ dev'[e.slot].alloc /\ dev'[e.slot].port = addressing'
  <2>1. ~(events # <<>> /\ events' = Tail(events) /\ Front.type = "Command"
          /\ Front.of = "AddressDevice")
    BY <1>2, AddressedEvents
  <2>2. ~HandingOver
    <3> SUFFICES ASSUME HandingOver PROVE FALSE
      OBVIOUS
    <3>1. ~(~Driver) /\ ~WriteReset
      BY <1>2, Hardware DEF HandingOver, Resetting, WriteReset
    <3>2. FinishReset
      BY <3>1, ResetGoesOn DEF HandingOver, Resetting
    <3>3. events # <<>> /\ Front.type = "Command" /\ Front.of = "AddressDevice"
      BY DEF Front, HandingOver, QInv, QueueInv, HandOverInv, IInv, ControlInv, ResetInv
    <3>4. events' = Tail(events)
      BY <3>2 DEF HandingOver, FinishReset, Pop
    <3> QED
      BY <2>1, <3>3, <3>4
  <2>3. e.slot \in Slots /\ dev[e.slot].alloc /\ dev[e.slot].port = addressing
    BY <1>2, <2>2 DEF SequenceInv, EventsReal
  <2>4. phase[addressing] = "AddressingDevice"
    BY <1>2, <2>2 DEF QInv, QueueInv, EventInv
  <2>5. addressing # 0
    BY <2>4, QueueTypes DEF QInv
  <2>6. ~OnAddressDevice
    <3> SUFFICES ASSUME OnAddressDevice PROVE FALSE
      OBVIOUS
    <3>1. events # <<>> /\ Front.type = "Command" /\ Front.of = "AddressDevice"
      BY DEF OnAddressDevice, HasEvent
    <3>2. events' = Tail(events) \/ (pc' = "Reset" /\ after'.to = "Init")
      BY DEF OnAddressDevice, BeginReset, Pop
    <3> QED
      BY <1>2, <2>1, <3>1, <3>2 DEF HandingOver, Resetting
  <2>7. addressing' = addressing
    BY <2>4, <2>6, HolderWaits
  <2>8. dev'[e.slot].port = dev[e.slot].port
    BY <1>0, <2>3, <2>5, PortStays
  <2> QED
    BY <1>0, <2>3, <2>7, <2>8, AllocStays
<1>3. ASSUME NEW s \in Slots, slot'[s] = "Enabled", e = CommandEvent("EnableSlot", s, TRUE)
      PROVE  e.of = "EnableSlot" /\ e.slot \in Slots /\ slot'[e.slot] = "Enabled"
  BY <1>3 DEF CommandEvent
<1>4. ASSUME ExecAddressDevice, e = CommandEvent("AddressDevice", Head(cmds).slot, TRUE)
      PROVE  /\ e.of = "AddressDevice" /\ e.slot \in Slots /\ dev'[e.slot].alloc
             /\ dev'[e.slot].port = addressing'
  <2>0. PICK c : c = Head(cmds)
    OBVIOUS
  <2>1. /\ c \in Items(cmds) /\ c.kind = "AddressDevice" /\ c.slot \in Slots
        /\ UNCHANGED <<phase, addressing>>
        /\ dev' = [dev EXCEPT ![c.slot] = [dev[c.slot] EXCEPT !.port = c.port]]
    BY <1>4, <2>0, ExecAddress, QueueTypes, ItemsOfTail
       DEF QInv, IInv, ExecAddressDevice, Slots
  <2>2. c.port = addressing
    BY <2>1 DEF QInv, QueueInv, CommandInv
  <2>3. dev[c.slot].alloc
    BY <2>1 DEF SequenceInv, CommandsReal
  <2>4. dev \in [0 .. NumSlots -> Devices] /\ c.slot \in 0 .. NumSlots
    BY <1>0, <2>1, QueueTypes DEF QInv
  <2>5. PICK d : d = [dev[c.slot] EXCEPT !.port = c.port]
    OBVIOUS
  <2>6. d.port = c.port
    BY <2>4, <2>5 DEF Devices
  <2>7. dev'[c.slot] = d
    BY <2>1, <2>4, <2>5
  <2>8. e.of = "AddressDevice" /\ e.slot = c.slot
    BY <1>4, <2>0 DEF CommandEvent
  <2> QED
    BY <2>1, <2>2, <2>3, <2>4, <2>6, <2>7, <2>8, AllocStays
<1>5. ASSUME e = CommandEvent("ConfigureEndpoint", Head(cmds).slot, TRUE)
      PROVE  e.of = "ConfigureEndpoint"
  BY <1>5 DEF CommandEvent
<1>6. ~FailCommand
  BY CommandsWork
<1>7. ASSUME NEW s \in Slots, NEW t \in Transfers, NEW ok \in BOOLEAN, e = TransferEvent(t, s, ok)
      PROVE  FALSE
  BY <1>7 DEF TransferEvent
<1> QED
  BY <1>1, <1>2, <1>3, <1>4, <1>5, <1>6, <1>7, EventSource

LEMMA SequenceStep ==
  ASSUME Undisturbed, NumSlots >= NumPorts, QInv, SlotsInv, RealInv, PortsInv, SequenceInv,
         [Next]_vars
  PROVE  SequenceInv'
BY CommandsRealStep, EventsRealStep DEF SequenceInv

(* The sequence of a port that is not in reset is under way. *)
Rung(k)     == \E c \in Items(cmds) : c.kind = k
Returned(k) == \E e \in Items(events) : e.type = "Command" /\ e.of = k

SequenceOwed ==
  /\ phase[addressing] = "EnablingSlot" => Rung("EnableSlot") \/ Returned("EnableSlot")
  /\ phase[addressing] = "AddressingDevice" => Rung("AddressDevice") \/ Returned("AddressDevice")

(* What is on its way stays there until its handler runs. *)
LEMMA OwedStays ==
  ASSUME QInv, [Next]_vars, NEW k, Rung(k) \/ Returned(k), ~Resetting
  PROVE  \/ Rung(k)' \/ Returned(k)'
         \/ HasEvent /\ Driver /\ Front \in Items(events) /\ Front.type = "Command" /\ Front.of = k
<1>1. CASE Rung(k)
  <2>1. PICK c \in Items(cmds) : c.kind = k
    BY <1>1 DEF Rung
  <2> QED
    BY <2>1, CommandStays DEF Rung, Returned
<1>2. CASE Returned(k)
  <2>1. PICK e \in Items(events) : e.type = "Command" /\ e.of = k
    BY <1>2 DEF Returned
  <2>2. ~FinishReset
    BY DEF FinishReset, Resetting
  <2> QED
    BY <2>1, <2>2, EventStays DEF Returned
<1> QED
  BY <1>1, <1>2

LEMMA EnableOwedStep ==
  ASSUME QInv, SequenceOwed, [Next]_vars, phase'[addressing'] = "EnablingSlot"
  PROVE  Rung("EnableSlot")' \/ Returned("EnableSlot")'
<1>0. PICK p : p = addressing'
  OBVIOUS
<1>1. p \in Ports
  <2>1. IInv'
    BY QueueStep DEF QInv
  <2> QED
    BY <1>0, <2>1 DEF IInv, TypeOK, ControlInv, Ports
<1>2. p \in 0 .. NumPorts /\ phase \in [0 .. NumPorts -> Phases]
  BY <1>1, QueueTypes DEF QInv, Ports
<1>3. CASE phase[p] = "EnablingSlot"
  <2>1. p = addressing /\ ~Resetting
    BY <1>1, <1>3 DEF QInv, IInv, ControlInv, AddressingExclusive, InSequence, Leaving, ResetInv,
       Resetting
  <2>2. ~(HasEvent /\ Driver /\ Front.type = "Command" /\ Front.of = "EnableSlot")
    <3> SUFFICES ASSUME HasEvent, Driver, Front.type = "Command", Front.of = "EnableSlot" PROVE FALSE
      OBVIOUS
    <3>1. OnEnableSlot
      BY DEF Driver, HasEvent, BootPort, WriteReset, FinishReset, OnPortStatusChange,
         OnAddressDevice, OnConfigureEndpoint, OnTransfer
    <3>2. phase' = [phase EXCEPT ![p] = "AddressingDevice"]
      BY <1>3, <2>1, <3>1 DEF OnEnableSlot
    <3> QED
      BY <1>0, <1>2, <3>2
  <2> QED
    BY <1>3, <2>1, <2>2, OwedStays DEF SequenceOwed
<1>4. CASE phase[p] # "EnablingSlot"
  <2>1. phase[p] = "ResettingPort"
    BY <1>0, <1>2, <1>4, PhaseStep DEF QInv, Successor
  <2>2. OnPortReset(p)
    BY <1>0, <1>1, <2>1, EnableSource
  <2>3. PICK x : x = [kind |-> "EnableSlot", slot |-> 0, port |-> 0]
    OBVIOUS
  <2>4. cmds' = Append(cmds, x) /\ x.kind = "EnableSlot"
    BY <2>2, <2>3 DEF OnPortReset, Ring
  <2>5. x \in CommandTRBs
    BY <2>3, PortConfigAssumption DEF CommandTRBs, Commands
  <2>6. x \in Items(cmds')
    BY <2>4, <2>5, QueueTypes, ItemsOfAppend DEF QInv
  <2> QED
    BY <2>4, <2>6 DEF Rung
<1> QED
  BY <1>3, <1>4

(* The next phase is that of the command OnEnableSlot rings in. *)
LEMMA AddressSource ==
  ASSUME QInv, [Next]_vars, NEW p \in Ports,
         phase[p] = "EnablingSlot", phase'[p] # "EnablingSlot"
  PROVE  OnEnableSlot /\ phase[addressing] = "EnablingSlot"
<1>0. /\ phase \in [0 .. NumPorts -> Phases] /\ phase[0] = "NotConnected" /\ p \in 0 .. NumPorts
  BY QueueTypes DEF QInv
<1>1. ~BootPort
  <2> SUFFICES ASSUME BootPort PROVE FALSE
    OBVIOUS
  <2>1. bootPort \in Ports /\ phase[bootPort] = "NotConnected"
    BY DEF BootPort, QInv, IInv, ControlInv, BootInv, Ports
  <2> QED
    BY <1>0, <2>1 DEF BootPort, BeginReset, Queue
<1>2. ~FinishReset
  <2> SUFFICES ASSUME FinishReset PROVE FALSE
    OBVIOUS
  <2>1. after.to = "Init" => phase[after.port] = "AddressingDevice"
    BY DEF FinishReset, QInv, IInv, ControlInv, ResetInv, Resetting
  <2> QED
    BY <1>0, <2>1 DEF FinishReset
<1>3. ~OnPortStatusChange
  BY <1>0 DEF OnPortStatusChange, OnPlugged, IsFresh, OnPortReset, BeginReset, Queue, Ignore,
     driverVars
<1>4. ~OnAddressDevice
  BY <1>0 DEF OnAddressDevice, BeginReset, HandsOver, IsLowest, WaitingPorts
<1>5. ~OnConfigureEndpoint
  BY <1>0 DEF OnConfigureEndpoint, Ignore, driverVars
<1>6. ~OnTransfer
  BY <1>0 DEF OnTransfer, ConfigureEndpoints, NeedsEndpoints, Ignore, driverVars
<1>7. ~WriteReset
  BY DEF WriteReset
<1>8. Driver
  BY Hardware
<1> QED
  BY <1>1, <1>2, <1>3, <1>4, <1>5, <1>6, <1>7, <1>8 DEF Driver, OnEnableSlot, Ignore, driverVars

LEMMA AddressOwedStep ==
  ASSUME QInv, SequenceInv, SequenceOwed, [Next]_vars, phase'[addressing'] = "AddressingDevice"
  PROVE  Rung("AddressDevice")' \/ Returned("AddressDevice")'
<1>0. PICK p : p = addressing'
  OBVIOUS
<1>1. p \in Ports
  <2>1. IInv'
    BY QueueStep DEF QInv
  <2> QED
    BY <1>0, <2>1 DEF IInv, TypeOK, ControlInv, Ports
<1>2. p \in 0 .. NumPorts /\ phase \in [0 .. NumPorts -> Phases]
  BY <1>1, QueueTypes DEF QInv, Ports
<1>3. CASE phase[p] = "AddressingDevice"
  <2>1. ~Resetting
    <3> SUFFICES ASSUME Resetting PROVE FALSE
      OBVIOUS
    <3>1. p # addressing
      BY <1>3 DEF QInv, IInv, ControlInv, ResetInv
    <3>2. addressing' = addressing
      <4>1. CASE ~Driver
        BY <4>1, Hardware
      <4>2. CASE Driver
        BY <4>2, ResetGoesOn DEF Resetting, WriteReset, FinishReset
      <4> QED
        BY <4>1, <4>2
    <3> QED
      BY <1>0, <3>1, <3>2
  <2>2. p = addressing
    BY <1>1, <1>3, <2>1 DEF QInv, IInv, ControlInv, AddressingExclusive, InSequence, Leaving,
       Resetting
  <2>3. ASSUME HasEvent, Driver, Front \in Items(events), Front.type = "Command",
               Front.of = "AddressDevice"
        PROVE  FALSE
    <3>1. OnAddressDevice
      BY <2>3 DEF Driver, HasEvent, BootPort, WriteReset, FinishReset, OnPortStatusChange,
         OnEnableSlot, OnConfigureEndpoint, OnTransfer
    <3>2. PICK s : s = Front.slot
      OBVIOUS
    <3>3. dev[s].alloc /\ dev[s].port = addressing
      BY <2>1, <2>3, <3>2 DEF SequenceInv, EventsReal, HandingOver
    <3>4. HandsOver(s)
      BY <1>3, <2>2, <3>3 DEF HandsOver
    <3>5. \/ \E w \in WaitingPorts : addressing' = w
          \/ addressing' = 0
      BY <3>1, <3>2, <3>4 DEF OnAddressDevice, BeginReset
    <3> QED
      BY <1>0, <1>1, <1>3, <3>5 DEF WaitingPorts, Ports
  <2> QED
    BY <1>3, <2>1, <2>2, <2>3, OwedStays DEF SequenceOwed
<1>4. CASE phase[p] # "AddressingDevice"
  <2>1. phase[p] = "EnablingSlot"
    BY <1>0, <1>2, <1>4, PhaseStep DEF QInv, Successor
  <2>2. OnEnableSlot /\ phase[addressing] = "EnablingSlot"
    BY <1>0, <1>1, <2>1, AddressSource
  <2>3. PICK x : x = [kind |-> "AddressDevice", slot |-> Front.slot, port |-> addressing]
    OBVIOUS
  <2>4. cmds' = Append(cmds, x) /\ x.kind = "AddressDevice"
    BY <2>2, <2>3 DEF OnEnableSlot, Ring
  <2>5. x \in CommandTRBs
    <3>1. Front.slot \in 0 .. NumSlots /\ addressing \in 0 .. NumPorts
      BY <2>2, FrontSlot, QueueTypes DEF OnEnableSlot, QInv
    <3> QED
      BY <2>3, <3>1 DEF CommandTRBs, Commands
  <2>6. x \in Items(cmds')
    BY <2>4, <2>5, QueueTypes, ItemsOfAppend DEF QInv
  <2> QED
    BY <2>4, <2>6 DEF Rung
<1> QED
  BY <1>3, <1>4

LEMMA OwedStep ==
  ASSUME QInv, SequenceInv, SequenceOwed, [Next]_vars
  PROVE  SequenceOwed'
BY EnableOwedStep, AddressOwedStep DEF SequenceOwed

-----------------------------------------------------------------------------
(* A device past its address: the transfer or the command it waits for *)

(* What the device d does something about. *)
Expects(d, t) ==
  \/ t = "DeviceDesc" /\ d.init = 1
  \/ t = "ConfigDesc" /\ d.init = 2
  \/ t = "SetConfig" /\ d.init = 3
  \/ t = "SetProtocol" /\ d.init = 4 /\ d.hid = 1
  \/ t = "InterruptIn"

Awaits(d) == \E t \in Transfers : d.tds[t] > 0 /\ Expects(d, t)

EndpointsOwed(s) ==
  \/ \E c \in Items(cmds) : c.kind = "ConfigureEndpoint" /\ c.slot = s
  \/ \E e \in Items(events) : e.type = "Command" /\ e.of = "ConfigureEndpoint" /\ e.slot = s

AnswerDue(s) ==
  \E e \in Items(events) : e.type = "Transfer" /\ e.slot = s /\ e.ok /\ Expects(dev[s], e.of)

ReportOwed(s) ==
  \/ Awaits(dev[s])
  \/ AnswerDue(s)
  \/ dev[s].port \notin HidPorts /\ dev[s].init = 2

(* A device that has got beyond its configuration descriptor is one the    *)
(* kernel has a driver for.                                                *)
Known(d) == d.init \in {3, 4} => d.port \in HidPorts

Transferring(s) == InPhase(s, "InitializingDevice") \/ InPhase(s, "Configured")

DeviceReal(s) ==
  /\ dev[s].alloc
  /\ InPhase(s, "AddressingDevice") \/ Known(dev[s])
  /\ InPhase(s, "ConfiguringEndpoints") => dev[s].init = 4 /\ EndpointsOwed(s)
  /\ Transferring(s) => ReportOwed(s)

DevicesInv == \A s \in Slots : dev[s].port # 0 => DeviceReal(s)

(* The event a handler that resets a port returns to is not one of these.  *)
LEMMA EventTaken ==
  ASSUME QInv, PortsInv, [Next]_vars, NEW e \in Items(events),
         e.type = "Transfer" \/ (e.type = "Command" /\ e.of = "ConfigureEndpoint")
  PROVE  \/ e \in Items(events')
         \/ HasEvent /\ Driver /\ e = Front /\ events' = Tail(events)
<1>1. ASSUME FinishReset, after.to # "Boot", e = Front PROVE FALSE
  <2>1. after.to \in {"Loop", "Init"} /\ Resetting
    BY <1>1 DEF QInv, IInv, TypeOK, Continuations, FinishReset, Resetting
  <2>2. CASE after.to = "Loop"
    BY <1>1, <2>1, <2>2 DEF PortsInv, LoopInv, Front
  <2>3. CASE after.to = "Init"
    BY <1>1, <2>1, <2>3 DEF QInv, QueueInv, HandOverInv, HandingOver, Front
  <2> QED
    BY <2>1, <2>2, <2>3
<1> QED
  BY <1>1, EventStays

(* A device in one of these phases is in nobody's way but its own. *)
LEMMA DeviceSteps ==
  ASSUME QInv, [Next]_vars, NEW s \in Slots, dev[s].port # 0, ~InPhase(s, "AddressingDevice")
  PROVE  \/ dev'[s] = dev[s]
         \/ OnEnableSlot /\ SameSteps(s) /\ dev'[s].tds = dev[s].tds
         \/ /\ OnConfigureEndpoint /\ InPhase(s, "ConfiguringEndpoints")
            /\ dev'[s] = ClassStarted(dev[s])
         \/ /\ OnTransfer /\ s = Front.slot /\ Front.ok /\ dev[s].alloc
            /\ dev'[s] = Reaction(dev[s], Front.of)
         \/ \E t \in Transfers : Ended(s, t)
<1>1. s \in 0 .. NumSlots
  BY QueueTypes DEF QInv
<1>2. ~(ExecAddressDevice /\ s = Head(cmds).slot)
  <2> SUFFICES ASSUME ExecAddressDevice, s = Head(cmds).slot PROVE FALSE
    OBVIOUS
  <2>1. slot[s] = "Enabled"
    BY DEF ExecAddressDevice, Works
  <2> QED
    BY <1>1, <2>1 DEF QInv, QueueInv, ContextInv
<1> QED
  BY <1>1, <1>2, DeviceSource

(* What is asked for is awaited. *)
LEMMA AskAwaits ==
  ASSUME NEW d \in Devices, NEW t \in Transfers, NEW n \in Nat \ {0}, Expects(d, t)
  PROVE  Awaits(Ask(d, t, n)) /\ Ask(d, t, n).init = d.init /\ Ask(d, t, n).port = d.port
<1>1. PICK e : e = Ask(d, t, n)
  OBVIOUS
<1>2. /\ e.port = d.port /\ e.init = d.init /\ e.hid = d.hid
      /\ e.tds = [d.tds EXCEPT ![t] = d.tds[t] + n]
  BY <1>1, AskType
<1>3. d.tds[t] \in Nat /\ d.tds \in [Transfers -> Nat]
  BY DEF Devices
<1>4. e.tds[t] > 0
  BY <1>2, <1>3
<1>5. Expects(e, t)
  BY <1>2 DEF Expects
<1> QED
  BY <1>1, <1>2, <1>4, <1>5 DEF Awaits

(* What a completed transfer makes of the steps of a device. *)
LEMMA ReactionAwaits ==
  ASSUME NEW d \in Devices, NEW t, Expects(d, t)
  PROVE  LET e == Reaction(d, t) IN
         \/ Awaits(e)
         \/ e.port \notin HidPorts /\ e.init = 2
         \/ t = "SetConfig" /\ e.init = 4
<1>0. /\ \A u \in {"DeviceDesc", "ConfigDesc", "SetConfig", "SetProtocol", "InterruptIn"} :
           u \in Transfers
      /\ 1 \in Nat \ {0} /\ 2 \in 0 .. 4 /\ 3 \in 0 .. 4 /\ 4 \in 0 .. 4 /\ 2 \in 0 .. 2
  BY DEF Transfers
<1>1. CASE t = "DeviceDesc" /\ d.init = 1
  <2>1. PICK c : c = [d EXCEPT !.init = 2]
    OBVIOUS
  <2>2. c \in Devices /\ Expects(c, "ConfigDesc")
    BY <1>0, <2>1, InitFieldType DEF Expects
  <2>3. Reaction(d, t) = Ask(c, "ConfigDesc", 1)
    BY <1>1, <2>1 DEF Reaction
  <2> QED
    BY <1>0, <2>2, <2>3, AskAwaits
<1>2. CASE t = "ConfigDesc" /\ d.init = 2 /\ d.port \in HidPorts
  <2>1. PICK c : c = [d EXCEPT !.init = 3]
    OBVIOUS
  <2>2. c \in Devices /\ Expects(c, "SetConfig")
    BY <1>0, <2>1, InitFieldType DEF Expects
  <2>3. Reaction(d, t) = Ask(c, "SetConfig", 1)
    BY <1>2, <2>1 DEF Reaction
  <2> QED
    BY <1>0, <2>2, <2>3, AskAwaits
<1>3. CASE t = "ConfigDesc" /\ d.init = 2 /\ d.port \notin HidPorts
  <2>1. Reaction(d, t) = d
    BY <1>3 DEF Reaction, DriverReaction
  <2> QED
    BY <1>3, <2>1
<1>4. CASE t = "SetConfig" /\ d.init = 3
  <2>1. PICK c : c = [d EXCEPT !.init = 4]
    OBVIOUS
  <2>2. c.init = 4
    BY <1>0, <2>1, InitFieldType
  <2>3. Reaction(d, t) = c
    BY <1>4, <2>1 DEF Reaction
  <2> QED
    BY <1>4, <2>2, <2>3
<1>5. CASE t = "SetProtocol" /\ d.init = 4 /\ d.hid = 1
  <2>1. PICK c : c = [d EXCEPT !.hid = 2]
    OBVIOUS
  <2>2. c \in Devices /\ Expects(c, "InterruptIn")
    BY <1>0, <2>1, HidFieldType DEF Expects
  <2>3. Reaction(d, t) = Ask(c, "InterruptIn", 1)
    BY <1>5, <2>1 DEF Reaction, DriverReaction
  <2> QED
    BY <1>0, <2>2, <2>3, AskAwaits
<1>6. CASE t = "InterruptIn"
  <2>1. Reaction(d, t) = Ask(d, "InterruptIn", 1)
    BY <1>6 DEF Reaction, DriverReaction
  <2> QED
    BY <1>0, <1>6, <2>1, AskAwaits
<1> QED
  BY <1>1, <1>2, <1>3, <1>4, <1>5, <1>6 DEF Expects

(* What it does not expect leaves a device as it is. *)
LEMMA ReactionIdle ==
  ASSUME NEW d \in Devices, NEW t, ~Expects(d, t)
  PROVE  Reaction(d, t) = d
BY DEF Reaction, DriverReaction, Expects

LEMMA ReactionEnd ==
  ASSUME NEW d \in Devices, NEW t
  PROVE  /\ d.init = 4 => Reaction(d, t).init = 4
         /\ d.init = 2 /\ d.port \notin HidPorts => Reaction(d, t).init = 2
         /\ Known(d) => Known(Reaction(d, t))
<1>0. /\ \A u \in {"ConfigDesc", "SetConfig", "InterruptIn"} : u \in Transfers
      /\ 1 \in Nat /\ 2 \in 0 .. 4 /\ 3 \in 0 .. 4 /\ 4 \in 0 .. 4 /\ 2 \in 0 .. 2
  BY DEF Transfers
<1>1. ASSUME NEW i \in 0 .. 4, NEW c, c = [d EXCEPT !.init = i]
      PROVE  /\ c.port = d.port /\ c.init = i
             /\ \A u \in Transfers : Ask(c, u, 1).port = d.port /\ Ask(c, u, 1).init = i
  <2>1. c \in Devices /\ c.port = d.port /\ c.init = i
    BY <1>1, InitFieldType
  <2> QED
    BY <1>0, <2>1, AskType
<1>2. ASSUME NEW c \in Devices, c.port = d.port, c.init = d.init, NEW u \in Transfers
      PROVE  Ask(c, u, 1).port = d.port /\ Ask(c, u, 1).init = d.init
  BY <1>0, <1>2, AskType
<1>3. PICK h : h = [d EXCEPT !.hid = 2]
  OBVIOUS
<1>4. DriverReaction(d, t).port = d.port /\ DriverReaction(d, t).init = d.init
  <2>1. h \in Devices /\ h.port = d.port /\ h.init = d.init
    BY <1>0, <1>3, HidFieldType
  <2>2. /\ Ask(h, "InterruptIn", 1).port = d.port /\ Ask(h, "InterruptIn", 1).init = d.init
        /\ Ask(d, "InterruptIn", 1).port = d.port /\ Ask(d, "InterruptIn", 1).init = d.init
    BY <1>0, <1>2, <2>1
  <2> QED
    BY <1>3, <2>2 DEF DriverReaction
<1>5. CASE t = "DeviceDesc" /\ d.init = 1
  <2>1. PICK c : c = [d EXCEPT !.init = 2]
    OBVIOUS
  <2>2. Ask(c, "ConfigDesc", 1).init = 2
    BY <1>0, <1>1, <2>1
  <2>3. Reaction(d, t) = Ask(c, "ConfigDesc", 1)
    BY <1>5, <2>1 DEF Reaction
  <2> QED
    BY <1>5, <2>2, <2>3 DEF Known
<1>6. CASE t = "ConfigDesc" /\ d.init = 2 /\ d.port \in HidPorts
  <2>1. PICK c : c = [d EXCEPT !.init = 3]
    OBVIOUS
  <2>2. Ask(c, "SetConfig", 1).port = d.port
    BY <1>0, <1>1, <2>1
  <2>3. Reaction(d, t) = Ask(c, "SetConfig", 1)
    BY <1>6, <2>1 DEF Reaction
  <2> QED
    BY <1>6, <2>2, <2>3 DEF Known
<1>7. CASE t = "SetConfig" /\ d.init = 3
  <2>1. PICK c : c = [d EXCEPT !.init = 4]
    OBVIOUS
  <2>2. c.port = d.port
    BY <1>0, <1>1, <2>1
  <2>3. Reaction(d, t) = c
    BY <1>7, <2>1 DEF Reaction
  <2> QED
    BY <1>7, <2>2, <2>3 DEF Known
<1>8. CASE /\ ~(t = "DeviceDesc" /\ d.init = 1)
           /\ ~(t = "ConfigDesc" /\ d.init = 2 /\ d.port \in HidPorts)
           /\ ~(t = "SetConfig" /\ d.init = 3)
  <2>1. Reaction(d, t) = DriverReaction(d, t)
    BY <1>8 DEF Reaction
  <2> QED
    BY <1>4, <2>1 DEF Known
<1> QED
  BY <1>5, <1>6, <1>7, <1>8

(* A slot whose port waits for its endpoints has been asked for them.      *)
LEMMA EndpointsStep ==
  ASSUME QInv, PortsInv, DevicesInv, [Next]_vars, NEW s \in Slots, InPhase(s, "ConfiguringEndpoints")'
  PROVE  dev'[s].init = 4 /\ EndpointsOwed(s)'
<1>0. /\ s \in 0 .. NumSlots /\ dev \in [0 .. NumSlots -> Devices] /\ dev[s] \in Devices
      /\ phase \in [0 .. NumPorts -> Phases]
  BY QueueTypes DEF QInv
<1>1. PICK p : p = dev'[s].port
  OBVIOUS
<1>2. p \in Ports /\ phase'[p] = "ConfiguringEndpoints"
  <2>1. IInv'
    BY QueueStep DEF QInv
  <2>2. dev'[s].port \in 0 .. NumPorts
    BY <1>0, <2>1 DEF IInv, TypeOK, Devices
  <2> QED
    BY <1>1, <2>2 DEF InPhase, Ports
<1>3. dev[s].port = p
  BY <1>0, <1>1, <1>2, PortSource
<1>4. dev[s].port # 0 /\ DeviceReal(s)
  BY <1>2, <1>3 DEF DevicesInv, Ports
<1>5. CASE phase[p] = "ConfiguringEndpoints"
  <2>1. InPhase(s, "ConfiguringEndpoints") /\ ~InPhase(s, "AddressingDevice")
    BY <1>3, <1>4, <1>5 DEF InPhase
  <2>2. dev[s].init = 4 /\ EndpointsOwed(s)
    BY <1>4, <2>1 DEF DeviceReal
  <2>3. dev'[s].init = 4
    <3>1. /\ ClassStarted(dev[s]).init = 4
          /\ \A of : Reaction(dev[s], of).init = 4
      BY <1>0, <2>2, ClassStartedType, ReactionEnd
    <3> QED
      BY <1>4, <2>1, <2>2, <3>1, DeviceSteps DEF SameSteps, Ended
  <2>4. CASE \E c \in Items(cmds) : c.kind = "ConfigureEndpoint" /\ c.slot = s
    <3>1. PICK c \in Items(cmds) : c.kind = "ConfigureEndpoint" /\ c.slot = s
      BY <2>4
    <3>2. \/ c \in Items(cmds')
          \/ \E e \in Items(events') :
               e.type = "Command" /\ e.of = "ConfigureEndpoint" /\ e.slot = s
      BY <3>1, CommandStays
    <3> QED
      BY <2>3, <3>1, <3>2 DEF EndpointsOwed
  <2>5. CASE \E e \in Items(events) :
               e.type = "Command" /\ e.of = "ConfigureEndpoint" /\ e.slot = s
    <3>1. PICK e \in Items(events) :
            e.type = "Command" /\ e.of = "ConfigureEndpoint" /\ e.slot = s
      BY <2>5
    <3>2. ASSUME HasEvent, Driver, e = Front PROVE FALSE
      <4>1. OnConfigureEndpoint
        BY <3>1, <3>2 DEF Driver, HasEvent, BootPort, WriteReset, FinishReset, OnPortStatusChange,
           OnEnableSlot, OnAddressDevice, OnTransfer
      <4>2. phase' = [phase EXCEPT ![p] = "Configured"]
        BY <1>3, <1>4, <1>5, <3>1, <3>2, <4>1 DEF OnConfigureEndpoint, DeviceReal
      <4> QED
        BY <1>0, <1>2, <4>2 DEF Ports
    <3>3. e \in Items(events')
      BY <3>1, <3>2, EventTaken
    <3> QED
      BY <2>3, <3>1, <3>3 DEF EndpointsOwed
  <2> QED
    BY <2>2, <2>3, <2>4, <2>5 DEF EndpointsOwed
<1>6. CASE phase[p] # "ConfiguringEndpoints"
  <2>1. /\ OnTransfer /\ phase[p] = "InitializingDevice"
        /\ Front.slot \in Slots /\ dev[Front.slot].port = p
    BY <1>2, <1>6, LateSource
  <2>2. Front.slot = s
    BY <1>0, <1>3, <1>4, <2>1, QueueTypes DEF QInv, QueueInv, ContextInv
  <2>3. PICK d : d = Reaction(dev[s], Front.of)
    OBVIOUS
  <2>4. PICK x : x = [kind |-> "ConfigureEndpoint", slot |-> s, port |-> 0]
    OBVIOUS
  <2>5. phase' # phase
    BY <1>2, <1>6
  <2>6. d.init = 4 /\ dev' = [dev EXCEPT ![s] = d] /\ cmds' = Append(cmds, x)
    BY <2>1, <2>2, <2>3, <2>4, <2>5
       DEF OnTransfer, NeedsEndpoints, ConfigureEndpoints, Ring, Ignore, driverVars
  <2>7. x \in CommandTRBs /\ x.kind = "ConfigureEndpoint" /\ x.slot = s
    BY <1>0, <2>4, PortConfigAssumption DEF CommandTRBs, Commands
  <2>8. x \in Items(cmds')
    BY <2>6, <2>7, QueueTypes, ItemsOfAppend DEF QInv
  <2> QED
    BY <1>0, <2>6, <2>7, <2>8 DEF EndpointsOwed
<1> QED
  BY <1>5, <1>6

(* What a device has asked for is answered: it is the one at its port, and *)
(* its endpoints are there before it is polled.                            *)
LEMMA TransferAnswered ==
  ASSUME Undisturbed, QInv, RealInv, [Next]_vars, NEW s \in Slots,
         NEW t \in Transfers, Ended(s, t), Expects(dev[s], t)
  PROVE  AnswerDue(s)'
<1>0. /\ s \in 0 .. NumSlots /\ dev \in [0 .. NumSlots -> Devices] /\ dev[s] \in Devices
      /\ events \in Seq(Events) /\ CompleteTransfer(s, t) /\ SameSteps(s)
  BY QueueTypes DEF QInv, Ended
<1>1. InPhase(s, PhaseOf(t))
  BY <1>0 DEF QInv, QueueInv, TransferInv, CompleteTransfer, Asked, Fits
<1>2. dev[s].port # 0 /\ SlotReal(s)
  BY <1>1 DEF InPhase, RealInv
<1>3. t \in {"SetProtocol", "InterruptIn"} => slot[s] = "Configured"
  BY <1>1, <1>2 DEF InPhase, PhaseOf, SlotReal
<1>4. Answers(s, t)
  BY <1>2, <1>3 DEF Answers, SlotReal
<1>5. PICK x : x = TransferEvent(t, s, TRUE)
  OBVIOUS
<1>6. x \in Events /\ x.type = "Transfer" /\ x.slot = s /\ x.ok /\ x.of = t
  BY <1>5, TransferEventType DEF TransferEvent
<1>7. events' = Append(events, x)
  <2>1. ~(faults < MaxFaults)
    BY DEF Undisturbed, QInv, IInv, TypeOK
  <2> QED
    BY <1>0, <1>4, <1>5, <2>1 DEF CompleteTransfer
<1>8. x \in Items(events')
  BY <1>0, <1>6, <1>7, ItemsOfAppend
<1>9. Expects(dev'[s], t)
  BY <1>0 DEF Expects, SameSteps
<1> QED
  BY <1>6, <1>8, <1>9 DEF AnswerDue

(* The answer is handled when the device waits for it.                     *)
LEMMA AnswerHandled ==
  ASSUME QInv, PortsInv, DevicesInv, [Next]_vars, NEW s \in Slots,
         dev[s].port # 0, phase'[dev[s].port] = phase[dev[s].port],
         OnTransfer, Front.slot = s, Front.ok, Expects(dev[s], Front.of)
  PROVE  ReportOwed(s)'
<1>0. /\ s \in 0 .. NumSlots /\ dev \in [0 .. NumSlots -> Devices] /\ dev[s] \in Devices
      /\ dev[s].port \in Ports /\ phase \in [0 .. NumPorts -> Phases]
  BY QueueTypes DEF QInv, Ports
<1>1. PICK d : d = Reaction(dev[s], Front.of)
  OBVIOUS
<1>2. dev[s].alloc /\ dev' = [dev EXCEPT ![s] = d]
  BY <1>1 DEF OnTransfer, DevicesInv, DeviceReal
<1>3. dev'[s] = d
  BY <1>0, <1>2
<1>4. ~(Front.of = "SetConfig" /\ d.init = 4)
  <2> SUFFICES ASSUME Front.of = "SetConfig", d.init = 4 PROVE FALSE
    OBVIOUS
  <2>1. Front \in Items(events) /\ Front.type = "Transfer"
    BY FrontSlot DEF OnTransfer
  <2>2. InPhase(s, "InitializingDevice")
    BY <2>1 DEF QInv, QueueInv, EventInv, Answered, Fits, PhaseOf
  <2>3. d.port = dev[s].port
    BY <1>0, <1>1, ReactionType
  <2>4. NeedsEndpoints(d)
    BY <2>2, <2>3 DEF NeedsEndpoints, InPhase
  <2>5. portsc[d.port].ccs
    <3>1. portsc[d.port].ccs \in BOOLEAN
      BY <1>0, <2>3 DEF QInv, IInv, TypeOK, PortStatus
    <3>2. portsc[d.port].ccs # FALSE
      BY <1>0, <2>2, <2>3 DEF PortsInv, BitsInv, InPhase
    <3> QED
      BY <3>1, <3>2
  <2>6. ConfigureEndpoints(s, d.port)
    BY <1>1, <1>2, <2>4, <2>5 DEF OnTransfer
  <2>7. phase' = [phase EXCEPT ![d.port] = "ConfiguringEndpoints"]
    BY <2>6 DEF ConfigureEndpoints
  <2> QED
    BY <1>0, <2>2, <2>3, <2>7 DEF InPhase, Ports
<1>5. Awaits(d) \/ (d.port \notin HidPorts /\ d.init = 2)
  BY <1>0, <1>1, <1>4, ReactionAwaits
<1> QED
  BY <1>3, <1>5 DEF ReportOwed

LEMMA ReportOwedStep ==
  ASSUME Undisturbed, QInv, RealInv, PortsInv, DevicesInv, [Next]_vars,
         NEW s \in Slots, Transferring(s)'
  PROVE  ReportOwed(s)'
<1>0. /\ s \in 0 .. NumSlots /\ dev \in [0 .. NumSlots -> Devices] /\ dev[s] \in Devices
      /\ phase \in [0 .. NumPorts -> Phases] /\ events \in Seq(Events)
  BY QueueTypes DEF QInv
<1>1. PICK p : p = dev'[s].port
  OBVIOUS
<1>2. p \in Ports /\ phase'[p] \in {"InitializingDevice", "Configured"}
  <2>1. IInv'
    BY QueueStep DEF QInv
  <2>2. dev'[s].port \in 0 .. NumPorts
    BY <1>0, <2>1 DEF IInv, TypeOK, Devices
  <2> QED
    BY <1>1, <2>2 DEF Transferring, InPhase, Ports
<1>3. dev[s].port = p
  BY <1>0, <1>1, <1>2, PortSource
<1>4. dev[s].port # 0 /\ DeviceReal(s)
  BY <1>2, <1>3 DEF DevicesInv, Ports
<1>5. \A t \in Slots : dev[t].port = p => t = s
  BY <1>0, <1>3, <1>4, QueueTypes DEF QInv, QueueInv, ContextInv
<1>6. CASE phase'[p] # phase[p] /\ phase'[p] = "InitializingDevice"
  <2>1. dev'[s] = Started(dev[s])
    BY <1>2, <1>5, <1>6, StartSource
  <2>2. PICK c : c = [dev[s] EXCEPT !.init = 1]
    OBVIOUS
  <2>3. c \in Devices /\ Expects(c, "DeviceDesc")
    <3>1. 1 \in 0 .. 4
      OBVIOUS
    <3> QED
      BY <1>0, <2>2, <3>1, InitFieldType DEF Expects
  <2>4. dev'[s] = Ask(c, "DeviceDesc", 1) /\ "DeviceDesc" \in Transfers /\ 1 \in Nat \ {0}
    BY <2>1, <2>2 DEF Started, Transfers
  <2> QED
    BY <2>3, <2>4, AskAwaits DEF ReportOwed
<1>7. CASE phase'[p] # phase[p] /\ phase'[p] = "Configured"
  <2>1. /\ OnConfigureEndpoint /\ phase[p] = "ConfiguringEndpoints"
        /\ Front.slot \in Slots /\ dev[Front.slot].port = p
    BY <1>2, <1>7, LateSource
  <2>2. Front.slot = s /\ dev[s].alloc /\ dev[s].init = 4 /\ Known(dev[s])
    BY <1>3, <1>4, <1>5, <2>1 DEF DeviceReal, InPhase
  <2>3. PICK c : c = [dev[s] EXCEPT !.hid = 1]
    OBVIOUS
  <2>4. c \in Devices /\ Expects(c, "SetProtocol")
    <3>1. 1 \in 0 .. 2
      OBVIOUS
    <3> QED
      BY <1>0, <2>2, <2>3, <3>1, HidFieldType DEF Expects
  <2>5. EndpointNumbers[p] \in Nat \ {0}
    <3>1. p \in HidPorts /\ p \in 0 .. NumPorts
      BY <1>2, <1>3, <2>2 DEF Known, Ports
    <3> QED
      BY <3>1, EndpointNumbersType DEF HidPorts
  <2>6. dev' = [dev EXCEPT ![s] = ClassStarted(dev[s])]
    BY <1>3, <2>1, <2>2 DEF OnConfigureEndpoint
  <2>7. dev'[s] = Ask(c, "SetProtocol", EndpointNumbers[p]) /\ "SetProtocol" \in Transfers
    BY <1>0, <1>3, <2>3, <2>6 DEF ClassStarted, Transfers
  <2> QED
    BY <2>4, <2>5, <2>7, AskAwaits DEF ReportOwed
<1>8. CASE phase'[p] = phase[p]
  <2>1. Transferring(s) /\ ~InPhase(s, "AddressingDevice") /\ ~InPhase(s, "ConfiguringEndpoints")
    BY <1>2, <1>3, <1>4, <1>8 DEF Transferring, InPhase
  <2>2. ReportOwed(s)
    BY <1>4, <2>1 DEF DeviceReal
  <2>3. ASSUME OnTransfer, s = Front.slot, Front.ok, dev'[s] = Reaction(dev[s], Front.of),
               dev'[s] # dev[s]
        PROVE  ReportOwed(s)'
    BY <1>0, <1>3, <1>4, <1>8, <2>3, ReactionIdle, AnswerHandled
  <2>4. CASE Awaits(dev[s])
    <3>1. CASE SameSteps(s) /\ dev'[s].tds = dev[s].tds
      BY <2>4, <3>1 DEF SameSteps, ReportOwed, Awaits, Expects
    <3>2. ASSUME NEW t \in Transfers, Ended(s, t) PROVE ReportOwed(s)'
      <4>1. PICK u \in Transfers : dev[s].tds[u] > 0 /\ Expects(dev[s], u)
        BY <2>4 DEF Awaits
      <4>2. CASE u = t
        BY <3>2, <4>1, <4>2, TransferAnswered DEF ReportOwed
      <4>3. CASE u # t
        <5>1. dev'[s].tds[u] > 0 /\ Expects(dev'[s], u)
          BY <3>2, <4>1, <4>3 DEF Ended, SameSteps, Expects
        <5> QED
          BY <5>1 DEF ReportOwed, Awaits
      <4> QED
        BY <4>2, <4>3
    <3> QED
      BY <1>4, <2>1, <2>3, <3>1, <3>2, DeviceSteps DEF SameSteps
  <2>5. CASE AnswerDue(s)
    <3>1. PICK e \in Items(events) :
            e.type = "Transfer" /\ e.slot = s /\ e.ok /\ Expects(dev[s], e.of)
      BY <2>5 DEF AnswerDue
    <3>2. CASE HasEvent /\ Driver /\ e = Front
      <4>1. OnTransfer
        BY <3>1, <3>2 DEF Driver, HasEvent, BootPort, WriteReset, FinishReset, OnPortStatusChange,
           OnEnableSlot, OnAddressDevice, OnConfigureEndpoint
      <4> QED
        BY <1>3, <1>4, <1>8, <3>1, <3>2, <4>1, AnswerHandled
    <3>3. CASE e \in Items(events')
      <4>1. CASE SameSteps(s)
        <5>1. Expects(dev'[s], e.of)
          BY <3>1, <4>1 DEF Expects, SameSteps
        <5> QED
          BY <3>1, <3>3, <5>1 DEF ReportOwed, AnswerDue
      <4> QED
        BY <1>4, <2>1, <2>3, <4>1, DeviceSteps DEF Ended, SameSteps
    <3> QED
      BY <3>1, <3>2, <3>3, EventTaken
  <2>6. CASE dev[s].port \notin HidPorts /\ dev[s].init = 2
    <3>1. dev'[s].port = dev[s].port
      BY <1>1, <1>3
    <3>2. dev'[s].init = 2
      BY <1>0, <1>4, <2>1, <2>6, DeviceSteps, ReactionEnd DEF Ended, SameSteps
    <3> QED
      BY <2>6, <3>1, <3>2 DEF ReportOwed
  <2> QED
    BY <2>2, <2>4, <2>5, <2>6 DEF ReportOwed
<1> QED
  BY <1>2, <1>6, <1>7, <1>8

LEMMA KnownStep ==
  ASSUME QInv, DevicesInv, [Next]_vars, NEW s \in Slots, dev'[s].port # 0
  PROVE  InPhase(s, "AddressingDevice")' \/ Known(dev'[s])
<1>0. /\ s \in 0 .. NumSlots /\ dev[s] \in Devices /\ phase \in [0 .. NumPorts -> Phases]
      /\ "DeviceDesc" \in Transfers
  BY QueueTypes DEF QInv, Transfers
<1>1. CASE dev'[s].port # dev[s].port
  BY <1>0, <1>1, PortSource DEF InPhase
<1>2. CASE dev'[s].port = dev[s].port /\ ~InPhase(s, "AddressingDevice")
  <2>1. Known(dev[s]) /\ dev[s].port # 0
    BY <1>2 DEF DevicesInv, DeviceReal
  <2>2. CASE SameSteps(s)
    BY <2>1, <2>2 DEF SameSteps, Known
  <2>3. CASE dev'[s] = ClassStarted(dev[s])
    BY <1>0, <2>1, <2>3, ClassStartedType DEF Known
  <2>4. CASE dev'[s] = Reaction(dev[s], Front.of)
    BY <1>0, <2>1, <2>4, ReactionEnd
  <2> QED
    BY <1>2, <2>1, <2>2, <2>3, <2>4, DeviceSteps DEF Ended, SameSteps
<1>3. CASE /\ dev'[s].port = dev[s].port /\ InPhase(s, "AddressingDevice")
           /\ ~InPhase(s, "AddressingDevice")'
  <2>1. PICK p : p = dev[s].port
    OBVIOUS
  <2>2. p \in Ports /\ phase[p] = "AddressingDevice" /\ phase'[p] # "AddressingDevice"
    BY <1>0, <1>3, <2>1 DEF InPhase, Devices, Ports
  <2>3. phase'[p] = "InitializingDevice"
    <3>1. <<phase[p], phase'[p]>> \in Successor
      BY <2>2, PhaseStep DEF QInv, Ports
    <3> QED
      BY <2>2, <3>1 DEF Successor
  <2>4. \E t \in Slots : dev[t].port = p /\ dev'[t] = Started(dev[t])
    BY <2>2, <2>3, StartSource
  <2>5. dev'[s] = Started(dev[s])
    BY <1>0, <1>3, <2>1, <2>4, QueueTypes DEF QInv, QueueInv, ContextInv
  <2>6. PICK c : c = [dev[s] EXCEPT !.init = 1]
    OBVIOUS
  <2>7. c \in Devices /\ c.init = 1
    <3>1. 1 \in 0 .. 4
      OBVIOUS
    <3> QED
      BY <1>0, <2>6, <3>1, InitFieldType
  <2>8. dev'[s] = Ask(c, "DeviceDesc", 1) /\ 1 \in Nat
    BY <2>5, <2>6 DEF Started
  <2>9. Ask(c, "DeviceDesc", 1).init = 1
    BY <1>0, <2>7, <2>8, AskType
  <2>10. dev'[s].init = 1
    BY <2>8, <2>9
  <2> QED
    BY <2>10 DEF Known
<1> QED
  BY <1>1, <1>2, <1>3

LEMMA DevicesStep ==
  ASSUME Undisturbed, QInv, RealInv, PortsInv, SequenceInv, DevicesInv, [Next]_vars
  PROVE  DevicesInv'
<1> SUFFICES ASSUME NEW s \in Slots, dev'[s].port # 0 PROVE DeviceReal(s)'
  BY DEF DevicesInv
<1>0. s \in 0 .. NumSlots
  BY QueueTypes DEF QInv
<1>1. dev[s].alloc
  <2>1. CASE dev[s].port # 0
    BY <2>1 DEF DevicesInv, DeviceReal
  <2>2. CASE dev[s].port = 0
    <3>1. ExecAddressDevice /\ s = Head(cmds).slot
      BY <1>0, <2>2, PortSource
    <3>2. Head(cmds) \in Items(cmds) /\ Head(cmds).kind = "AddressDevice"
      BY <3>1, QueueTypes, ItemsOfTail DEF QInv, ExecAddressDevice
    <3> QED
      BY <3>1, <3>2 DEF SequenceInv, CommandsReal
  <2> QED
    BY <2>1, <2>2
<1>2. dev'[s].alloc
  BY <1>0, <1>1, AllocStays
<1> QED
  BY <1>2, EndpointsStep, ReportOwedStep, KnownStep DEF DeviceReal

-----------------------------------------------------------------------------
(* The invariant, and that no wake-up is lost *)

ProgressInv ==
  QInv /\ RealInv /\ SlotsInv /\ PortsInv /\ SequenceInv /\ SequenceOwed /\ DevicesInv

LEMMA ProgressInit == Init => ProgressInv
<1> SUFFICES ASSUME Init PROVE ProgressInv
  OBVIOUS
<1>1. QInv
  BY InitType, InitControl, InitDefault, QueueInit DEF QInv, IInv
<1>2. Items(cmds) = {} /\ Items(events) = {}
  BY DEF Init, Items
<1>3. /\ \A s \in Slots : dev[s].port = 0
      /\ phase[addressing] = "NotConnected"
  BY PortConfigAssumption DEF Init, NoDevice, Slots
<1>4. SequenceInv /\ SequenceOwed /\ DevicesInv
  BY <1>2, <1>3 DEF SequenceInv, CommandsReal, EventsReal, SequenceOwed, DevicesInv
<1> QED
  BY <1>1, <1>4, RealInit, SlotsInit, PortsInit DEF ProgressInv

LEMMA ProgressStep ==
  ASSUME Undisturbed, NumSlots >= NumPorts, ProgressInv, [Next]_vars
  PROVE  ProgressInv'
<1>1. QInv' /\ RealInv'
  BY QueueStep, RealStep DEF ProgressInv
<1>2. SlotsInv'
  BY SlotsStep DEF ProgressInv, Undisturbed
<1>3. PortsInv' /\ SequenceInv' /\ SequenceOwed' /\ DevicesInv'
  BY PortsStep, SequenceStep, OwedStep, DevicesStep DEF ProgressInv
<1> QED
  BY <1>1, <1>2, <1>3 DEF ProgressInv

(* An item of a queue has a place there. *)
LEMMA Places ==
  ASSUME NEW S, NEW q \in Seq(S), NEW x \in Items(q)
  PROVE  \E i \in DOMAIN q : q[i] = x
<1>1. DOMAIN q = 1 .. Len(q)
  OBVIOUS
<1> QED
  BY <1>1 DEF Items

LEMMA SequencePending ==
  ASSUME ProgressInv, NEW p \in Ports
  PROVE  /\ phase[p] = "EnablingSlot" => Outstanding("EnableSlot", 0)
         /\ phase[p] = "AddressingDevice" => Outstanding("AddressDevice", p)
<1>0. cmds \in Seq(CommandTRBs) /\ events \in Seq(Events)
  BY QueueTypes DEF ProgressInv, QInv
<1>1. ASSUME phase[p] = "EnablingSlot" PROVE Outstanding("EnableSlot", 0)
  <2>1. p = addressing
    BY <1>1 DEF ProgressInv, QInv, IInv, ControlInv, AddressingExclusive, InSequence, Leaving,
       ResetInv, Resetting
  <2>2. CASE Rung("EnableSlot")
    <3>1. PICK c \in Items(cmds) : c.kind = "EnableSlot"
      BY <2>2 DEF Rung
    <3>2. c.port = 0
      BY <3>1 DEF ProgressInv, SequenceInv, CommandsReal
    <3>3. PICK i \in DOMAIN cmds : cmds[i] = c
      BY <1>0, Places
    <3> QED
      BY <3>1, <3>2, <3>3 DEF Outstanding
  <2>3. CASE Returned("EnableSlot")
    <3>1. PICK e \in Items(events) : e.type = "Command" /\ e.of = "EnableSlot"
      BY <2>3 DEF Returned
    <3>2. PICK i \in DOMAIN events : events[i] = e
      BY <1>0, Places
    <3> QED
      BY <3>1, <3>2 DEF Outstanding
  <2> QED
    BY <1>1, <2>1, <2>2, <2>3 DEF ProgressInv, SequenceOwed
<1>2. ASSUME phase[p] = "AddressingDevice" PROVE Outstanding("AddressDevice", p)
  <2>1. CASE p = addressing /\ Rung("AddressDevice")
    <3>1. PICK c \in Items(cmds) : c.kind = "AddressDevice"
      BY <2>1 DEF Rung
    <3>2. c.port = p
      BY <2>1, <3>1 DEF ProgressInv, QInv, QueueInv, CommandInv
    <3>3. PICK i \in DOMAIN cmds : cmds[i] = c
      BY <1>0, Places
    <3> QED
      BY <3>1, <3>2, <3>3 DEF Outstanding
  <2>2. CASE Returned("AddressDevice")
    <3>1. PICK e \in Items(events) : e.type = "Command" /\ e.of = "AddressDevice"
      BY <2>2 DEF Returned
    <3>2. PICK i \in DOMAIN events : events[i] = e
      BY <1>0, Places
    <3> QED
      BY <3>1, <3>2 DEF Outstanding
  <2>3. CASE Leaving(p)
    <3>1. HandingOver /\ events # <<>>
      BY <2>3 DEF Leaving, HandingOver, Resetting, ProgressInv, QInv, IInv, ControlInv, ResetInv
    <3>2. PICK e : e = Head(events)
      OBVIOUS
    <3>3. e \in Items(events) /\ e.type = "Command" /\ e.of = "AddressDevice"
      BY <1>0, <3>1, <3>2, ItemsOfTail DEF ProgressInv, QInv, QueueInv, HandOverInv
    <3>4. Returned("AddressDevice")
      BY <3>3 DEF Returned
    <3> QED
      BY <2>2, <3>4
  <2>4. p = addressing \/ Leaving(p)
    BY <1>2 DEF ProgressInv, QInv, IInv, ControlInv, AddressingExclusive, InSequence
  <2> QED
    BY <1>2, <2>1, <2>2, <2>3, <2>4 DEF ProgressInv, SequenceOwed
<1> QED
  BY <1>1, <1>2

LEMMA DevicePending ==
  ASSUME ProgressInv, NEW p \in Ports
  PROVE  /\ phase[p] = "ConfiguringEndpoints" => Outstanding("ConfigureEndpoint", 0)
         /\ phase[p] \in {"InitializingDevice", "Configured"} => TransferOwed(p)
<1>0. cmds \in Seq(CommandTRBs) /\ events \in Seq(Events)
  BY QueueTypes DEF ProgressInv, QInv
<1> SUFFICES ASSUME phase[p] \in Past
             PROVE  /\ phase[p] = "ConfiguringEndpoints" => Outstanding("ConfigureEndpoint", 0)
                    /\ phase[p] \in {"InitializingDevice", "Configured"} => TransferOwed(p)
  BY DEF Past
<1>1. PICK s \in Slots : dev[s].port = p
  BY DEF ProgressInv, RealInv, ContextOfPort
<1>2. DeviceReal(s) /\ dev[s].port # 0
  BY <1>1 DEF ProgressInv, DevicesInv, Ports
<1>3. ASSUME phase[p] = "ConfiguringEndpoints" PROVE Outstanding("ConfigureEndpoint", 0)
  <2>1. EndpointsOwed(s)
    BY <1>1, <1>2, <1>3 DEF DeviceReal, InPhase
  <2>2. CASE \E c \in Items(cmds) : c.kind = "ConfigureEndpoint" /\ c.slot = s
    <3>1. PICK c \in Items(cmds) : c.kind = "ConfigureEndpoint" /\ c.slot = s
      BY <2>2
    <3>2. c.port = 0
      BY <3>1 DEF ProgressInv, SequenceInv, CommandsReal
    <3>3. PICK i \in DOMAIN cmds : cmds[i] = c
      BY <1>0, Places
    <3> QED
      BY <3>1, <3>2, <3>3 DEF Outstanding
  <2>3. CASE \E e \in Items(events) :
               e.type = "Command" /\ e.of = "ConfigureEndpoint" /\ e.slot = s
    <3>1. PICK e \in Items(events) : e.type = "Command" /\ e.of = "ConfigureEndpoint"
      BY <2>3
    <3>2. PICK i \in DOMAIN events : events[i] = e
      BY <1>0, Places
    <3> QED
      BY <3>1, <3>2 DEF Outstanding
  <2> QED
    BY <2>1, <2>2, <2>3 DEF EndpointsOwed
<1>4. ASSUME phase[p] \in {"InitializingDevice", "Configured"} PROVE TransferOwed(p)
  <2>1. ReportOwed(s)
    BY <1>1, <1>2, <1>4 DEF DeviceReal, Transferring, InPhase
  <2>2. CASE AnswerDue(s)
    <3>1. PICK e \in Items(events) : e.type = "Transfer" /\ e.slot = s
      BY <2>2 DEF AnswerDue
    <3>2. PICK i \in DOMAIN events : events[i] = e
      BY <1>0, Places
    <3> QED
      BY <1>1, <3>1, <3>2 DEF TransferOwed
  <2> QED
    BY <1>1, <2>1, <2>2 DEF ReportOwed, Awaits, TransferOwed
<1> QED
  BY <1>3, <1>4

(* ProgressOwed: if nothing is pulled out, nothing fails and there is a    *)
(* slot for every port, then in every state each port that has not reached *)
(* the end has the event, the command or the transfer under way that moves *)
(* it on, or waits for a port that has: no wake-up is lost between the     *)
(* handlers of xhci.cpp, the reset in ResetPort and the loop of main.      *)
THEOREM NoWakeUpLost ==
  ASSUME MaxUnplugs = 0, MaxFaults = 0, NumSlots >= NumPorts
  PROVE  Spec => []ProgressOwed
<1>0. Undisturbed
  BY DEF Undisturbed
<1>1. Init => ProgressInv
  BY ProgressInit
<1>2. ProgressInv /\ [Next]_vars => ProgressInv'
  BY <1>0, ProgressStep
<1>3. ProgressInv => ProgressOwed
  <2> SUFFICES ASSUME ProgressInv, NEW p \in Ports
               PROVE  CASE phase[p] = "NotConnected" ->
                             portsc[p].ccs => PortEventPending(p) \/ (pc # "Loop" /\ bootPort <= p)
                        [] phase[p] = "WaitingAddressed" -> addressing \notin {0, p}
                        [] phase[p] = "ResettingPort" ->
                             \/ pc \in {"Reset", "Spin"}
                             \/ portsc[p].ped /\ portsc[p].prc /\ PortEventPending(p)
                        [] phase[p] = "EnablingSlot" -> Outstanding("EnableSlot", 0)
                        [] phase[p] = "AddressingDevice" -> Outstanding("AddressDevice", p)
                        [] phase[p] = "ConfiguringEndpoints" -> Outstanding("ConfigureEndpoint", 0)
                        [] OTHER -> TransferOwed(p)
    BY DEF ProgressOwed
  <2>0. phase[p] \in Phases /\ events \in Seq(Events)
    BY QueueTypes DEF ProgressInv, QInv
  <2>1. ASSUME PortEvent(p) \in Items(events) PROVE PortEventPending(p)
    BY <2>0, <2>1, Places DEF PortEventPending
  <2>2. phase[p] = "NotConnected" /\ portsc[p].ccs =>
          PortEventPending(p) \/ (pc # "Loop" /\ bootPort <= p)
    BY <2>1 DEF ProgressInv, PortsInv, ConnectReported
  <2>3. phase[p] = "WaitingAddressed" => addressing \notin {0, p}
    BY DEF ProgressInv, PortsInv, LoopInv, WaitingPorts, QInv, IInv, ControlInv,
       AddressingExclusive, InSequence
  <2>4. phase[p] = "ResettingPort" =>
          pc \in {"Reset", "Spin"} \/ (portsc[p].ped /\ portsc[p].prc /\ PortEventPending(p))
    BY <2>1 DEF ProgressInv, PortsInv, ResetReported, Resetting
  <2>5. phase[p] = "EnablingSlot" => Outstanding("EnableSlot", 0)
    BY SequencePending
  <2>6. phase[p] = "AddressingDevice" => Outstanding("AddressDevice", p)
    BY SequencePending
  <2>7. phase[p] = "ConfiguringEndpoints" => Outstanding("ConfigureEndpoint", 0)
    BY DevicePending
  <2>8. phase[p] \in {"InitializingDevice", "Configured"} => TransferOwed(p)
    BY DevicePending
  <2> QED
    BY <2>0, <2>2, <2>3, <2>4, <2>5, <2>6, <2>7, <2>8 DEF Phases
<1> QED
  BY <1>1, <1>2, <1>3, PTL DEF Spec
=============================================================================

------------------------------ MODULE TrbRing ------------------------------
(***************************************************************************)
(* usb::xhci::Ring, the command and transfer rings (usb/xhci/ring.cpp):    *)
(* Push writes TRBs into memory that the host controller reads at the same *)
(* time.  The cycle bit says which TRBs are new; the last TRB is a link    *)
(* back to the first that makes both sides flip their idea of "new".       *)
(*                                                                         *)
(* The four words of a TRB are two here: its body (data[0..2]) and its     *)
(* control word (data[3]: TRB type and cycle bit).  Push is a sequence of  *)
(* stores, and the controller may look at the memory between any two.      *)
(***************************************************************************)
EXTENDS Integers, Sequences

CONSTANTS
  BufSize,        \* buf_size_, the link TRB included
  Items,          \* the bodies of the TRBs pushed
  MaxOutstanding, \* how many TRBs the callers leave unhandled: see PortConfig
  InOrder         \* whether the controller sees the stores in program order

ASSUME TrbRingAssumption ==
  /\ BufSize \in Nat
  /\ MaxOutstanding \in 1 .. BufSize - 2
  /\ "link" \notin Items /\ "none" \notin Items
  /\ InOrder \in BOOLEAN

Last  == BufSize - 1
Slots == 0 .. Last
Words == {"body", "control"}

VARIABLES
  body,       \* buf_ as the controller sees it: data[0..2] of each TRB,
  kind,       \* and of data[3] whether it is a link TRB
  cycle,      \* and its cycle bit
  writeIndex, \* write_index_
  cycleBit,   \* cycle_bit_
  writing,    \* the TRB CopyToLast is storing, "none" outside of Push
  todo,       \* its words not stored yet
  deq,        \* hardware: the dequeue pointer
  ccs,        \* hardware: the consumer cycle state
  done,       \* the TRBs executed, by slot, whose events are not handled
  pushed      \* history: the TRBs visible to the hardware and not executed

bufVars  == <<body, kind, cycle>>
ringVars == <<writeIndex, cycleBit, writing, todo>>
hwVars   == <<deq, ccs>>
vars     == <<bufVars, ringVars, hwVars, done, pushed>>

Bodies == Items \cup {"link", "none"}
Bit    == {0, 1}

TypeOK ==
  /\ body \in [Slots -> Bodies]
  /\ kind \in [Slots -> {"trb", "link"}]
  /\ cycle \in [Slots -> Bit]
  /\ writeIndex \in Slots
  /\ cycleBit \in Bit
  /\ writing \in Bodies
  /\ todo \in SUBSET Words
  /\ deq \in Slots
  /\ ccs \in Bit
  /\ done \in Seq(Slots)
  /\ pushed \in Seq(Items)

(* Ring::Initialize: the buffer is all zero, both sides start with cycle   *)
(* state 1 (CRCR and the endpoint contexts say so to the controller).      *)
Init ==
  /\ body = [i \in Slots |-> "none"]
  /\ kind = [i \in Slots |-> "trb"]
  /\ cycle = [i \in Slots |-> 0]
  /\ writeIndex = 0
  /\ cycleBit = 1
  /\ writing = "none"
  /\ todo = {}
  /\ deq = 0
  /\ ccs = 1
  /\ done = <<>>
  /\ pushed = <<>>

-----------------------------------------------------------------------------
(* The driver *)

RoomBug == Len(pushed) + Len(done) < MaxOutstanding + 1

(* Push does not look for room: its callers bound what is outstanding. *)
Room == Len(pushed) + Len(done) < MaxOutstanding

StartCopy(x) == writing' = x /\ todo' = Words

Push(x) ==
  /\ writing = "none"
  /\ Room
  /\ StartCopy(x)
  /\ UNCHANGED <<bufVars, writeIndex, cycleBit, hwVars, done, pushed>>

StoreBody ==
  /\ "body" \in todo
  /\ todo' = todo \ {"body"}
  /\ body' = [body EXCEPT ![writeIndex] = writing]
  /\ UNCHANGED <<kind, cycle, writeIndex, cycleBit, writing, hwVars, done, pushed>>

MayStoreControlBug == TRUE

(* The comment of CopyToLast; without a barrier, and with a plain buffer,  *)
(* only the compiler and the processor decide.                             *)
MayStoreControl == InOrder => "body" \notin todo

StoreControl ==
  /\ "control" \in todo
  /\ MayStoreControl
  /\ todo' = todo \ {"control"}
  /\ kind' = [kind EXCEPT ![writeIndex] = IF writing = "link" THEN "link" ELSE "trb"]
  /\ cycle' = [cycle EXCEPT ![writeIndex] = cycleBit]
  /\ pushed' = IF writing = "link" THEN pushed ELSE Append(pushed, writing)
  /\ UNCHANGED <<body, writeIndex, cycleBit, writing, hwVars, done>>

AdvanceBug ==
  /\ writing # "none" /\ todo = {}
  /\ writeIndex' = writeIndex + 1
  /\ UNCHANGED cycleBit
  /\ IF writeIndex + 1 = Last THEN StartCopy("link") ELSE writing' = "none" /\ UNCHANGED todo
  /\ UNCHANGED <<bufVars, hwVars, done, pushed>>

(* The rest of Push: on to the next TRB, at the end by way of a link. *)
Advance ==
  /\ writing # "none" /\ todo = {}
  /\ \/ /\ writeIndex + 1 < Last
        /\ writeIndex' = writeIndex + 1
        /\ writing' = "none"
        /\ UNCHANGED <<cycleBit, todo>>
     \/ /\ writeIndex + 1 = Last
        /\ writeIndex' = Last
        /\ StartCopy("link")
        /\ UNCHANGED cycleBit
     \/ /\ writeIndex = Last
        /\ writeIndex' = 0
        /\ cycleBit' = 1 - cycleBit
        /\ writing' = "none"
        /\ UNCHANGED todo
  /\ UNCHANGED <<bufVars, hwVars, done, pushed>>

(* The event handler reads the issuer in the ring, and is done with it.    *)
Handle ==
  /\ writing = "none"
  /\ done # <<>>
  /\ done' = Tail(done)
  /\ UNCHANGED <<bufVars, ringVars, hwVars, pushed>>

-----------------------------------------------------------------------------
(* The controller (external) *)

Fresh == cycle[deq] = ccs

Consume ==
  /\ Fresh /\ kind[deq] = "trb"
  /\ deq < Last
  /\ deq' = deq + 1
  /\ done' = Append(done, deq)
  /\ pushed' = Tail(pushed)
  /\ UNCHANGED <<bufVars, ringVars, ccs>>

FollowLink ==
  /\ Fresh /\ kind[deq] = "link"
  /\ body[deq] = "link"
  /\ deq' = 0
  /\ ccs' = 1 - ccs
  /\ UNCHANGED <<bufVars, ringVars, done, pushed>>

-----------------------------------------------------------------------------
Driver == StoreBody \/ StoreControl \/ Advance \/ Handle

Next == (\E x \in Items : Push(x)) \/ Driver \/ Consume \/ FollowLink

Spec == Init /\ [][Next]_vars

(* The driver goes on; the controller, rung at the doorbell after each     *)
(* Push, works off what it finds.                                          *)
FairSpec == Spec /\ WF_vars(Driver) /\ WF_vars(Consume \/ FollowLink)

-----------------------------------------------------------------------------
(* The comment of CopyToLast, data[0..2] before data[3], and what it is    *)
(* for: whenever the cycle bit tells the controller that a TRB is new, the *)
(* body is the one that goes with it, the oldest that is not executed, or  *)
(* the link.                                                               *)
NothingTorn ==
  Fresh => IF kind[deq] = "link"
           THEN body[deq] = "link"
           ELSE pushed # <<>> /\ body[deq] = Head(pushed)

(* A TRB is in use from the store that makes it visible until the handler  *)
(* of its event is done with it; the link, until it is followed.           *)
Visible(i) ==
  IF i >= deq THEN cycle[i] = ccs ELSE cycleBit # ccs /\ cycle[i] # ccs

InUse(i) == Visible(i) \/ \E k \in DOMAIN done : done[k] = i

(* Push never writes to a TRB that is in use, although it does not look.   *)
NeverOverwritten ==
  [][\A i \in Slots : <<body[i], kind[i], cycle[i]>>' # <<body[i], kind[i], cycle[i]>>
                       => ~InUse(i)]_vars

(* The TRBs a handler finds when it looks at the issuers of its events. *)
Executed == [k \in DOMAIN done |-> body[done[k]]]

Fifo == INSTANCE TrbFifo WITH executed <- Executed

(* A ring is a queue, and the driver finds the TRB it issued when it       *)
(* handles the completion: see TrbFifo.                                    *)
ImplementsFifo == Fifo!FifoSpec

(* What is pushed is executed and handled in the end: no TRB is passed     *)
(* over, and both sides flip their cycle state in step.                    *)
NothingStuck == Fifo!FifoFairness
=============================================================================

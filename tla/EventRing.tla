----------------------------- MODULE EventRing ------------------------------
(***************************************************************************)
(* usb::xhci::EventRing (usb/xhci/ring.cpp) between the host controller,   *)
(* which writes events, and the loop that calls ProcessEvent.  There is no *)
(* link TRB: both sides go back to the first TRB after the last one of the *)
(* segment and flip their cycle state.  What the driver has consumed the   *)
(* controller learns from the dequeue pointer register (ERDP), which is    *)
(* also the only place where the driver keeps it.                          *)
(*                                                                         *)
(* A handler works on the TRB in the ring, by reference, until Pop.        *)
(***************************************************************************)
EXTENDS Integers, Sequences

CONSTANTS
  RingSize,  \* buf_size_, ring_segment_size
  Events     \* what a TRB says

ASSUME EventRingAssumption ==
  /\ RingSize \in Nat /\ RingSize >= 3
  /\ "none" \notin Events

FullNotice == "full"
Slots  == 0..(RingSize - 1)
Bodies == Events \cup {FullNotice, "none"}

VARIABLES
  body, cycle,  \* buf_: what each TRB says, and its cycle bit
  erdp,         \* the register ERDP
  cycleBit,     \* cycle_bit_
  front,        \* the TRB ProcessEvent found, -1 when it looks for one
  got,          \* what was loaded from the TRB
  handled,      \* the event handled last
  enq, pcs,     \* hardware: enqueue pointer and producer cycle state
  storing       \* hardware: the event whose body is stored, not its cycle bit

ringVars == <<body, cycle>>
hwVars   == <<enq, pcs, storing>>
vars     == <<ringVars, erdp, cycleBit, front, got, handled, hwVars>>

TypeOK ==
  /\ body \in [Slots -> Bodies] /\ cycle \in [Slots -> {0, 1}]
  /\ erdp \in Slots /\ enq \in Slots
  /\ cycleBit \in {0, 1} /\ pcs \in {0, 1}
  /\ front \in Slots \cup {-1}
  /\ got \in Bodies /\ handled \in Bodies /\ storing \in Bodies

(* EventRing::Initialize clears the TRBs and sets the pointer register. *)
Init ==
  /\ body = [i \in Slots |-> "none"] /\ cycle = [i \in Slots |-> 0]
  /\ erdp = 0 /\ cycleBit = 1
  /\ front = -1 /\ got = "none" /\ handled = "none"
  /\ enq = 0 /\ pcs = 1 /\ storing = "none"

-----------------------------------------------------------------------------
(* The driver: ProcessEvent *)

HasFrontBug == body[erdp] # "none"   \* what is not zero is an event

HasFront == cycle[erdp] = cycleBit

(* Front and HasFront; without an event ProcessEvent returns. *)
Find ==
  /\ front = -1 /\ HasFront
  /\ front' = erdp
  /\ UNCHANGED <<ringVars, erdp, cycleBit, got, handled, hwVars>>

(* The fields of the event, loaded after its cycle bit as the program has  *)
(* it (no barrier says so)                                                 *)
Load ==
  /\ front # -1 /\ got = "none"
  /\ got' = body[front]
  /\ UNCHANGED <<ringVars, erdp, cycleBit, front, handled, hwVars>>

NextSlotBug(p) == p + 1

(* The TRB after p in the segment, from ERST *)
NextSlot(p) == IF p + 1 = RingSize THEN 0 ELSE p + 1

PopBug ==   \* the cycle state is never flipped
  /\ erdp' = NextSlot(erdp)
  /\ UNCHANGED cycleBit

Pop ==
  /\ erdp' = NextSlot(erdp)
  /\ cycleBit' = IF NextSlot(erdp) = 0 THEN 1 - cycleBit ELSE cycleBit

(* OnEvent, then Pop.  No handler looks at events of another type, such as *)
(* the notice of a full ring; they are popped all the same.                *)
Handle ==
  /\ front # -1 /\ got # "none"
  /\ handled' = got
  /\ Pop
  /\ front' = -1 /\ got' = "none"
  /\ UNCHANGED <<ringVars, hwVars>>

-----------------------------------------------------------------------------
(* The controller (external) *)

(* The TRB k places after p, and the number of places from p to q *)
After(p, k) == IF p + k < RingSize THEN p + k ELSE p + k - RingSize
Ahead(p, q) == IF p <= q THEN q - p ELSE q - p + RingSize

Free == RingSize - 1 - Ahead(erdp, enq)   \* TRBs it may write

(* It writes an event, the cycle bit last.  With one TRB left it reports a *)
(* full ring instead and keeps its events until the driver has popped.     *)
StoreEvent ==
  /\ storing = "none"
  /\ \E e \in IF Free = 1 THEN {FullNotice} ELSE Events :
       /\ Free > 0
       /\ storing' = e
       /\ body' = [body EXCEPT ![enq] = e]
  /\ UNCHANGED <<cycle, erdp, cycleBit, front, got, handled, enq, pcs>>

Publish ==
  /\ storing # "none"
  /\ cycle' = [cycle EXCEPT ![enq] = pcs]
  /\ enq' = After(enq, 1)
  /\ pcs' = IF enq' = 0 THEN 1 - pcs ELSE pcs
  /\ storing' = "none"
  /\ UNCHANGED <<body, erdp, cycleBit, front, got, handled>>

-----------------------------------------------------------------------------
Driver == Find \/ Load \/ Handle
Next   == Driver \/ StoreEvent \/ Publish
Spec   == Init /\ [][Next]_vars

(* The loop of KernelMain calls ProcessEvent for ever. *)
FairSpec == Spec /\ WF_vars(Driver)

-----------------------------------------------------------------------------
(* The TRB a handler works on is not written by the controller until it is *)
(* popped: its fields may be read as often and as late as OnEvent likes.   *)
FrontIsStable ==
  [][\A i \in Slots : <<body[i], cycle[i]>>' # <<body[i], cycle[i]>> => i # front]_vars

(* The events between the two pointers, oldest first *)
Unhandled == [k \in 1..Ahead(erdp, enq) |-> body[After(erdp, k - 1)]]

Queue == INSTANCE EventQueue WITH
  posted <- Unhandled, latest <- handled,
  Events <- Events \cup {FullNotice}, Capacity <- RingSize - 1

(* The ring is a queue through every wrap and while it is full: no event   *)
(* is lost, seen twice, seen before it is complete, or taken from the lap  *)
(* before.                                                                 *)
ImplementsQueue == Queue!QueueSpec

(* Both sides flip in step, so the polling loop finds every event.         *)
NoEventLeft == Queue!QueueFairness
=============================================================================

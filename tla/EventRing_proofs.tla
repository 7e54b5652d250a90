-------------------------- MODULE EventRing_proofs ---------------------------
(***************************************************************************)
(* Proofs about EventRing for segments of every size and any set of        *)
(* events: the TRB a handler works on is left alone, and the ring is a     *)
(* queue.                                                                  *)
(***************************************************************************)
EXTENDS EventRing, SequenceTheorems, TLAPS

(* Which TRBs carry which cycle bit: those before the enqueue pointer were *)
(* written on this lap, the others on the lap before.                      *)
CycleInv == \A i \in Slots : cycle[i] = IF i < enq THEN pcs ELSE 1 - pcs

(* The two sides are on the same lap, or the controller is one ahead.      *)
LapInv == IF enq >= erdp THEN pcs = cycleBit ELSE pcs # cycleBit

(* What the driver has found is posted, and it has loaded what is there.   *)
FrontInv ==
  /\ front # -1 => front = erdp /\ enq # erdp
  /\ got # "none" => front # -1 /\ got = body[front]

(* The event being stored has room behind it and is already in memory.     *)
StoringInv == storing # "none" => Free > 0 /\ body[enq] = storing

(* What is posted says something. *)
IsPosted(i) == IF erdp <= enq THEN erdp <= i /\ i < enq ELSE erdp <= i \/ i < enq

PostedInv == \A i \in Slots : IsPosted(i) => body[i] \in Events \cup {FullNotice}

IInv ==
  /\ TypeOK
  /\ CycleInv /\ LapInv /\ FrontInv /\ StoringInv /\ PostedInv

-----------------------------------------------------------------------------
(* The constants and the pointers as the arithmetic below needs them       *)
USE EventRingAssumption DEF Slots, FullNotice

(* The place after a pointer is in the segment; nothing is between a       *)
(* pointer and itself, and never more than the segment less one TRB.       *)
LEMMA PlaceFacts ==
  ASSUME NEW p \in Slots, NEW q \in Slots
  PROVE  /\ Ahead(p, q) \in 0..(RingSize - 1)
         /\ Ahead(p, q) = 0 <=> p = q
         /\ NextSlot(p) \in Slots /\ After(p, 1) = NextSlot(p)
         /\ After(p, Ahead(p, q)) = q
         /\ \A k \in 0..(RingSize - 1) : After(p, k) \in Slots
  BY DEF Ahead, After, NextSlot

(* A step of the far pointer adds a place, a step of the near one takes    *)
(* one away.                                                               *)
LEMMA AheadSteps ==
  ASSUME NEW p \in Slots, NEW q \in Slots
  PROVE  /\ Ahead(p, q) < RingSize - 1 => Ahead(p, NextSlot(q)) = Ahead(p, q) + 1
         /\ p # q => Ahead(NextSlot(p), q) = Ahead(p, q) - 1
         /\ \A k \in 0..(RingSize - 2) : After(NextSlot(p), k) = After(p, k + 1)
  BY DEF Ahead, After, NextSlot

(* The posted TRBs are those counted from the dequeue pointer on, and the  *)
(* TRB at the enqueue pointer is none of them.                             *)
LEMMA PostedPlaces ==
  ASSUME erdp \in Slots, enq \in Slots
  PROVE  /\ \A k \in 1..Ahead(erdp, enq) :
              After(erdp, k - 1) \in Slots /\ IsPosted(After(erdp, k - 1))
         /\ ~IsPosted(enq)
         /\ enq # erdp => IsPosted(erdp)
  BY DEF Ahead, After, IsPosted

(* The driver sees an event exactly when one is posted.                    *)
LEMMA SeesPosted ==
  ASSUME TypeOK, CycleInv, LapInv
  PROVE  HasFront <=> enq # erdp
  BY DEF TypeOK, CycleInv, LapInv, HasFront

-----------------------------------------------------------------------------
(* The inductive invariant *)

(* The invariant holds of the cleared ring. *)
LEMMA InitIInv == Init => IInv
  BY DEF Init, IInv, TypeOK, Bodies, CycleInv, LapInv, FrontInv, StoringInv, PostedInv,
         IsPosted

(* Finding an event: there is one, and it is at the dequeue pointer.       *)
LEMMA FindIInv == IInv /\ Find => IInv'
<1> SUFFICES ASSUME IInv, Find PROVE IInv'
  OBVIOUS
<1>1. TypeOK'
  BY DEF IInv, Find, TypeOK, ringVars, hwVars
<1>2. FrontInv'
  BY SeesPosted DEF IInv, Find, FrontInv, TypeOK, ringVars, hwVars
<1> QED
  BY <1>1, <1>2 DEF IInv, Find, CycleInv, LapInv, StoringInv, PostedInv, IsPosted,
                    Free, Ahead, ringVars, hwVars

(* Loading it: the handler gets what is in the ring.                       *)
LEMMA LoadIInv == IInv /\ Load => IInv'
<1> SUFFICES ASSUME IInv, Load PROVE IInv'
  OBVIOUS
<1>1. front = erdp /\ enq # erdp /\ erdp \in Slots /\ enq \in Slots
  BY DEF IInv, Load, FrontInv, TypeOK
<1>2. TypeOK'
  BY <1>1 DEF IInv, Load, TypeOK, Bodies, ringVars, hwVars
<1>3. FrontInv'
  BY <1>1 DEF IInv, Load, FrontInv, ringVars, hwVars
<1> QED
  BY <1>2, <1>3 DEF IInv, Load, CycleInv, LapInv, StoringInv, PostedInv, IsPosted,
                    Free, Ahead, ringVars, hwVars

(* The dequeue pointer goes on: what it leaves is no longer posted, and it *)
(* meets the enqueue pointer or stays behind it.                           *)
LEMMA HandleIInv == IInv /\ Handle => IInv'
<1> SUFFICES ASSUME IInv, Handle PROVE IInv'
  OBVIOUS
<1>1. /\ front = erdp /\ enq # erdp /\ erdp \in Slots /\ enq \in Slots
      /\ erdp' = NextSlot(erdp) /\ enq' = enq /\ body' = body /\ cycle' = cycle
      /\ pcs' = pcs /\ storing' = storing
  BY DEF IInv, Handle, FrontInv, TypeOK, Pop, ringVars, hwVars
<1>2. TypeOK'
  <2>1. NextSlot(erdp) \in Slots
    BY <1>1, PlaceFacts
  <2> QED
    BY <1>1, <2>1 DEF IInv, Handle, Pop, TypeOK, Bodies
<1>3. CycleInv'
  BY <1>1 DEF IInv, CycleInv
<1>4. LapInv'
  BY <1>1 DEF IInv, Handle, Pop, LapInv, NextSlot, TypeOK
<1>5. FrontInv'
  BY DEF Handle, FrontInv
<1>6. StoringInv'
  BY <1>1, AheadSteps, PlaceFacts DEF IInv, StoringInv, Free
<1>7. PostedInv'
  <2> SUFFICES ASSUME NEW i \in Slots, IsPosted(i)' PROVE body[i] \in Events \cup {FullNotice}
    BY <1>1 DEF PostedInv
  <2>1. IsPosted(i)
    BY <1>1 DEF IsPosted, NextSlot
  <2> QED
    BY <2>1 DEF IInv, PostedInv
<1> QED
  BY <1>2, <1>3, <1>4, <1>5, <1>6, <1>7 DEF IInv

(* Only the TRB at the enqueue pointer is written, and it is not posted.   *)
LEMMA StoreIInv == IInv /\ StoreEvent => IInv'
<1> SUFFICES ASSUME IInv, StoreEvent PROVE IInv'
  OBVIOUS
<1>1. PICK e \in Events \cup {FullNotice} :
        Free > 0 /\ storing' = e /\ body' = [body EXCEPT ![enq] = e]
  BY DEF StoreEvent
<1>2. /\ erdp \in Slots /\ enq \in Slots /\ body \in [Slots -> Bodies]
      /\ front # -1 => front = erdp /\ enq # erdp
      /\ got # "none" => front # -1 /\ got = body[front]
      /\ UNCHANGED <<cycle, erdp, cycleBit, front, got, handled, enq, pcs>>
  BY DEF IInv, TypeOK, FrontInv, StoreEvent
<1>3. TypeOK'
  BY <1>1, <1>2 DEF IInv, TypeOK, Bodies
<1>4. CycleInv' /\ LapInv'
  BY <1>2 DEF IInv, CycleInv, LapInv
<1>5. FrontInv'
  BY <1>1, <1>2 DEF FrontInv
<1>6. StoringInv'
  BY <1>1, <1>2 DEF StoringInv, Free, Ahead
<1>7. PostedInv'
  BY <1>1, <1>2 DEF IInv, PostedInv, IsPosted
<1> QED
  BY <1>3, <1>4, <1>5, <1>6, <1>7 DEF IInv

(* The TRB at the enqueue pointer is posted; that there was room for it    *)
(* keeps the pointer from meeting the dequeue pointer.                     *)
LEMMA PublishIInv == IInv /\ Publish => IInv'
<1> SUFFICES ASSUME IInv, Publish PROVE IInv'
  OBVIOUS
<1>1. /\ erdp \in Slots /\ enq \in Slots /\ cycle \in [Slots -> {0, 1}] /\ pcs \in {0, 1}
      /\ storing # "none" /\ storing \in Bodies /\ body[enq] = storing /\ Free > 0
      /\ cycle' = [cycle EXCEPT ![enq] = pcs] /\ enq' = NextSlot(enq)
      /\ pcs' = (IF enq' = 0 THEN 1 - pcs ELSE pcs) /\ storing' = "none"
      /\ UNCHANGED <<body, erdp, cycleBit, front, got, handled>>
  BY PlaceFacts DEF IInv, TypeOK, StoringInv, Publish
<1>2. enq' \in Slots /\ enq' # erdp
  <2>1. NextSlot(enq) \in Slots
    BY <1>1, PlaceFacts
  <2>2. NextSlot(enq) # erdp
    BY <1>1 DEF Free, Ahead, NextSlot
  <2> QED
    BY <1>1, <2>1, <2>2
<1>3. TypeOK'
  BY <1>1, <1>2 DEF IInv, TypeOK, Bodies
<1>4. CycleInv'
  BY <1>1 DEF IInv, CycleInv, NextSlot
<1>5. LapInv'
  BY <1>1, <1>2 DEF IInv, LapInv, NextSlot, TypeOK
<1>6. FrontInv'
  BY <1>1, <1>2 DEF IInv, FrontInv
<1>7. StoringInv'
  BY <1>1 DEF StoringInv
<1>8. PostedInv'
  <2> SUFFICES ASSUME NEW i \in Slots, IsPosted(i)' PROVE body[i] \in Events \cup {FullNotice}
    BY <1>1 DEF PostedInv
  <2>1. i = enq \/ IsPosted(i)
    BY <1>1, <1>2 DEF IsPosted, NextSlot
  <2> QED
    BY <2>1, <1>1 DEF IInv, PostedInv, Bodies
<1> QED
  BY <1>3, <1>4, <1>5, <1>6, <1>7, <1>8 DEF IInv

(* No step breaks the invariant. *)
LEMMA NextIInv == IInv /\ [Next]_vars => IInv'
<1> SUFFICES ASSUME IInv, [Next]_vars PROVE IInv'
  OBVIOUS
<1>1. CASE UNCHANGED vars
  BY <1>1 DEF vars, ringVars, hwVars, IInv, TypeOK, CycleInv, LapInv, FrontInv, StoringInv,
              PostedInv, IsPosted, Free, Ahead
<1> QED
  BY <1>1, FindIInv, LoadIInv, HandleIInv, StoreIInv, PublishIInv DEF Next, Driver

(* The invariant of the ring holds throughout.                             *)
THEOREM Invariance == Spec => []IInv
  BY InitIInv, NextIInv, PTL DEF Spec

(* The variables keep their types: both pointers stay in the segment.      *)
THEOREM TypeCorrect == Spec => []TypeOK
<1>1. IInv => TypeOK
  BY DEF IInv
<1> QED
  BY <1>1, Invariance, PTL

(* What ProcessEvent works on is not written before it has popped it: the  *)
(* controller writes at its enqueue pointer, which is elsewhere.           *)
THEOREM Stable == Spec => FrontIsStable
<1>1. IInv /\ [Next]_vars =>
        [\A i \in Slots : <<body[i], cycle[i]>>' # <<body[i], cycle[i]>> => i # front]_vars
  <2> SUFFICES ASSUME IInv, Next, NEW i \in Slots,
                      <<body[i], cycle[i]>>' # <<body[i], cycle[i]>>
               PROVE  i # front
    OBVIOUS
  <2>1. i = enq
    BY DEF IInv, TypeOK, Next, Driver, Find, Load, Handle, StoreEvent, Publish, ringVars
  <2>2. front # -1 => enq # front
    BY DEF IInv, FrontInv
  <2> QED
    BY <2>1, <2>2
<1> QED
  BY <1>1, Invariance, PTL DEF Spec, FrontIsStable

-----------------------------------------------------------------------------
(* The ring is a queue *)

(* A sequence that is another with an element more is its Append.          *)
LEMMA AppendEqual ==
  ASSUME NEW S, NEW s \in Seq(S), NEW t \in Seq(S), NEW x \in S,
         Len(t) = Len(s) + 1, t[Len(s) + 1] = x,
         \A k \in 1..Len(s) : t[k] = s[k]
  PROVE  t = Append(s, x)
<1>1. /\ Append(s, x) \in Seq(S) /\ Len(Append(s, x)) = Len(s) + 1
      /\ \A k \in 1..Len(s) : Append(s, x)[k] = s[k]
      /\ Append(s, x)[Len(s) + 1] = x
  BY AppendProperties
<1> QED
  BY <1>1, SeqEqual, LenProperties

(* A sequence that is another without its first element is its tail.       *)
LEMMA TailEqual ==
  ASSUME NEW S, NEW s \in Seq(S), NEW t \in Seq(S), s # <<>>,
         Len(t) = Len(s) - 1, \A k \in 1..Len(t) : t[k] = s[k + 1]
  PROVE  t = Tail(s)
<1>1. /\ Tail(s) \in Seq(S) /\ Len(Tail(s)) = Len(s) - 1
      /\ \A k \in 1..Len(Tail(s)) : Tail(s)[k] = s[k + 1]
  BY HeadTailProperties
<1> QED
  BY <1>1, SeqEqual, LenProperties

(* The first n bodies of the ring from p on *)
From(p, n) == [k \in 1..n |-> body[After(p, k - 1)]]

(* They are bodies, as many as asked for.                                  *)
LEMMA FromFacts ==
  ASSUME TypeOK, NEW p \in Slots, NEW n \in 0..(RingSize - 1)
  PROVE  /\ From(p, n) \in Seq(Bodies) /\ Len(From(p, n)) = n
         /\ \A k \in 1..n : From(p, n)[k] = body[After(p, k - 1)]
<1>1. \A k \in 1..n : body[After(p, k - 1)] \in Bodies
  BY PlaceFacts, SMTT(30) DEF TypeOK
<1>2. n \in Nat
  OBVIOUS
<1>3. From(p, n) \in [1..n -> Bodies]
  BY <1>1 DEF From
<1> QED
  BY <1>2, <1>3, SeqDef, LenProperties DEF From

(* One TRB more at the far end appends its body.                           *)
LEMMA FromAppend ==
  ASSUME TypeOK, NEW p \in Slots, NEW n \in 0..(RingSize - 2)
  PROVE  From(p, n + 1) = Append(From(p, n), body[After(p, n)])
<1>1. n + 1 \in 0..(RingSize - 1) /\ n \in 0..(RingSize - 1) /\ n + 1 \in 1..(n + 1)
  OBVIOUS
<1>2. body[After(p, n)] \in Bodies
  BY <1>1, PlaceFacts DEF TypeOK
<1>3. /\ From(p, n) \in Seq(Bodies) /\ Len(From(p, n)) = n
      /\ \A k \in 1..n : From(p, n)[k] = body[After(p, k - 1)]
  BY <1>1, FromFacts
<1>4. /\ From(p, n + 1) \in Seq(Bodies) /\ Len(From(p, n + 1)) = n + 1
      /\ \A k \in 1..(n + 1) : From(p, n + 1)[k] = body[After(p, k - 1)]
  BY <1>1, FromFacts
<1>5. From(p, n + 1)[n + 1] = body[After(p, n)]
  BY <1>1, <1>4
<1>6. \A k \in 1..n : From(p, n + 1)[k] = From(p, n)[k]
  BY <1>3, <1>4
<1> QED
  BY <1>2, <1>3, <1>4, <1>5, <1>6, AppendEqual

(* One TRB less at the near end drops the head.                            *)
LEMMA FromTail ==
  ASSUME TypeOK, NEW p \in Slots, NEW n \in 1..(RingSize - 1)
  PROVE  /\ From(NextSlot(p), n - 1) = Tail(From(p, n))
         /\ From(p, n) # <<>> /\ Head(From(p, n)) = body[p]
<1>1. NextSlot(p) \in Slots /\ n \in 0..(RingSize - 1) /\ n - 1 \in 0..(RingSize - 1)
  BY PlaceFacts
<1>2. /\ From(p, n) \in Seq(Bodies) /\ Len(From(p, n)) = n
      /\ \A k \in 1..n : From(p, n)[k] = body[After(p, k - 1)]
  BY <1>1, FromFacts
<1>3. /\ From(NextSlot(p), n - 1) \in Seq(Bodies) /\ Len(From(NextSlot(p), n - 1)) = n - 1
      /\ \A k \in 1..(n - 1) : From(NextSlot(p), n - 1)[k] = body[After(NextSlot(p), k - 1)]
  BY <1>1, FromFacts
<1>4. \A k \in 1..(n - 1) : From(NextSlot(p), n - 1)[k] = From(p, n)[k + 1]
  <2>1. \A k \in 1..(n - 1) : After(NextSlot(p), k - 1) = After(p, k)
    BY AheadSteps
  <2> QED
    BY <1>2, <1>3, <2>1, SMTT(30)
<1>5. From(p, n) # <<>>
  BY <1>2
<1>6. Head(From(p, n)) = body[p]
  BY <1>2, <1>5 DEF After
<1> QED
  BY <1>2, <1>3, <1>4, <1>5, <1>6, TailEqual

(* What the handlers do not touch leaves the queue as it is.               *)
LEMMA QueueKept ==
  ASSUME IInv, erdp' = erdp, enq' = enq,
         \A i \in Slots : i # enq => body'[i] = body[i]
  PROVE  Unhandled' = Unhandled
<1>1. \A k \in 1..Ahead(erdp, enq) : After(erdp, k - 1) \in Slots /\ After(erdp, k - 1) # enq
  BY PostedPlaces DEF IInv, TypeOK
<1>2. Ahead(erdp, enq)' = Ahead(erdp, enq) /\ \A k : After(erdp, k)' = After(erdp, k)
  BY DEF Ahead, After
<1> QED
  BY <1>1, <1>2 DEF Unhandled

(* Every step is a step of the queue or unseen by it: the store of a cycle *)
(* bit posts, Pop takes the head.                                          *)
LEMMA StepRefines == IInv /\ [Next]_vars => [Queue!QueueNext]_Queue!queueVars
<1> SUFFICES ASSUME IInv, [Next]_vars PROVE [Queue!QueueNext]_Queue!queueVars
  OBVIOUS
<1> USE DEF Queue!queueVars
<1>0. erdp \in Slots /\ enq \in Slots /\ Ahead(erdp, enq) \in 0..(RingSize - 1)
  BY PlaceFacts DEF IInv, TypeOK
<1>1. CASE UNCHANGED vars
  BY <1>1, QueueKept DEF vars, ringVars, hwVars
<1>2. CASE Find
  BY <1>2, QueueKept DEF Find, ringVars, hwVars
<1>3. CASE Load
  BY <1>3, QueueKept DEF Load, ringVars, hwVars
<1>4. CASE StoreEvent
  BY <1>4, QueueKept DEF StoreEvent, IInv, TypeOK
<1>5. CASE Publish
  <2>1. Len(Unhandled) = Ahead(erdp, enq)
    BY <1>0 DEF Unhandled
  <2>2. /\ erdp' = erdp /\ enq' = NextSlot(enq) /\ body' = body
        /\ handled' = handled /\ body[enq] = storing
        /\ storing \in Events \cup {FullNotice} /\ Free > 0
    BY <1>0, <1>5, PlaceFacts DEF Publish, IInv, StoringInv, TypeOK, Bodies
  <2>3. Ahead(erdp, enq)' = Ahead(erdp, enq) + 1
    <3>1. Ahead(erdp, NextSlot(enq)) = Ahead(erdp, enq) + 1
      BY <1>0, <2>2, AheadSteps DEF Free
    <3> QED
      BY <2>2, <3>1 DEF Ahead
  <2>4. /\ \A k \in Nat : After(erdp, k)' = After(erdp, k)
        /\ After(erdp, Ahead(erdp, enq)) = enq
    BY <1>0, <2>2, PlaceFacts DEF After
  <2>5. Unhandled' = Append(Unhandled, storing)
    <3>1. Unhandled = From(erdp, Ahead(erdp, enq))
      BY DEF Unhandled, From
    <3>2. Unhandled' = From(erdp, Ahead(erdp, enq) + 1)
      BY <1>0, <2>2, <2>3, <2>4 DEF Unhandled, From
    <3>3. Ahead(erdp, enq) \in 0..(RingSize - 2)
      BY <1>0, <2>2 DEF Free
    <3> QED
      BY <1>0, <2>2, <2>4, <3>1, <3>2, <3>3, FromAppend DEF IInv
  <2>6. Queue!Post(storing)
    BY <1>0, <2>1, <2>2, <2>5 DEF Queue!Post, Free
  <2> QED
    BY <2>2, <2>6 DEF Queue!QueueNext
<1>6. CASE Handle
  <2>1. /\ enq # erdp /\ erdp' = NextSlot(erdp) /\ enq' = enq /\ body' = body
        /\ handled' = body[erdp]
    BY <1>6 DEF Handle, Pop, IInv, FrontInv, ringVars, hwVars
  <2>2. Ahead(erdp, enq) > 0 /\ After(erdp, 0) = erdp
    BY <1>0, <2>1, PlaceFacts DEF After
  <2>3. Unhandled' = From(NextSlot(erdp), Ahead(erdp, enq) - 1)
    <3>1. Ahead(erdp, enq)' = Ahead(erdp, enq) - 1
      <4>1. Ahead(NextSlot(erdp), enq) = Ahead(erdp, enq) - 1
        BY <1>0, <2>1, AheadSteps
      <4> QED
        BY <2>1, <4>1 DEF Ahead
    <3>2. \A k \in Nat : After(erdp, k)' = After(NextSlot(erdp), k)
      BY <2>1 DEF After
    <3> QED
      BY <1>0, <2>1, <3>1, <3>2 DEF Unhandled, From
  <2>4. Unhandled' = Tail(Unhandled) /\ Unhandled # <<>> /\ Head(Unhandled) = body[erdp]
    <3>1. Unhandled = From(erdp, Ahead(erdp, enq)) /\ Ahead(erdp, enq) \in 1..(RingSize - 1)
      BY <1>0, <2>2 DEF Unhandled, From
    <3> QED
      BY <1>0, <2>3, <3>1, FromTail DEF IInv
  <2> QED
    BY <2>1, <2>4 DEF Queue!QueueNext, Queue!HandleHead
<1> QED
  BY <1>1, <1>2, <1>3, <1>4, <1>5, <1>6 DEF Next, Driver

(* No event is lost, handled twice, out of order, or not as it was posted, *)
(* whatever the size of the segment and however full it gets.              *)
THEOREM Refinement == Spec => ImplementsQueue
<1>1. Init => Queue!QueueInit
  BY DEF Init, Queue!QueueInit, Unhandled, Ahead
<1> QED
  BY <1>1, StepRefines, Invariance, PTL DEF Spec, ImplementsQueue, Queue!QueueSpec
=============================================================================

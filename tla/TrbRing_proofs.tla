--------------------------- MODULE TrbRing_proofs ---------------------------
(***************************************************************************)
(* Proofs about TrbRing for rings of every size, with the stores seen in   *)
(* program order: no torn TRB, no TRB overwritten while it is in use, and  *)
(* the ring is a queue.                                                    *)
(***************************************************************************)
EXTENDS TrbRing, SequenceTheorems, TLAPS

(* The position the next TRB will be published at, and the cycle bit it    *)
(* will carry: those of the driver, ahead of it between the store of a     *)
(* control word and the end of Push.                                       *)
Published == writing # "none" /\ "control" \notin todo

End ==
  IF ~Published THEN writeIndex
  ELSE IF writeIndex = Last THEN 0 ELSE writeIndex + 1

EndBit == IF Published /\ writeIndex = Last THEN 1 - cycleBit ELSE cycleBit

(* The slot k TRBs after slot i, and the one k TRBs before. *)
After(i, k)  == IF i + k < Last THEN i + k ELSE i + k - Last
Before(i, k) == IF k <= i THEN i - k ELSE i - k + Last

WriterInv ==
  /\ writing = "none" => todo = {}
  /\ writing = "link" <=> writeIndex = Last
  /\ "body" \in todo => "control" \in todo
  /\ writing # "none" /\ "body" \notin todo => body[writeIndex] = writing

CycleInv == \A i \in Slots : cycle[i] = IF i < End THEN EndBit ELSE 1 - EndBit

LinkInv ==
  /\ \A i \in Slots : i < Last => kind[i] = "trb"
  /\ kind[Last] = "link" => body[Last] = "link"
  /\ kind[Last] = "link" \/ (cycle[Last] = 0 /\ ccs = 1)

RoomInv ==
  /\ Len(pushed) + Len(done) <= MaxOutstanding
  /\ writing \in Items /\ "control" \in todo
       => Len(pushed) + Len(done) < MaxOutstanding

LapInv == Len(pushed) = IF ccs = EndBit THEN End - deq ELSE Last - deq + End

PushedInv == \A k \in 1 .. Len(pushed) : body[After(deq, k - 1)] = pushed[k]

DoneInv == \A k \in 1 .. Len(done) : done[k] = Before(deq, Len(done) - k + 1)

IInv ==
  /\ TypeOK
  /\ WriterInv /\ CycleInv /\ LinkInv /\ RoomInv
  /\ LapInv /\ PushedInv /\ DoneInv

-----------------------------------------------------------------------------
(* Sequences *)

(* Append keeps the elements and adds one. *)
LEMMA AppendFacts ==
  ASSUME NEW S, NEW s \in Seq(S), NEW x \in S
  PROVE  /\ Append(s, x) \in Seq(S)
         /\ Len(Append(s, x)) = Len(s) + 1
         /\ \A k \in 1 .. Len(s) : Append(s, x)[k] = s[k]
         /\ Append(s, x)[Len(s) + 1] = x
  OBVIOUS

(* Tail drops the first element. *)
LEMMA TailFacts ==
  ASSUME NEW S, NEW s \in Seq(S), Len(s) > 0
  PROVE  /\ Tail(s) \in Seq(S)
         /\ Len(Tail(s)) = Len(s) - 1
         /\ \A k \in 1 .. Len(s) - 1 : Tail(s)[k] = s[k + 1]
         /\ Head(s) = s[1] /\ s # <<>>
  OBVIOUS

(* A sequence is empty when its length says so. *)
LEMMA EmptyFacts ==
  ASSUME NEW S, NEW s \in Seq(S)
  PROVE  Len(s) \in Nat /\ (s = <<>> <=> Len(s) = 0)
  OBVIOUS

(* The constants as the arithmetic below needs them. *)
LEMMA Sizes ==
  /\ Last \in Nat /\ Last >= 2 /\ Slots = 0 .. Last /\ Last \in Slots
  /\ MaxOutstanding \in Nat /\ MaxOutstanding >= 1 /\ MaxOutstanding < Last
  BY TrbRingAssumption DEF Last, Slots

-----------------------------------------------------------------------------
(* The type invariant *)

LEMMA InitTypeOK == Init => TypeOK
  <1> SUFFICES ASSUME Init PROVE TypeOK
    OBVIOUS
  <1>1. 0 \in Slots /\ {} \in SUBSET Words /\ 0 \in Bit /\ 1 \in Bit
    BY Sizes DEF Bit
  <1>2. <<>> \in Seq(Slots) /\ <<>> \in Seq(Items)
    OBVIOUS
  <1> QED
    BY <1>1, <1>2 DEF Init, TypeOK, Bodies

(* A TRB the driver stores that is not the link is one of the caller's. *)
LEMMA NextTypeOK == TypeOK /\ WriterInv /\ LapInv /\ CycleInv /\ [Next]_vars => TypeOK'
  <1> SUFFICES ASSUME TypeOK, WriterInv, LapInv, CycleInv, [Next]_vars PROVE TypeOK'
    OBVIOUS
  <1> USE Sizes DEF TypeOK
  <1>1. ASSUME NEW x \in Items, Push(x) PROVE TypeOK'
    BY <1>1 DEF Push, StartCopy, bufVars, hwVars, Bodies, Words
  <1>2. CASE StoreBody
    BY <1>2 DEF StoreBody, hwVars
  <1>3. CASE StoreControl
    <2>1. /\ kind' \in [Slots -> {"trb", "link"}]
          /\ cycle' \in [Slots -> Bit]
          /\ todo' \in SUBSET Words
      BY <1>3 DEF StoreControl
    <2>2. pushed' \in Seq(Items)
      <3>1. CASE writing = "link"
        BY <1>3, <3>1 DEF StoreControl
      <3>2. CASE writing # "link"
        <4>1. writing \in Items
          BY <1>3, <3>2 DEF StoreControl, WriterInv, Bodies
        <4> QED
          BY <1>3, <3>2, <4>1, AppendFacts DEF StoreControl
      <3> QED
        BY <3>1, <3>2
    <2> QED
      BY <1>3, <2>1, <2>2 DEF StoreControl, hwVars
  <1>4. CASE Advance
    <2>1. writeIndex' \in Slots /\ cycleBit' \in Bit
      BY <1>4 DEF Advance, Bit
    <2>2. writing' \in Bodies /\ todo' \in SUBSET Words
      BY <1>4 DEF Advance, StartCopy, Bodies, Words
    <2> QED
      BY <1>4, <2>1, <2>2 DEF Advance, bufVars, hwVars
  <1>5. CASE Handle
    <2>1. done' \in Seq(Slots)
      BY <1>5, EmptyFacts, TailFacts DEF Handle
    <2> QED
      BY <1>5, <2>1 DEF Handle, bufVars, ringVars, hwVars
  <1>6. CASE Consume
    <2>1. deq' \in Slots
      BY <1>6 DEF Consume
    <2>2. done' \in Seq(Slots)
      BY <1>6, AppendFacts DEF Consume
    <2>3. Len(pushed) > 0
      BY <1>6, EmptyFacts, SMTT(30) DEF Consume, Fresh, LapInv, CycleInv, End, EndBit, Bit
    <2>4. pushed' \in Seq(Items)
      BY <1>6, <2>3, TailFacts DEF Consume
    <2> QED
      BY <1>6, <2>1, <2>2, <2>4 DEF Consume, bufVars, ringVars
  <1>7. CASE FollowLink
    BY <1>7 DEF FollowLink, bufVars, ringVars, Bit
  <1>8. CASE UNCHANGED vars
    BY <1>8 DEF vars, bufVars, ringVars, hwVars
  <1> QED
    BY <1>1, <1>2, <1>3, <1>4, <1>5, <1>6, <1>7, <1>8 DEF Next, Driver

-----------------------------------------------------------------------------
(* The inductive invariant *)

LEMMA InitIInv == Init => IInv
  <1> SUFFICES ASSUME Init PROVE IInv
    OBVIOUS
  <1>1. TypeOK
    BY InitTypeOK
  <1>2. ~Published /\ End = 0 /\ EndBit = 1 /\ Len(pushed) = 0 /\ Len(done) = 0
    BY DEF Init, Published, End, EndBit
  <1>3. WriterInv /\ LinkInv
    BY Sizes DEF Init, WriterInv, LinkInv
  <1>4. CycleInv /\ RoomInv /\ LapInv /\ PushedInv /\ DoneInv
    BY <1>2, Sizes DEF Init, CycleInv, RoomInv, LapInv, PushedInv, DoneInv
  <1> QED
    BY <1>1, <1>3, <1>4 DEF IInv

(* A step that leaves the memory, the hardware and what is published alone *)
(* keeps the parts about them.                                             *)
LEMMA SamePublished ==
  ASSUME IInv, UNCHANGED <<bufVars, hwVars, done, pushed>>,
         End' = End, EndBit' = EndBit
  PROVE  CycleInv' /\ LinkInv' /\ LapInv' /\ PushedInv' /\ DoneInv'
  BY DEF IInv, bufVars, hwVars, CycleInv, LinkInv, LapInv, PushedInv, DoneInv,
         After, Before

LEMMA PushIInv ==
  ASSUME IInv, TypeOK', NEW x \in Items, Push(x)
  PROVE  IInv'
  <1> USE Sizes DEF IInv, TypeOK
  <1>1. writing' = x /\ todo' = Words /\ x # "none" /\ x # "link"
    BY TrbRingAssumption DEF Push, StartCopy
  <1>2. writeIndex # Last /\ ~Published /\ ~Published'
    BY <1>1 DEF Push, WriterInv, Published, Words
  <1>3. End' = End /\ EndBit' = EndBit
    BY <1>2 DEF Push, End, EndBit
  <1>4. WriterInv'
    BY <1>1, <1>2 DEF Push, WriterInv, Words
  <1>5. RoomInv'
    BY DEF Push, Room, RoomInv
  <1> QED
    BY <1>3, <1>4, <1>5, SamePublished DEF Push

LEMMA AdvanceIInv ==
  ASSUME IInv, TypeOK', Advance
  PROVE  IInv'
  <1> USE Sizes DEF IInv, TypeOK
  <1>1. Published
    BY DEF Advance, Published
  <1>2. /\ ~Published'
        /\ IF writeIndex = Last THEN writeIndex' = 0 /\ cycleBit' = 1 - cycleBit
           ELSE writeIndex' = writeIndex + 1 /\ cycleBit' = cycleBit
    BY DEF Advance, Published, StartCopy, Words
  <1>3. End' = End /\ EndBit' = EndBit
    BY <1>1, <1>2 DEF End, EndBit
  <1>4. WriterInv'
    BY DEF Advance, StartCopy, WriterInv, Words
  <1>5. RoomInv'
    BY TrbRingAssumption DEF Advance, StartCopy, RoomInv
  <1> QED
    BY <1>3, <1>4, <1>5, SamePublished DEF Advance

(* The TRB being stored is none of those the hardware or a handler may     *)
(* still read.                                                             *)
LEMMA WriterAlone ==
  ASSUME IInv, writing # "none", "control" \in todo
  PROVE  /\ \A k \in 1 .. Len(pushed) : After(deq, k - 1) # writeIndex
         /\ \A k \in 1 .. Len(done) : done[k] # writeIndex
         /\ ~Published /\ End = writeIndex /\ EndBit = cycleBit
         /\ cycle[writeIndex] = 1 - cycleBit
         /\ writing = "link" => ccs = cycleBit
  <1> USE Sizes DEF IInv, TypeOK
  <1>1. ~Published /\ End = writeIndex /\ EndBit = cycleBit
    BY DEF Published, End, EndBit
  <1>2. cycle[writeIndex] = 1 - cycleBit
    BY <1>1 DEF CycleInv
  <1>3. Len(pushed) \in Nat /\ Len(done) \in Nat
    BY EmptyFacts
  <1>4. CASE writing = "link"
    <2>1. writeIndex = Last /\ Len(pushed) + Len(done) < Last
      BY <1>3, <1>4 DEF WriterInv, RoomInv
    <2>2. ccs = cycleBit /\ deq + Len(pushed) = Last
      BY <1>1, <1>3, <2>1 DEF LapInv
    <2>3. \A k \in 1 .. Len(pushed) : After(deq, k - 1) # writeIndex
      BY <1>3, <2>1, <2>2 DEF After
    <2>4. \A k \in 1 .. Len(done) : done[k] # writeIndex
      <3>1. \A j \in 1 .. Len(done) : Before(deq, j) # Last
        BY <1>3, <2>1 DEF Before
      <3> QED
        BY <1>3, <2>1, <3>1 DEF DoneInv
    <2> QED
      BY <1>1, <1>2, <2>2, <2>3, <2>4
  <1>5. CASE writing # "link"
    <2>1. writeIndex < Last /\ Len(pushed) + Len(done) + 1 < Last
      BY <1>3, <1>5 DEF WriterInv, RoomInv, Bodies
    <2>2. Len(pushed) = writeIndex - deq \/ Len(pushed) = Last - deq + writeIndex
      BY <1>1 DEF LapInv
    <2>3. \A k \in 1 .. Len(pushed) : After(deq, k - 1) # writeIndex
      BY <1>3, <2>1, <2>2 DEF After
    <2>4. \A k \in 1 .. Len(done) : done[k] # writeIndex
      BY <1>3, <2>1, <2>2, SMTT(30) DEF DoneInv, Before
    <2> QED
      BY <1>1, <1>2, <1>5, <2>3, <2>4
  <1> QED
    BY <1>4, <1>5

LEMMA StoreBodyIInv ==
  ASSUME IInv, TypeOK', StoreBody
  PROVE  IInv'
  <1> USE Sizes DEF IInv, TypeOK
  <1>1. writing # "none" /\ "control" \in todo /\ "control" \in todo'
    BY DEF StoreBody, WriterInv
  <1>2. /\ \A k \in 1 .. Len(pushed) : After(deq, k - 1) # writeIndex
        /\ \A k \in 1 .. Len(done) : done[k] # writeIndex
    BY <1>1, WriterAlone
  <1>3. End' = End /\ EndBit' = EndBit
    BY <1>1 DEF StoreBody, End, EndBit, Published
  <1>4. WriterInv'
    BY <1>1 DEF StoreBody, WriterInv
  <1>5. CycleInv' /\ LapInv' /\ RoomInv' /\ DoneInv'
    BY <1>1, <1>3 DEF StoreBody, hwVars, CycleInv, LapInv, RoomInv, DoneInv, Before
  <1>6. LinkInv'
    BY <1>1 DEF StoreBody, hwVars, LinkInv, WriterInv
  <1>7. PushedInv'
    <2> SUFFICES ASSUME NEW k \in 1 .. Len(pushed)
                 PROVE  body'[After(deq, k - 1)] = pushed[k]
      BY DEF StoreBody, hwVars, PushedInv, After
    <2>1. body[After(deq, k - 1)] = pushed[k] /\ After(deq, k - 1) # writeIndex
      BY <1>2 DEF PushedInv
    <2> QED
      BY <2>1 DEF StoreBody
  <1> QED
    BY <1>4, <1>5, <1>6, <1>7

LEMMA StoreControlIInv ==
  ASSUME IInv, TypeOK', StoreControl, InOrder
  PROVE  IInv'
  <1> USE Sizes DEF IInv, TypeOK
  <1>1. /\ writing # "none" /\ "control" \in todo /\ "body" \notin todo
        /\ body[writeIndex] = writing
        /\ "control" \notin todo' /\ "body" \notin todo'
    BY DEF StoreControl, MayStoreControl, WriterInv
  <1>2. /\ ~Published /\ End = writeIndex /\ EndBit = cycleBit
        /\ writing = "link" => ccs = cycleBit
    BY <1>1, WriterAlone
  <1>3. Published' /\ UNCHANGED <<writing, writeIndex, cycleBit, body, hwVars, done>>
    BY <1>1 DEF StoreControl, Published
  <1>4. WriterInv'
    BY <1>1 DEF StoreControl, WriterInv
  <1>5. CycleInv'
    BY <1>2, <1>3 DEF StoreControl, CycleInv, End, EndBit, Bit
  <1>6. LinkInv'
    BY <1>1 DEF StoreControl, hwVars, LinkInv, WriterInv
  <1>7. DoneInv'
    BY <1>3 DEF DoneInv, Before, hwVars
  <1>8. CASE writing = "link"
    <2>1. UNCHANGED pushed /\ writeIndex = Last
      BY <1>8 DEF StoreControl, WriterInv
    <2>2. RoomInv' /\ PushedInv'
      BY <1>1, <1>3, <2>1 DEF RoomInv, PushedInv, After, hwVars
    <2>3. LapInv'
      BY <1>2, <1>3, <1>8, <2>1 DEF LapInv, End, EndBit, hwVars, Bit
    <2> QED
      BY <1>4, <1>5, <1>6, <1>7, <2>2, <2>3
  <1>9. CASE writing # "link"
    <2>1. writing \in Items /\ pushed' = Append(pushed, writing) /\ writeIndex < Last
      BY <1>1, <1>9 DEF StoreControl, WriterInv, Bodies
    <2>2. /\ Len(pushed') = Len(pushed) + 1
          /\ \A k \in 1 .. Len(pushed) : pushed'[k] = pushed[k]
          /\ pushed'[Len(pushed) + 1] = writing
      BY <2>1, AppendFacts
    <2>3. Len(pushed) \in Nat /\ Len(done) \in Nat
      BY EmptyFacts
    <2>4. RoomInv'
      BY <1>1, <1>3, <2>1, <2>2, <2>3 DEF RoomInv
    <2>5. LapInv'
      BY <1>2, <1>3, <2>1, <2>2, <2>3 DEF LapInv, End, EndBit, hwVars
    <2>6. After(deq, Len(pushed)) = writeIndex
      BY <1>1, <1>2, <2>1, <2>3 DEF LapInv, RoomInv, After
    <2>7. PushedInv'
      <3> SUFFICES ASSUME NEW k \in 1 .. Len(pushed) + 1
                   PROVE  body[After(deq, k - 1)] = pushed'[k]
        BY <1>3, <2>2 DEF PushedInv, After, hwVars
      <3>0. k \in 1 .. Len(pushed) \/ k = Len(pushed) + 1
        BY <2>3
      <3>1. CASE k \in 1 .. Len(pushed)
        BY <2>2, <3>1 DEF PushedInv
      <3>2. CASE k = Len(pushed) + 1
        BY <1>1, <2>2, <2>3, <2>6, <3>2
      <3> QED
        BY <3>0, <3>1, <3>2
    <2> QED
      BY <1>4, <1>5, <1>6, <1>7, <2>4, <2>5, <2>7
  <1> QED
    BY <1>8, <1>9

LEMMA HandleIInv ==
  ASSUME IInv, TypeOK', Handle
  PROVE  IInv'
  <1> USE Sizes DEF IInv, TypeOK
  <1>1. Len(done) > 0
    BY EmptyFacts DEF Handle
  <1>2. /\ Len(done') = Len(done) - 1
        /\ \A k \in 1 .. Len(done) - 1 : done'[k] = done[k + 1]
    BY <1>1, TailFacts DEF Handle
  <1>3. Len(pushed) \in Nat /\ Len(done) \in Nat
    BY EmptyFacts
  <1>4. End' = End /\ EndBit' = EndBit
    BY DEF Handle, ringVars, End, EndBit, Published
  <1>5. WriterInv' /\ CycleInv' /\ LinkInv' /\ LapInv' /\ PushedInv'
    BY <1>4 DEF Handle, bufVars, ringVars, hwVars, WriterInv, CycleInv, LinkInv,
                LapInv, PushedInv, After
  <1>6. RoomInv'
    BY <1>2, <1>3 DEF Handle, ringVars, RoomInv
  <1>7. DoneInv'
    <2> SUFFICES ASSUME NEW k \in 1 .. Len(done) - 1
                 PROVE  done'[k] = Before(deq, Len(done) - 1 - k + 1)
      BY <1>2 DEF Handle, hwVars, DoneInv, Before
    <2>1. k + 1 \in 1 .. Len(done) /\ Len(done) - (k + 1) + 1 = Len(done) - 1 - k + 1
      BY <1>3
    <2>2. done[k + 1] = Before(deq, Len(done) - (k + 1) + 1)
      BY <2>1 DEF DoneInv
    <2> QED
      BY <1>2, <2>1, <2>2
  <1> QED
    BY <1>5, <1>6, <1>7

(* What the cycle bit tells the controller: there is a TRB at deq that is  *)
(* the oldest of pushed, or the link.                                      *)
LEMMA FreshFacts ==
  ASSUME IInv, Fresh
  PROVE  /\ kind[deq] = "trb" => /\ deq < Last /\ Len(pushed) > 0
                                 /\ body[deq] = pushed[1]
         /\ kind[deq] = "link" => /\ deq = Last /\ body[deq] = "link"
                                  /\ ccs = 1 - EndBit
  <1> USE Sizes DEF IInv, TypeOK
  <1>1. cycle[deq] = IF deq < End THEN EndBit ELSE 1 - EndBit
    BY DEF CycleInv
  <1>2. End \in 0 .. Last /\ EndBit \in Bit
    BY DEF End, EndBit, Bit
  <1>3. ASSUME kind[deq] = "trb"
        PROVE  deq < Last /\ Len(pushed) > 0 /\ body[deq] = pushed[1]
    <2>1. deq < Last
      BY <1>3 DEF Fresh, LinkInv
    <2>2. Len(pushed) > 0
      BY <1>1, <1>2, <2>1 DEF Fresh, LapInv, Bit
    <2>3. Len(pushed) \in Nat
      BY EmptyFacts
    <2>4. 1 \in 1 .. Len(pushed) /\ After(deq, 1 - 1) = deq
      BY <2>1, <2>2, <2>3 DEF After
    <2> QED
      BY <2>1, <2>2, <2>4 DEF PushedInv
  <1>4. ASSUME kind[deq] = "link"
        PROVE  deq = Last /\ body[deq] = "link" /\ ccs = 1 - EndBit
    <2>1. deq = Last /\ body[deq] = "link"
      BY <1>4 DEF LinkInv
    <2> QED
      BY <1>1, <1>2, <2>1 DEF Fresh
  <1> QED
    BY <1>3, <1>4

LEMMA ConsumeIInv ==
  ASSUME IInv, TypeOK', Consume
  PROVE  IInv'
  <1> USE Sizes DEF IInv, TypeOK
  <1>1. deq < Last /\ Len(pushed) > 0 /\ deq' = deq + 1
    BY FreshFacts DEF Consume
  <1>2. /\ Len(pushed') = Len(pushed) - 1
        /\ \A k \in 1 .. Len(pushed) - 1 : pushed'[k] = pushed[k + 1]
    BY <1>1, TailFacts DEF Consume
  <1>3. /\ Len(done') = Len(done) + 1
        /\ \A k \in 1 .. Len(done) : done'[k] = done[k]
        /\ done'[Len(done) + 1] = deq
    BY AppendFacts DEF Consume
  <1>4. Len(pushed) \in Nat /\ Len(done) \in Nat
    BY EmptyFacts
  <1>5. End' = End /\ EndBit' = EndBit
    BY DEF Consume, ringVars, End, EndBit, Published
  <1>6. WriterInv' /\ CycleInv' /\ LinkInv'
    BY <1>5 DEF Consume, bufVars, ringVars, WriterInv, CycleInv, LinkInv
  <1>7. RoomInv'
    BY <1>2, <1>3, <1>4 DEF Consume, ringVars, RoomInv
  <1>8. LapInv'
    <2>1. /\ Len(pushed) = IF ccs = EndBit THEN End - deq ELSE Last - deq + End
          /\ End \in 0 .. Last
      BY DEF LapInv, End
    <2>2. Len(pushed') = IF ccs = EndBit THEN End - (deq + 1) ELSE Last - (deq + 1) + End
      BY <1>1, <1>2, <1>4, <2>1, SMTT(30)
    <2> QED
      BY <1>1, <1>5, <2>2 DEF Consume, LapInv
  <1>9. PushedInv'
    <2> SUFFICES ASSUME NEW k \in 1 .. Len(pushed) - 1
                 PROVE  body[After(deq + 1, k - 1)] = pushed'[k]
      BY <1>1, <1>2 DEF Consume, bufVars, PushedInv, After
    <2>1. k + 1 \in 1 .. Len(pushed) /\ After(deq + 1, k - 1) = After(deq, k + 1 - 1)
      BY <1>4 DEF After
    <2>2. body[After(deq, k + 1 - 1)] = pushed[k + 1]
      BY <2>1 DEF PushedInv
    <2> QED
      BY <1>2, <2>1, <2>2
  <1>10. DoneInv'
    <2> SUFFICES ASSUME NEW k \in 1 .. Len(done) + 1
                 PROVE  done'[k] = Before(deq + 1, Len(done) + 1 - k + 1)
      BY <1>1, <1>3 DEF DoneInv, Before
    <2>1. CASE k = Len(done) + 1
      <3>1. Before(deq + 1, Len(done) + 1 - k + 1) = deq
        BY <1>1, <1>4, <2>1 DEF Before
      <3> QED
        BY <1>3, <2>1, <3>1
    <2>2. CASE k \in 1 .. Len(done)
      <3>1. done'[k] = Before(deq, Len(done) - k + 1)
        BY <1>3, <2>2 DEF DoneInv
      <3>2. Before(deq + 1, Len(done) + 1 - k + 1) = Before(deq, Len(done) - k + 1)
        BY <1>4, <2>2 DEF Before
      <3> QED
        BY <3>1, <3>2
    <2>3. k = Len(done) + 1 \/ k \in 1 .. Len(done)
      BY <1>4
    <2> QED
      BY <2>1, <2>2, <2>3
  <1> QED
    BY <1>6, <1>7, <1>8, <1>9, <1>10

LEMMA FollowLinkIInv ==
  ASSUME IInv, TypeOK', FollowLink
  PROVE  IInv'
  <1> USE Sizes DEF IInv, TypeOK
  <1>1. deq = Last /\ ccs = 1 - EndBit /\ deq' = 0 /\ ccs' = 1 - ccs
    BY FreshFacts DEF FollowLink
  <1>2. End' = End /\ EndBit' = EndBit /\ EndBit \in Bit
    BY DEF FollowLink, ringVars, End, EndBit, Published, Bit
  <1>3. Len(pushed) \in Nat /\ Len(done) \in Nat
    BY EmptyFacts
  <1>4. WriterInv' /\ CycleInv' /\ RoomInv'
    BY <1>2 DEF FollowLink, bufVars, ringVars, WriterInv, CycleInv, RoomInv
  <1>5. LinkInv'
    BY <1>1 DEF FollowLink, bufVars, LinkInv
  <1>6. LapInv'
    <2>1. Len(pushed) = End /\ ccs' = EndBit /\ End \in 0 .. Last
      BY <1>1, <1>2, <1>3 DEF LapInv, End, Bit
    <2> QED
      BY <1>1, <1>2, <2>1 DEF FollowLink, LapInv
  <1>7. Len(pushed) <= Last /\ Len(done) < Last
    BY <1>3 DEF RoomInv
  <1>8. PushedInv'
    <2> SUFFICES ASSUME NEW k \in 1 .. Len(pushed)
                 PROVE  body[After(0, k - 1)] = pushed[k]
      BY <1>1 DEF FollowLink, bufVars, PushedInv, After
    <2>1. After(0, k - 1) = After(deq, k - 1)
      BY <1>1, <1>3, <1>7 DEF After
    <2> QED
      BY <2>1 DEF PushedInv
  <1>9. DoneInv'
    <2> SUFFICES ASSUME NEW k \in 1 .. Len(done)
                 PROVE  done[k] = Before(0, Len(done) - k + 1)
      BY <1>1 DEF FollowLink, DoneInv, Before
    <2>1. Before(0, Len(done) - k + 1) = Before(deq, Len(done) - k + 1)
      BY <1>1, <1>3, <1>7 DEF Before
    <2> QED
      BY <2>1 DEF DoneInv
  <1> QED
    BY <1>4, <1>5, <1>6, <1>8, <1>9

LEMMA NextIInv ==
  ASSUME IInv, [Next]_vars, InOrder
  PROVE  IInv'
  <1>1. TypeOK'
    BY NextTypeOK DEF IInv
  <1>2. ASSUME NEW x \in Items, Push(x) PROVE IInv'
    BY <1>1, <1>2, PushIInv
  <1>3. CASE UNCHANGED vars
    BY <1>3 DEF vars, bufVars, ringVars, hwVars, IInv, TypeOK, WriterInv, CycleInv,
                LinkInv, RoomInv, LapInv, PushedInv, DoneInv, End, EndBit,
                Published, After, Before
  <1> QED
    BY <1>1, <1>2, <1>3, StoreBodyIInv, StoreControlIInv, AdvanceIInv, HandleIInv,
       ConsumeIInv, FollowLinkIInv DEF Next, Driver

LEMMA Invariance ==
  ASSUME InOrder
  PROVE  Spec => []IInv
  <1>1. IInv /\ [Next]_vars => IInv'
    BY NextIInv
  <1> QED
    BY <1>1, InitIInv, PTL DEF Spec

-----------------------------------------------------------------------------
(* The theorems *)

(* Push stays inside the ring and writes words of the right kind, for      *)
(* every size of ring.                                                     *)
THEOREM TypeCorrect ==
  ASSUME InOrder
  PROVE  Spec => []TypeOK
  <1>1. IInv => TypeOK
    BY DEF IInv
  <1> QED
    BY <1>1, Invariance, PTL

(* As long as the stores are seen in program order, a TRB with a fresh     *)
(* cycle bit has the body that was pushed: the comment of CopyToLast says  *)
(* enough.                                                                 *)
THEOREM Untorn ==
  ASSUME InOrder
  PROVE  Spec => []NothingTorn
  <1>1. IInv => NothingTorn
    <2> SUFFICES ASSUME IInv, Fresh
                 PROVE  IF kind[deq] = "link" THEN body[deq] = "link"
                        ELSE pushed # <<>> /\ body[deq] = Head(pushed)
      BY DEF NothingTorn
    <2>1. CASE kind[deq] = "link"
      BY <2>1, FreshFacts
    <2>2. CASE kind[deq] # "link"
      <3>1. kind[deq] = "trb" /\ pushed \in Seq(Items)
        BY <2>2 DEF IInv, TypeOK
      <3>2. Len(pushed) > 0 /\ body[deq] = pushed[1]
        BY <3>1, FreshFacts
      <3> QED
        BY <2>2, <3>1, <3>2, TailFacts
    <2> QED
      BY <2>1, <2>2
  <1> QED
    BY <1>1, Invariance, PTL

(* A store only changes the TRB at the writer's index. *)
LEMMA OnlyTheWriter ==
  ASSUME IInv, [Next]_vars, NEW i \in Slots,
         <<body[i], kind[i], cycle[i]>>' # <<body[i], kind[i], cycle[i]>>
  PROVE  i = writeIndex /\ writing # "none" /\ "control" \in todo
  <1> USE DEF IInv, TypeOK
  <1>1. CASE StoreBody
    BY <1>1 DEF StoreBody, WriterInv
  <1>2. CASE StoreControl
    BY <1>2 DEF StoreControl, WriterInv
  <1>3. ASSUME UNCHANGED bufVars PROVE FALSE
    BY <1>3 DEF bufVars
  <1>4. CASE UNCHANGED vars
    BY <1>3, <1>4 DEF vars
  <1>5. ASSUME NEW x \in Items, Push(x) PROVE FALSE
    BY <1>3, <1>5 DEF Push
  <1> QED
    BY <1>1, <1>2, <1>3, <1>4, <1>5
    DEF Next, Driver, Advance, Handle, Consume, FollowLink

(* Push never overwrites a TRB that the controller or the handler of its   *)
(* event still needs, given that the callers bound what is outstanding:    *)
(* one TRB less than fits before the link.                                 *)
THEOREM Undisturbed ==
  ASSUME InOrder
  PROVE  Spec => NeverOverwritten
  <1>1. IInv /\ [Next]_vars
          => \A i \in Slots : <<body[i], kind[i], cycle[i]>>' # <<body[i], kind[i], cycle[i]>>
                                => ~InUse(i)
    <2> SUFFICES ASSUME IInv, [Next]_vars, NEW i \in Slots,
                        <<body[i], kind[i], cycle[i]>>' # <<body[i], kind[i], cycle[i]>>
                 PROVE  ~InUse(i)
      OBVIOUS
    <2> USE Sizes DEF IInv, TypeOK
    <2>1. i = writeIndex /\ writing # "none" /\ "control" \in todo
      BY OnlyTheWriter
    <2>2. /\ \A k \in 1 .. Len(done) : done[k] # i
          /\ End = i /\ EndBit = cycleBit /\ cycle[i] = 1 - cycleBit
          /\ writing = "link" => ccs = cycleBit
      BY <2>1, WriterAlone
    <2>3. DOMAIN done = 1 .. Len(done) /\ Len(done) \in Nat /\ Len(pushed) \in Nat
      OBVIOUS
    <2>4. i >= deq => ccs = cycleBit
      BY <2>2, <2>3 DEF LapInv, RoomInv
    <2>5. ~Visible(i)
      BY <2>2, <2>4 DEF Visible, Bit
    <2> QED
      BY <2>2, <2>3, <2>5 DEF InUse
  <1> QED
    BY <1>1, Invariance, PTL DEF Spec, NeverOverwritten

-----------------------------------------------------------------------------
(* The ring implements the queue *)

LEMMA ExecutedFacts ==
  ASSUME NEW b \in [Slots -> Bodies], NEW d \in Seq(Slots)
  PROVE  LET e == [k \in DOMAIN d |-> b[d[k]]] IN
         /\ e \in Seq(Bodies) /\ Len(e) = Len(d)
         /\ \A k \in 1 .. Len(d) : e[k] = b[d[k]]
  OBVIOUS

(* Two sequences of the same length with the same elements are the same. *)
LEMMA SameSequence ==
  ASSUME NEW S, NEW s \in Seq(S), NEW t \in Seq(S), Len(s) = Len(t),
         \A k \in 1 .. Len(s) : s[k] = t[k]
  PROVE  s = t
  OBVIOUS

LEMMA InitRefines == Init => Fifo!FifoInit
  BY DEF Init, Fifo!FifoInit, Executed

(* What leaves the queues and the bodies of the executed TRBs alone is no  *)
(* step of the queue.                                                      *)
LEMMA Stutter ==
  ASSUME TypeOK, UNCHANGED <<pushed, done>>,
         \A k \in 1 .. Len(done) : body'[done[k]] = body[done[k]]
  PROVE  UNCHANGED Fifo!fifoVars
  BY DEF TypeOK, Executed, Fifo!fifoVars

LEMMA StoreBodyRefines ==
  ASSUME IInv, StoreBody
  PROVE  UNCHANGED Fifo!fifoVars
  <1>1. \A k \in 1 .. Len(done) : done[k] # writeIndex
    BY WriterAlone DEF IInv, StoreBody, WriterInv
  <1>2. \A k \in 1 .. Len(done) : body'[done[k]] = body[done[k]]
    BY <1>1 DEF IInv, TypeOK, StoreBody
  <1> QED
    BY <1>2, Stutter DEF IInv, StoreBody

LEMMA StoreControlRefines ==
  ASSUME IInv, StoreControl
  PROVE  [\E x \in Items : Fifo!Submit(x)]_(Fifo!fifoVars)
  <1>1. CASE writing = "link"
    BY <1>1, Stutter DEF IInv, StoreControl
  <1>2. CASE writing # "link"
    <2>1. writing \in Items /\ "control" \in todo
      BY <1>2 DEF IInv, TypeOK, WriterInv, Bodies, StoreControl
    <2>2. Len(pushed) + Len(done) < MaxOutstanding
      BY <2>1 DEF IInv, RoomInv
    <2>3. Len(Executed) = Len(done)
      BY ExecutedFacts DEF IInv, TypeOK, Executed
    <2>4. Executed' = Executed /\ pushed' = Append(pushed, writing)
      BY <1>2 DEF StoreControl, Executed
    <2>5. Fifo!Submit(writing)
      BY <2>2, <2>3, <2>4 DEF Fifo!Submit
    <2> QED
      BY <2>1, <2>5
  <1> QED
    BY <1>1, <1>2

LEMMA HandleRefines ==
  ASSUME IInv, IInv', Handle
  PROVE  Fifo!Acknowledge
  <1>1. Len(done) > 0 /\ done \in Seq(Slots) /\ UNCHANGED <<body, pushed>>
    BY EmptyFacts DEF IInv, TypeOK, Handle, bufVars
  <1>2. /\ Len(done') = Len(done) - 1
        /\ \A k \in 1 .. Len(done) - 1 : done'[k] = done[k + 1]
    BY <1>1, TailFacts DEF Handle
  <1>3. /\ Executed \in Seq(Bodies) /\ Len(Executed) = Len(done)
        /\ \A k \in 1 .. Len(done) : Executed[k] = body[done[k]]
    BY ExecutedFacts DEF IInv, TypeOK, Executed
  <1>4. /\ Executed' \in Seq(Bodies) /\ Len(Executed') = Len(done')
        /\ \A k \in 1 .. Len(done') : Executed'[k] = body[done'[k]]
    <2>1. body' \in [Slots -> Bodies] /\ done' \in Seq(Slots) /\ body' = body
      BY <1>1 DEF IInv, TypeOK
    <2> QED
      BY <2>1, ExecutedFacts DEF Executed
  <1>5. /\ Tail(Executed) \in Seq(Bodies) /\ Len(Tail(Executed)) = Len(done) - 1
        /\ \A k \in 1 .. Len(done) - 1 : Tail(Executed)[k] = Executed[k + 1]
        /\ Executed # <<>>
    BY <1>1, <1>3, TailFacts
  <1>6. \A k \in 1 .. Len(done) - 1 : Executed'[k] = Tail(Executed)[k]
    <2>1. Len(done) \in Nat
      BY <1>1, EmptyFacts
    <2>2. \A k \in 1 .. Len(done) - 1 : k + 1 \in 1 .. Len(done)
      BY <2>1
    <2> QED
      BY <1>1, <1>2, <1>3, <1>4, <1>5, <2>2, SMTT(30)
  <1>7. Executed' = Tail(Executed)
    BY <1>2, <1>4, <1>5, <1>6, SameSequence
  <1> QED
    BY <1>1, <1>5, <1>7 DEF Fifo!Acknowledge

LEMMA ConsumeRefines ==
  ASSUME IInv, IInv', Consume
  PROVE  Fifo!Execute
  <1>1. /\ Len(pushed) > 0 /\ body[deq] = pushed[1] /\ deq \in Slots
        /\ done \in Seq(Slots) /\ pushed \in Seq(Items) /\ UNCHANGED body
        /\ body[deq] \in Bodies
    BY FreshFacts DEF IInv, TypeOK, Consume, bufVars
  <1>2. pushed # <<>> /\ Head(pushed) = pushed[1] /\ pushed' = Tail(pushed)
    BY <1>1, TailFacts DEF Consume
  <1>3. /\ Len(done') = Len(done) + 1
        /\ \A k \in 1 .. Len(done) : done'[k] = done[k]
        /\ done'[Len(done) + 1] = deq
    BY <1>1, AppendFacts DEF Consume
  <1>4. /\ Executed \in Seq(Bodies) /\ Len(Executed) = Len(done)
        /\ \A k \in 1 .. Len(done) : Executed[k] = body[done[k]]
    BY ExecutedFacts DEF IInv, TypeOK, Executed
  <1>5. /\ Executed' \in Seq(Bodies) /\ Len(Executed') = Len(done')
        /\ \A k \in 1 .. Len(done') : Executed'[k] = body[done'[k]]
    <2>1. body' \in [Slots -> Bodies] /\ done' \in Seq(Slots) /\ body' = body
      BY <1>1 DEF IInv, TypeOK
    <2> QED
      BY <2>1, ExecutedFacts DEF Executed
  <1>6. /\ Append(Executed, body[deq]) \in Seq(Bodies)
        /\ Len(Append(Executed, body[deq])) = Len(done) + 1
        /\ \A k \in 1 .. Len(done) : Append(Executed, body[deq])[k] = Executed[k]
        /\ Append(Executed, body[deq])[Len(done) + 1] = body[deq]
    BY <1>1, <1>4, AppendFacts
  <1>7. \A k \in 1 .. Len(done) + 1 : Executed'[k] = Append(Executed, body[deq])[k]
    <2>1. Len(done) \in Nat
      BY <1>1, EmptyFacts
    <2>2. \A k \in 1 .. Len(done) + 1 : k \in 1 .. Len(done) \/ k = Len(done) + 1
      BY <2>1
    <2> QED
      BY <1>3, <1>4, <1>5, <1>6, <2>2
  <1>8. Executed' = Append(Executed, body[deq])
    BY <1>3, <1>5, <1>6, <1>7, SameSequence
  <1> QED
    BY <1>1, <1>2, <1>8 DEF Fifo!Execute

LEMMA NextRefines ==
  ASSUME IInv, IInv', [Next]_vars
  PROVE  [Fifo!FifoNext]_(Fifo!fifoVars)
  <1>1. ASSUME UNCHANGED <<pushed, done, body>>
        PROVE  UNCHANGED Fifo!fifoVars
    BY <1>1, Stutter DEF IInv
  <1>2. ASSUME NEW x \in Items, Push(x) PROVE UNCHANGED <<pushed, done, body>>
    BY <1>2 DEF Push, bufVars
  <1>3. CASE Advance \/ FollowLink \/ UNCHANGED vars
    BY <1>1, <1>3 DEF Advance, FollowLink, vars, bufVars
  <1>4. CASE StoreBody
    BY <1>4, StoreBodyRefines
  <1>5. CASE StoreControl
    BY <1>5, StoreControlRefines DEF Fifo!FifoNext
  <1>6. CASE Handle
    BY <1>6, HandleRefines DEF Fifo!FifoNext
  <1>7. CASE Consume
    BY <1>7, ConsumeRefines DEF Fifo!FifoNext
  <1> QED
    BY <1>1, <1>2, <1>3, <1>4, <1>5, <1>6, <1>7 DEF Next, Driver

(* A ring of any size is a queue: TRBs are executed once, in the order and *)
(* with the body they were pushed with, and their handlers find them.      *)
THEOREM Refinement ==
  ASSUME InOrder
  PROVE  Spec => ImplementsFifo
  <1>1. IInv /\ IInv' /\ [Next]_vars => [Fifo!FifoNext]_(Fifo!fifoVars)
    BY NextRefines
  <1> QED
    BY <1>1, InitRefines, Invariance, PTL DEF Spec, ImplementsFifo, Fifo!FifoSpec
=============================================================================

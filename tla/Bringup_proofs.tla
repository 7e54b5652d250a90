--------------------------- MODULE Bringup_proofs ---------------------------
(***************************************************************************)
(* The bring-up, for every set of machines and any number of devices.      *)
(* What AllocMem hands out is separate, for every sequence of requests and *)
(* so for what the kernel asks it for.  The controller is taken over in    *)
(* order, whatever the firmware does until it lets go, and has been given  *)
(* what it needs when it runs.  The recursive scan comes back, though the  *)
(* bridges may lead in a circle; where the buses are numbered it has found *)
(* all that can be reached, and KernelMain its controller among it.        *)
(***************************************************************************)
EXTENDS Bringup, FiniteSetTheorems, WellFoundedInduction, TLAPS

(* Requests whose alignment and boundary are multiples of one another, as  *)
(* powers of two are.                                                      *)
Requests ==
  {r \in [size : Nat \ {0}, alignment : Nat, boundary : Nat] :
     r.alignment > 0 /\ r.boundary > 0 =>
       r.boundary % r.alignment = 0 \/ r.alignment % r.boundary = 0}

PoolInit == \E base \in Nat : pool = Untouched(base)
PoolNext == \E r \in Requests : pool' = AllocMem(pool, r)
PoolSpec == PoolInit /\ [][PoolNext]_pool

Blocks == [at : Nat, for : Requests]
Pools  == [base : Nat, ptr : Nat, blocks : SUBSET Blocks, nulls : Nat]

(* Everything handed out lies before alloc_ptr.                            *)
Behind(p) ==
  /\ p.base <= p.ptr
  /\ \A b \in p.blocks : b.at + b.for.size <= p.ptr

PoolInv(p) == p \in Pools /\ Behind(p) /\ Separate(p)

-----------------------------------------------------------------------------
(* Arithmetic *)

(* Ceil is the next multiple.                                              *)
LEMMA CeilFacts ==
  ASSUME NEW v \in Nat, NEW a \in Nat \ {0}
  PROVE  /\ Ceil(v, a) \in Nat /\ Ceil(v, a) % a = 0
         /\ v <= Ceil(v, a) /\ Ceil(v, a) < v + a
<1>1. (v + a - 1) \div a \in Nat
  OBVIOUS
<1>2. ((v + a - 1) \div a) * a \in Nat
  BY <1>1
<1>3. v <= ((v + a - 1) \div a) * a /\ ((v + a - 1) \div a) * a < v + a
  OBVIOUS
<1>4. \A q \in Nat : (q * a) % a = 0
  OBVIOUS
<1> QED
  BY <1>1, <1>2, <1>3, <1>4 DEF Ceil

(* A multiple is the number times something.                               *)
LEMMA Multiple ==
  ASSUME NEW v \in Nat, NEW a \in Nat \ {0}, v % a = 0
  PROVE  \E q \in Nat : v = q * a
  OBVIOUS

(* And something times the number is a multiple.                          *)
LEMMA MultipleMod ==
  ASSUME NEW q \in Nat, NEW a \in Nat \ {0}
  PROVE  (q * a) % a = 0
  OBVIOUS

(* Multiplying keeps the order.                                            *)
LEMMA Monotone ==
  ASSUME NEW x \in Nat, NEW y \in Nat, NEW a \in Nat \ {0}, x <= y
  PROVE  x * a <= y * a
<1>1. PICK d \in Nat : y = x + d
  BY y - x \in Nat
<1>2. d * a \in Nat /\ (x + d) * a = x * a + d * a
  OBVIOUS
<1> QED
  BY <1>1, <1>2

(* A multiple of a multiple is a multiple.                                 *)
LEMMA MultipleTransitive ==
  ASSUME NEW v \in Nat, NEW b \in Nat \ {0}, NEW a \in Nat \ {0}, v % b = 0, b % a = 0
  PROVE  v % a = 0
<1>1. PICK q \in Nat : v = q * b
  BY Multiple
<1>2. PICK k \in Nat : b = k * a
  BY Multiple
<1>3. q * k \in Nat /\ v = (q * k) * a
  BY <1>1, <1>2
<1> QED
  BY <1>3, MultipleMod

(* A multiple is its own next multiple.                                    *)
LEMMA CeilOfMultiple ==
  ASSUME NEW v \in Nat, NEW a \in Nat \ {0}, v % a = 0
  PROVE  Ceil(v, a) = v
<1>1. PICK q \in Nat : v = q * a
  BY Multiple
<1>2. PICK k \in Nat : Ceil(v, a) = k * a
  BY CeilFacts, Multiple
<1>3. q * a <= k * a /\ k * a < q * a + a
  BY <1>1, <1>2, CeilFacts
<1>4. ~(k < q)
  <2> SUFFICES ASSUME k < q PROVE FALSE
    OBVIOUS
  <2>1. (k + 1) * a <= q * a /\ (k + 1) * a = k * a + a
    BY Monotone
  <2> QED
    BY <1>3, <2>1
<1>5. ~(k > q)
  <2> SUFFICES ASSUME k > q PROVE FALSE
    OBVIOUS
  <2>1. (q + 1) * a <= k * a /\ (q + 1) * a = q * a + a
    BY Monotone
  <2> QED
    BY <1>3, <2>1
<1> QED
  BY <1>1, <1>2, <1>4, <1>5

(* What ends before the next multiple does not lie across one.             *)
LEMMA WithinMultiple ==
  ASSUME NEW v \in Nat, NEW s \in Nat \ {0}, NEW b \in Nat \ {0}, NEW q \in Nat,
         q * b <= v, v + s <= q * b + b
  PROVE  v \div b = (v + s - 1) \div b
<1>1. v \div b = q
  BY v - q * b \in 0..(b - 1)
<1>2. (v + s - 1) \div b = q
  OBVIOUS
<1> QED
  BY <1>1, <1>2

-----------------------------------------------------------------------------
(* Where a block is placed: not before alloc_ptr, at its alignment, and    *)
(* not across a boundary it fits between.                                  *)
LEMMA PlaceFacts ==
  ASSUME NEW p \in Pools, NEW r \in Requests
  PROVE  /\ Place(p, r) \in Nat /\ p.ptr <= Place(p, r)
         /\ r.alignment > 0 => Place(p, r) % r.alignment = 0
         /\ r.boundary >= r.size /\ r.boundary > 0 =>
              Place(p, r) \div r.boundary = (Place(p, r) + r.size - 1) \div r.boundary
<1> DEFINE A == Aligned(p, r)
           C == Ceil(A, r.boundary)
<1>1. p.ptr \in Nat /\ r.size \in Nat \ {0} /\ r.alignment \in Nat /\ r.boundary \in Nat
  BY DEF Pools, Requests
<1>2. A \in Nat /\ p.ptr <= A /\ (r.alignment > 0 => A % r.alignment = 0)
  <2>1. CASE r.alignment > 0
    <3>1. r.alignment \in Nat \ {0} /\ A = Ceil(p.ptr, r.alignment)
      BY <1>1, <2>1 DEF Aligned
    <3> QED
      BY <1>1, <3>1, CeilFacts, Zenon
  <2>2. CASE ~(r.alignment > 0)
    BY <1>1, <2>2 DEF Aligned
  <2> QED
    BY <2>1, <2>2
<1> HIDE DEF A
<1>3. r.boundary > 0 => C \in Nat /\ C % r.boundary = 0 /\ A <= C /\ C < A + r.boundary
  <2> SUFFICES ASSUME r.boundary > 0
               PROVE  C \in Nat /\ C % r.boundary = 0 /\ A <= C /\ C < A + r.boundary
    OBVIOUS
  <2>1. r.boundary \in Nat \ {0}
    BY <1>1
  <2> QED
    BY <1>2, <2>1, CeilFacts, Zenon
<1>0. r.boundary > 0 => r.boundary \in Nat \ {0}
  BY <1>1
<1> HIDE DEF C
<1>4. CASE r.boundary > 0 /\ C < A + r.size
  <2>1. Place(p, r) = C
    BY <1>4 DEF Place, A, C
  <2>2. r.alignment > 0 => C % r.alignment = 0
    <3> SUFFICES ASSUME r.alignment > 0 PROVE C % r.alignment = 0
      OBVIOUS
    <3>1. CASE r.boundary % r.alignment = 0
      BY <1>1, <1>3, <1>4, <3>1, MultipleTransitive
    <3>2. CASE r.alignment % r.boundary = 0
      <4>1. A % r.boundary = 0
        BY <1>1, <1>2, <1>4, <3>2, MultipleTransitive
      <4>2. C = A
        BY <1>1, <1>2, <1>4, <4>1, CeilOfMultiple DEF C
      <4> QED
        BY <1>2, <4>2
    <3> QED
      BY <1>4, <3>1, <3>2 DEF Requests
  <2>3. r.boundary >= r.size => C \div r.boundary = (C + r.size - 1) \div r.boundary
    <3>1. PICK q \in Nat : C = q * r.boundary
      BY <1>0, <1>3, <1>4, Multiple, Zenon
    <3>2. q * r.boundary <= C /\ (r.boundary >= r.size => C + r.size <= q * r.boundary + r.boundary)
      BY <1>1, <1>3, <1>4, <3>1
    <3> QED
      BY <1>0, <1>1, <1>3, <1>4, <3>2, WithinMultiple, ZenonT(60)
  <2> QED
    BY <1>1, <1>2, <1>3, <1>4, <2>1, <2>2, <2>3
<1>5. CASE ~(r.boundary > 0 /\ C < A + r.size)
  <2>1. Place(p, r) = A
    BY <1>5 DEF Place, A, C
  <2>2. r.boundary > 0 => A \div r.boundary = (A + r.size - 1) \div r.boundary
    <3> SUFFICES ASSUME r.boundary > 0
                 PROVE  A \div r.boundary = (A + r.size - 1) \div r.boundary
      OBVIOUS
    <3>1. PICK k \in Nat : C = k * r.boundary
      BY <1>0, <1>3, Multiple, Zenon
    <3>2. A + r.size <= C
      BY <1>1, <1>2, <1>3, <1>5
    <3>3. k # 0
      BY <1>1, <1>2, <3>1, <3>2
    <3>4. k - 1 \in Nat /\ (k - 1) * r.boundary + r.boundary = C
      BY <1>1, <3>1, <3>3
    <3>5. (k - 1) * r.boundary <= A /\ A + r.size <= (k - 1) * r.boundary + r.boundary
      BY <1>1, <1>2, <1>3, <3>2, <3>4
    <3> QED
      BY <1>0, <1>1, <1>2, <3>4, <3>5, WithinMultiple, ZenonT(60)
  <2> QED
    BY <1>1, <1>2, <2>1, <2>2
<1> QED
  BY <1>4, <1>5

-----------------------------------------------------------------------------
(* The block AllocMem hands out, or would.                                 *)
NewBlock(p, r) == [at |-> Place(p, r), for |-> r]

(* What AllocMem changes of a pool.                                        *)
LEMMA AllocFields ==
  ASSUME NEW p \in Pools, NEW r \in Requests, NEW q, q = AllocMem(p, r)
  PROVE  /\ q \in Pools /\ q.base = p.base
         /\ Fits(p, r) => /\ q.ptr = Place(p, r) + r.size /\ q.nulls = p.nulls
                          /\ q.blocks = p.blocks \cup {NewBlock(p, r)}
         /\ ~Fits(p, r) => /\ q.ptr = Place(p, r) /\ q.nulls = p.nulls + 1
                           /\ q.blocks = p.blocks
<1> DEFINE at == Place(p, r)
           new == NewBlock(p, r)
<1>1. at \in Nat /\ r.size \in Nat
  BY PlaceFacts DEF Requests
<1>2. new \in Blocks
  BY <1>1 DEF Blocks, NewBlock
<1>3. /\ p.base \in Nat /\ p.ptr \in Nat /\ p.nulls \in Nat /\ p.blocks \in SUBSET Blocks
      /\ p = [base |-> p.base, ptr |-> p.ptr, blocks |-> p.blocks, nulls |-> p.nulls]
  BY DEF Pools
<1>4. CASE Fits(p, r)
  <2>1. q = [p EXCEPT !.ptr = at + r.size, !.blocks = @ \cup {new}]
    BY <1>4 DEF AllocMem, NewBlock
  <2> HIDE DEF at, new
  <2>2. q = [base |-> p.base, ptr |-> at + r.size,
             blocks |-> p.blocks \cup {new}, nulls |-> p.nulls]
    BY <1>3, <2>1
  <2>3. at + r.size \in Nat /\ p.blocks \cup {new} \in SUBSET Blocks
    BY <1>1, <1>2, <1>3
  <2>4. q \in Pools
    BY <1>3, <2>2, <2>3 DEF Pools
  <2> QED
    BY <1>4, <2>2, <2>4 DEF at, new
<1>5. CASE ~Fits(p, r)
  <2>1. q = [p EXCEPT !.ptr = at, !.nulls = @ + 1]
    BY <1>5 DEF AllocMem
  <2> HIDE DEF at, new
  <2>2. q = [base |-> p.base, ptr |-> at, blocks |-> p.blocks, nulls |-> p.nulls + 1]
    BY <1>3, <2>1
  <2>3. q \in Pools
    BY <1>1, <1>3, <2>2 DEF Pools
  <2> QED
    BY <1>5, <2>2, <2>3 DEF at, new
<1> QED
  BY <1>4, <1>5

(* AllocMem hands out the block where Place says, which is behind all      *)
(* others; or moves alloc_ptr on and hands out nothing.                    *)
LEMMA AllocKeeps ==
  ASSUME NEW p, PoolInv(p), NEW r \in Requests, NEW q, q = AllocMem(p, r)
  PROVE  PoolInv(q)
<1> DEFINE at == Place(p, r)
           new == NewBlock(p, r)
<1>1. /\ p \in Pools /\ Behind(p) /\ Separate(p)
      /\ p.base \in Nat /\ p.ptr \in Nat /\ p.blocks \in SUBSET Blocks
      /\ r.size \in Nat \ {0} /\ r.alignment \in Nat /\ r.boundary \in Nat
  BY DEF PoolInv, Pools, Requests
<1>2. /\ at \in Nat /\ p.ptr <= at
      /\ r.alignment > 0 => at % r.alignment = 0
      /\ r.boundary >= r.size /\ r.boundary > 0 =>
            at \div r.boundary = (at + r.size - 1) \div r.boundary
  BY <1>1, PlaceFacts
<1>3. /\ q \in Pools /\ q.base = p.base
      /\ Fits(p, r) => q.ptr = at + r.size /\ q.blocks = p.blocks \cup {new}
      /\ ~Fits(p, r) => q.ptr = at /\ q.blocks = p.blocks
  BY <1>1, AllocFields
<1>4. new.at = at /\ new.for = r
  BY DEF NewBlock
<1>5. \A b \in p.blocks : b.at \in Nat /\ b.for.size \in Nat /\ b.at + b.for.size <= p.ptr
  BY <1>1 DEF Behind, Blocks, Requests
<1>6. Fits(p, r) => at + r.size <= p.base + PoolSize
  BY DEF Fits
<1> HIDE DEF at, new
<1>7. \A b \in p.blocks : b.at + b.for.size <= at
  <2> SUFFICES ASSUME NEW b \in p.blocks PROVE b.at + b.for.size <= at
    OBVIOUS
  <2> QED
    BY <1>1, <1>2, <1>5
<1>8. CASE Fits(p, r)
  <2>1. Behind(q)
    <3>1. q.base <= q.ptr
      BY <1>1, <1>2, <1>3, <1>8 DEF Behind
    <3>2. \A b \in p.blocks : b.at + b.for.size <= q.ptr
      <4> SUFFICES ASSUME NEW b \in p.blocks PROVE b.at + b.for.size <= q.ptr
        OBVIOUS
      <4> QED
        BY <1>1, <1>2, <1>3, <1>5, <1>7, <1>8
    <3>3. new.at + new.for.size <= q.ptr
      BY <1>1, <1>2, <1>3, <1>4, <1>8
    <3> QED
      BY <1>3, <1>8, <3>1, <3>2, <3>3 DEF Behind
  <2>2. WellPlaced(q, new)
    BY <1>1, <1>2, <1>3, <1>4, <1>6, <1>8 DEF WellPlaced, Across, Behind
  <2>3. \A b \in p.blocks : WellPlaced(q, b)
    BY <1>1, <1>3 DEF Separate, WellPlaced
  <2>4. \A b \in p.blocks : Apart(b, new) /\ Apart(new, b)
    BY <1>4, <1>7 DEF Apart
  <2>5. \A b, c \in p.blocks : b # c => Apart(b, c)
    BY <1>1 DEF Separate
  <2>6. Separate(q)
    BY <1>3, <1>8, <2>2, <2>3, <2>4, <2>5 DEF Separate
  <2> QED
    BY <1>3, <2>1, <2>6 DEF PoolInv
<1>9. CASE ~Fits(p, r)
  <2>1. Behind(q)
    BY <1>1, <1>2, <1>3, <1>7, <1>9 DEF Behind
  <2>2. Separate(q)
    BY <1>1, <1>3, <1>9 DEF Separate, WellPlaced
  <2> QED
    BY <1>3, <2>1, <2>2 DEF PoolInv
<1> QED
  BY <1>8, <1>9

(* An untouched pool has no block that could be misplaced.                 *)
LEMMA UntouchedInv ==
  ASSUME NEW base \in Nat
  PROVE  PoolInv(Untouched(base))
  BY DEF PoolInv, Untouched, Pools, Behind, Separate

(* However much is asked for and in whatever order, the blocks AllocMem    *)
(* hands out lie in the pool, at their alignment, within their boundary    *)
(* and apart from each other.                                              *)
THEOREM PoolSeparate == PoolSpec => []Separate(pool)
<1>1. PoolInit => PoolInv(pool)
  BY UntouchedInv DEF PoolInit
<1>2. PoolInv(pool) /\ [PoolNext]_pool => PoolInv(pool)'
  <2> SUFFICES ASSUME PoolInv(pool), [PoolNext]_pool PROVE PoolInv(pool')
    BY DEF PoolInv, Behind, Separate, WellPlaced, Across, Apart
  <2> QED
    BY AllocKeeps DEF PoolNext
<1>3. PoolInv(pool) => Separate(pool)
  BY DEF PoolInv
<1> QED
  BY <1>1, <1>2, <1>3, PTL DEF PoolSpec

-----------------------------------------------------------------------------
(* What the kernel knows of a pool after an allocation *)

ScratchpadBuffers(p) == {b \in p.blocks : b.for = ScratchpadBuffer}

Sixteenths(p) == \A b \in p.blocks : b.at % 16 = 0

(* The requests that come out at a multiple of 16: the others ask for no   *)
(* alignment and get it where alloc_ptr has it.                            *)
Steady(p, r) ==
  \/ r.alignment > 0 /\ r.alignment % 16 = 0
  \/ r.alignment = 0 /\ r.boundary = 0 /\ p.ptr % 16 = 0

(* What the kernel relies on of a pool.                                    *)
Good(p) == PoolInv(p) /\ IsFiniteSet(p.blocks) /\ Sixteenths(p)

-----------------------------------------------------------------------------
(* The places of the program *)

Early      == {"Scan", "Find", "ReadBar", "Command", "Switch", "DevMgr"}
Owning     == {"Own", "WaitOwn", "Stop"}
Before     == Early \cup Owning
Writing    == {"Slots", "Scratchpads", "Buffers", "Contexts", "CommandRing", "Register",
               "EventRing", "Segment", "Interrupter"}
Halted     == {"Reset", "WaitReset", "WaitReady", "Run"} \cup Writing
Afterwards == {"WaitRun", "Ports"}
Places     == Before \cup {"WaitHalt", "Undefined"} \cup Halted \cup Afterwards

Flags ==
  /\ bios \in BOOLEAN /\ os \in BOOLEAN /\ run \in BOOLEAN
  /\ reset \in BOOLEAN /\ halted \in BOOLEAN /\ cnr \in BOOLEAN

(* The firmware only has the controller while it has not been asked for it *)
(* or has not answered; what it had it left running or halted, not between *)
(* the two.                                                                *)
OwnershipInv ==
  /\ bios => /\ 1 \in ToSet(machine.capabilities)
             /\ pc \in Early \cup {"Own", "WaitOwn", "Undefined"}
  /\ pc \in Early \cup {"Own"} => ~(os /\ bios)
  /\ pc = "WaitOwn" => os
  /\ pc \in Before /\ ~bios => halted = ~run

(* Once halted the controller stays so until Run: nobody else starts it.   *)
HaltInv ==
  /\ pc \in {"WaitHalt"} \cup Halted => ~run
  /\ pc \in Halted => halted

(* A reset is under way only while it is waited for.                       *)
ResetInv ==
  /\ reset => pc = "WaitReset"
  /\ cnr => pc \in {"WaitReset", "WaitReady"}

(* Initialize goes on only without an error, and each register it has      *)
(* passed holds what it wrote.                                             *)
ProgramInv ==
  /\ err \in {"kSuccess", "kNoEnoughMemory"}
  /\ err = "kNoEnoughMemory" => pc \in {"Run"} \cup Afterwards
  /\ err = "kSuccess" =>
       /\ pc \in {"Scratchpads", "Buffers", "Contexts"} => {"CONFIG"} \subseteq programmed
       /\ pc \in {"CommandRing", "Register"} => {"CONFIG", "DCBAAP"} \subseteq programmed
       /\ pc \in {"EventRing", "Segment"} => {"CONFIG", "DCBAAP", "CRCR"} \subseteq programmed
       /\ pc = "Interrupter" => {"CONFIG", "DCBAAP", "CRCR", "ERST"} \subseteq programmed
       /\ pc \in {"Run"} \cup Afterwards => Needed \subseteq programmed

(* The pool belongs to the machine and nothing is taken before Initialize; *)
(* after it, alloc_ptr is at a multiple of 16 again.                       *)
MemoryInv ==
  /\ machine \in Machines
  /\ Good(pool) /\ pool.base = machine.base
  /\ pc \in Early => pool = Untouched(machine.base)
  /\ err = "kSuccess" /\ pc \in {"Segment", "Interrupter", "Run"} \cup Afterwards =>
       pool.ptr % 16 = 0

(* How far alloc_ptr can have got where there are no more scratchpad       *)
(* buffers than fit: the first goes to a page, the others follow it.       *)
RoomInv ==
  machine.scratchpads <= Fitting /\ pc \in Owning \cup {"WaitHalt"} \cup Halted =>
    /\ err = "kSuccess" /\ pool.nulls = 0
    /\ pc \in Owning \cup {"WaitHalt", "Reset", "WaitReset", "WaitReady", "Slots",
                           "Scratchpads"} => pool.ptr <= pool.base + 352
    /\ pc = "Buffers" =>
         IF buffers = 0 THEN pool.ptr <= pool.base + 896
         ELSE pool.ptr % Page = 0 /\ pool.ptr <= pool.base + 4991 + Page * buffers
    /\ pc \in {"Contexts", "CommandRing"} => pool.ptr <= pool.base + 127871
    /\ pc \in {"Register", "EventRing"} => pool.ptr <= pool.base + 129023

(* Then every scratchpad buffer that was asked for has been got.           *)
CountInv ==
  machine.scratchpads <= Fitting =>
    /\ buffers \in 0..machine.scratchpads
    /\ Cardinality(ScratchpadBuffers(pool)) = buffers
    /\ err = "kSuccess"
    /\ pc \in Before \cup {"WaitHalt", "Reset", "WaitReset", "WaitReady", "Slots",
                           "Scratchpads"} => buffers = 0
    /\ pc = "Buffers" => buffers < machine.scratchpads
    /\ pc \in {"Contexts", "CommandRing", "Register", "EventRing", "Segment",
               "Interrupter", "Run"} \cup Afterwards => buffers = machine.scratchpads

IInv ==
  /\ pc \in Places /\ Flags
  /\ OwnershipInv /\ HaltInv /\ ResetInv
  /\ ProgramInv /\ MemoryInv /\ RoomInv /\ CountInv

-----------------------------------------------------------------------------
(* Allocations of the kernel *)

(* All that the kernel asks for are requests as above.                     *)
LEMMA KernelRequests ==
  /\ {DeviceArray, ContextArray, ScratchpadBuffer, TrbBuffer, SegmentTable,
      Request(3584, 64, Page), Request(2288, 0, 0), Request(32, 64, Page)} \subseteq Requests
  /\ machine.scratchpads \in Nat \ {0} => ScratchpadArray \in Requests
  BY DEF Requests, Request, DeviceArray, ContextArray, ScratchpadArray, ScratchpadBuffer,
         TrbBuffer, SegmentTable, SlotCount, Page

(* A request takes no more than its size twice, once to be moved to a      *)
(* boundary, and its alignment; it is served where there is room for that. *)
LEMMA AllocRoom ==
  ASSUME NEW p, PoolInv(p), NEW r \in Requests, NEW q, q = AllocMem(p, r),
         p.ptr + r.alignment + 2 * r.size <= p.base + PoolSize
  PROVE  /\ Fits(p, r) /\ q.nulls = p.nulls
         /\ q.ptr <= p.ptr + r.alignment + 2 * r.size
<1> DEFINE A == Aligned(p, r)
           C == Ceil(A, r.boundary)
<1>1. /\ p \in Pools /\ p.ptr \in Nat /\ p.base \in Nat /\ PoolSize \in Nat
      /\ r.size \in Nat \ {0} /\ r.alignment \in Nat /\ r.boundary \in Nat
  BY PoolAssumption DEF PoolInv, Pools, Requests
<1>2. A \in Nat /\ A <= p.ptr + r.alignment
  <2>1. CASE r.alignment > 0
    <3>1. r.alignment \in Nat \ {0} /\ A = Ceil(p.ptr, r.alignment)
      BY <1>1, <2>1 DEF Aligned
    <3>2. A \in Nat /\ A < p.ptr + r.alignment
      BY <1>1, <3>1, CeilFacts, ZenonT(60)
    <3> QED
      BY <1>1, <3>2
  <2>2. CASE ~(r.alignment > 0)
    BY <1>1, <2>2 DEF Aligned
  <2> QED
    BY <2>1, <2>2
<1>3. Place(p, r) \in Nat
  BY <1>1, PlaceFacts
<1>4. Place(p, r) <= A + r.size
  <2>1. CASE r.boundary > 0 /\ C < A + r.size
    <3>1. Place(p, r) = C /\ C < A + r.size
      BY <2>1 DEF Place
    <3> QED
      BY <1>1, <1>2, <1>3, <3>1
  <2>2. CASE ~(r.boundary > 0 /\ C < A + r.size)
    <3>1. Place(p, r) = A
      BY <2>2 DEF Place
    <3> QED
      BY <1>1, <1>2, <3>1
  <2> QED
    BY <2>1, <2>2
<1> HIDE DEF A, C
<1>5. Place(p, r) + r.size <= p.ptr + r.alignment + 2 * r.size
  BY <1>1, <1>2, <1>3, <1>4
<1>6. Fits(p, r)
  BY <1>1, <1>3, <1>5 DEF Fits
<1> QED
  BY <1>1, <1>5, <1>6, AllocFields

(* Where the blocks lie at multiples of 16, a steady request keeps it so.  *)
LEMMA AllocSixteenths ==
  ASSUME NEW p, PoolInv(p), Sixteenths(p), NEW r \in Requests, Steady(p, r),
         NEW q, q = AllocMem(p, r)
  PROVE  /\ Sixteenths(q)
         /\ r.size % 16 = 0 /\ Fits(p, r) => q.ptr % 16 = 0
<1>1. /\ p \in Pools /\ p.ptr \in Nat /\ p.blocks \in SUBSET Blocks
      /\ r.size \in Nat \ {0} /\ r.alignment \in Nat /\ r.boundary \in Nat
  BY DEF PoolInv, Pools, Requests
<1>2. Place(p, r) \in Nat /\ (r.alignment > 0 => Place(p, r) % r.alignment = 0)
  BY <1>1, PlaceFacts
<1>3. Place(p, r) % 16 = 0
  <2>1. CASE r.alignment > 0 /\ r.alignment % 16 = 0
    <3>1. r.alignment \in Nat \ {0} /\ 16 \in Nat \ {0} /\ Place(p, r) % r.alignment = 0
      BY <1>1, <1>2, <2>1
    <3> QED
      BY <1>2, <2>1, <3>1, MultipleTransitive, ZenonT(60)
  <2>2. CASE r.alignment = 0 /\ r.boundary = 0 /\ p.ptr % 16 = 0
    BY <1>1, <2>2 DEF Place, Aligned
  <2> QED
    BY <2>1, <2>2 DEF Steady
<1>4. /\ Fits(p, r) => q.ptr = Place(p, r) + r.size /\ q.blocks = p.blocks \cup {NewBlock(p, r)}
      /\ ~Fits(p, r) => q.blocks = p.blocks
  BY <1>1, AllocFields
<1>5. NewBlock(p, r).at = Place(p, r)
  BY DEF NewBlock
<1>6. Sixteenths(q)
  BY <1>3, <1>4, <1>5 DEF Sixteenths
<1>7. r.size % 16 = 0 => (Place(p, r) + r.size) % 16 = 0
  BY <1>1, <1>2, <1>3
<1> QED
  BY <1>4, <1>6, <1>7

(* An allocation keeps it, and adds no scratchpad buffer unless asked.     *)
LEMMA AllocOther ==
  ASSUME NEW p, Good(p), NEW r \in Requests, Steady(p, r), r.size # Page,
         NEW q, q = AllocMem(p, r)
  PROVE  /\ Good(q) /\ q.base = p.base
         /\ q.nulls = p.nulls + (IF Fits(p, r) THEN 0 ELSE 1)
         /\ ScratchpadBuffers(q) = ScratchpadBuffers(p)
         /\ r.size % 16 = 0 /\ Fits(p, r) => q.ptr % 16 = 0
<1>1. PoolInv(p) /\ IsFiniteSet(p.blocks) /\ Sixteenths(p) /\ p \in Pools /\ p.nulls \in Nat
  BY DEF Good, PoolInv, Pools
<1>2. /\ q.base = p.base
      /\ Fits(p, r) => q.nulls = p.nulls /\ q.blocks = p.blocks \cup {NewBlock(p, r)}
      /\ ~Fits(p, r) => q.nulls = p.nulls + 1 /\ q.blocks = p.blocks
  BY <1>1, AllocFields
<1>3. PoolInv(q)
  BY <1>1, AllocKeeps
<1>4. Sixteenths(q) /\ (r.size % 16 = 0 /\ Fits(p, r) => q.ptr % 16 = 0)
  BY <1>1, AllocSixteenths
<1>5. IsFiniteSet(q.blocks)
  BY <1>1, <1>2, FS_AddElement
<1>6. NewBlock(p, r).for # ScratchpadBuffer
  BY DEF NewBlock, ScratchpadBuffer, Request
<1>7. ScratchpadBuffers(q) = ScratchpadBuffers(p)
  BY <1>2, <1>6 DEF ScratchpadBuffers
<1>8. q.nulls = p.nulls + (IF Fits(p, r) THEN 0 ELSE 1)
  BY <1>1, <1>2
<1> QED
  BY <1>2, <1>3, <1>4, <1>5, <1>7, <1>8 DEF Good

(* A scratchpad buffer that is got is one more, as it lies apart.          *)
LEMMA AllocBuffer ==
  ASSUME NEW p, Good(p), NEW q, q = AllocMem(p, ScratchpadBuffer)
  PROVE  /\ Good(q) /\ q.base = p.base
         /\ q.nulls = p.nulls + (IF Fits(p, ScratchpadBuffer) THEN 0 ELSE 1)
         /\ Fits(p, ScratchpadBuffer) =>
              Cardinality(ScratchpadBuffers(q)) = Cardinality(ScratchpadBuffers(p)) + 1
<1> DEFINE r   == ScratchpadBuffer
           new == NewBlock(p, r)
<1>1. PoolInv(p) /\ IsFiniteSet(p.blocks) /\ Sixteenths(p) /\ p \in Pools /\ Behind(p)
      /\ p.nulls \in Nat /\ p.ptr \in Nat /\ p.blocks \in SUBSET Blocks
  BY DEF Good, PoolInv, Pools
<1>2. r \in Requests /\ Steady(p, r) /\ r.size = 4096
  BY KernelRequests DEF Steady, ScratchpadBuffer, Request, Page
<1> HIDE DEF r
<1>3. /\ q.base = p.base
      /\ Fits(p, r) => q.nulls = p.nulls /\ q.blocks = p.blocks \cup {new}
      /\ ~Fits(p, r) => q.nulls = p.nulls + 1 /\ q.blocks = p.blocks
  BY <1>1, <1>2, AllocFields DEF r
<1>4. PoolInv(q) /\ Sixteenths(q)
  BY <1>1, <1>2, AllocKeeps, AllocSixteenths DEF r
<1>5. IsFiniteSet(q.blocks)
  BY <1>1, <1>3, FS_AddElement
<1>6. new \notin p.blocks
  <2> SUFFICES ASSUME new \in p.blocks PROVE FALSE
    OBVIOUS
  <2>1. new.at = Place(p, r) /\ new.for = r
    BY DEF NewBlock
  <2>2. new.at + new.for.size <= p.ptr
    BY <1>1 DEF Behind
  <2>3. Place(p, r) \in Nat /\ p.ptr <= Place(p, r)
    BY <1>1, <1>2, PlaceFacts
  <2> QED
    BY <1>1, <1>2, <2>1, <2>2, <2>3
<1>7. Fits(p, r) => ScratchpadBuffers(q) = ScratchpadBuffers(p) \cup {new}
  BY <1>3 DEF ScratchpadBuffers, NewBlock, r
<1>8. IsFiniteSet(ScratchpadBuffers(p)) /\ new \notin ScratchpadBuffers(p)
  BY <1>1, <1>6, FS_Subset DEF ScratchpadBuffers
<1>9. Fits(p, r) => Cardinality(ScratchpadBuffers(q)) = Cardinality(ScratchpadBuffers(p)) + 1
  BY <1>7, <1>8, FS_AddElement
<1>10. q.nulls = p.nulls + (IF Fits(p, r) THEN 0 ELSE 1)
  BY <1>1, <1>3
<1> QED
  BY <1>3, <1>4, <1>5, <1>9, <1>10 DEF Good, r

(* Two requests, of which the second is not made when the first is refused *)
LEMMA PairOther ==
  ASSUME NEW p, Good(p), NEW r1 \in Requests, NEW r2 \in Requests,
         Steady(p, r1), r2.alignment > 0 /\ r2.alignment % 16 = 0,
         r1.size # Page, r2.size # Page, NEW q, q = AllocPair(p, r1, r2)
  PROVE  /\ Good(q) /\ q.base = p.base /\ q.nulls >= p.nulls
         /\ ScratchpadBuffers(q) = ScratchpadBuffers(p)
         /\ r2.size % 16 = 0 /\ q.nulls = p.nulls => q.ptr % 16 = 0
         /\ p.ptr + r1.alignment + 2 * r1.size + r2.alignment + 2 * r2.size
                <= p.base + PoolSize =>
              /\ q.nulls = p.nulls
              /\ q.ptr <= p.ptr + r1.alignment + 2 * r1.size + r2.alignment + 2 * r2.size
<1> DEFINE m == AllocMem(p, r1)
<1>1. /\ Good(m) /\ m.base = p.base
      /\ m.nulls = p.nulls + (IF Fits(p, r1) THEN 0 ELSE 1)
      /\ ScratchpadBuffers(m) = ScratchpadBuffers(p)
  BY AllocOther
<1>2. q = IF m.nulls > p.nulls THEN m ELSE AllocMem(m, r2)
  BY DEF AllocPair
<1>3. Steady(m, r2) /\ PoolInv(p) /\ PoolInv(m)
  BY <1>1 DEF Steady, Good
<1>4. /\ p.ptr \in Nat /\ p.base \in Nat /\ p.nulls \in Nat /\ m.ptr \in Nat /\ m.base \in Nat
      /\ m.nulls \in Nat /\ PoolSize \in Nat
      /\ r1.size \in Nat /\ r1.alignment \in Nat /\ r2.size \in Nat /\ r2.alignment \in Nat
  BY <1>3, PoolAssumption DEF PoolInv, Pools, Requests
<1>5. p.ptr + r1.alignment + 2 * r1.size <= p.base + PoolSize =>
        m.nulls = p.nulls /\ m.ptr <= p.ptr + r1.alignment + 2 * r1.size
  BY <1>3, AllocRoom
<1> HIDE DEF m
<1>6. CASE m.nulls > p.nulls
  BY <1>1, <1>2, <1>4, <1>5, <1>6
<1>7. CASE ~(m.nulls > p.nulls)
  <2>1. q = AllocMem(m, r2) /\ m.nulls = p.nulls
    BY <1>1, <1>2, <1>4, <1>7
  <2>2. /\ Good(q) /\ q.base = m.base
        /\ q.nulls = m.nulls + (IF Fits(m, r2) THEN 0 ELSE 1)
        /\ ScratchpadBuffers(q) = ScratchpadBuffers(m)
        /\ r2.size % 16 = 0 /\ Fits(m, r2) => q.ptr % 16 = 0
    BY <1>1, <1>3, <2>1, AllocOther
  <2>3. m.ptr + r2.alignment + 2 * r2.size <= m.base + PoolSize =>
          q.nulls = m.nulls /\ q.ptr <= m.ptr + r2.alignment + 2 * r2.size
    BY <1>3, <2>1, AllocRoom
  <2>4. PoolInv(q) /\ q.ptr \in Nat
    BY <2>2 DEF Good, PoolInv, Pools
  <2> QED
    BY <1>1, <1>4, <1>5, <2>1, <2>2, <2>3, <2>4
<1> QED
  BY <1>6, <1>7

(* The two arrays of the device manager always fit.                        *)
LEMMA DeviceArraysFit ==
  ASSUME NEW base \in Nat, base % 16 = 0, NEW q,
         q = AllocPair(Untouched(base), DeviceArray, ContextArray)
  PROVE  /\ Good(q) /\ q.base = base /\ q.nulls = 0 /\ q.ptr <= base + 352
         /\ ScratchpadBuffers(q) = {}
<1> DEFINE p == Untouched(base)
<1>1. /\ Good(p) /\ p.base = base /\ p.ptr = base /\ p.nulls = 0
      /\ ScratchpadBuffers(p) = {}
  BY UntouchedInv, FS_EmptySet DEF Good, Untouched, Sixteenths, ScratchpadBuffers
<1>2. /\ DeviceArray \in Requests /\ ContextArray \in Requests
      /\ DeviceArray.size = 72 /\ DeviceArray.alignment = 0 /\ DeviceArray.boundary = 0
      /\ ContextArray.size = 72 /\ ContextArray.alignment = 64
  BY KernelRequests DEF DeviceArray, ContextArray, Request, SlotCount
<1> HIDE DEF p
<1>3. Steady(p, DeviceArray)
  BY <1>1, <1>2 DEF Steady
<1>4. 131072 <= PoolSize /\ PoolSize \in Nat
  BY RoomAssumption, PoolAssumption DEF Page
<1>5. DeviceArray.size # Page /\ ContextArray.size # Page /\ ContextArray.alignment % 16 = 0
      /\ ContextArray.alignment > 0
  BY <1>2 DEF Page
<1>6. q = AllocPair(p, DeviceArray, ContextArray)
  BY DEF p
<1>7. /\ Good(q) /\ q.base = p.base /\ ScratchpadBuffers(q) = ScratchpadBuffers(p)
      /\ p.ptr + DeviceArray.alignment + 2 * DeviceArray.size + ContextArray.alignment
             + 2 * ContextArray.size <= p.base + PoolSize =>
           /\ q.nulls = p.nulls
           /\ q.ptr <= p.ptr + DeviceArray.alignment + 2 * DeviceArray.size
                         + ContextArray.alignment + 2 * ContextArray.size
  BY <1>1, <1>2, <1>3, <1>5, <1>6, PairOther
<1> QED
  BY <1>1, <1>2, <1>4, <1>7

-----------------------------------------------------------------------------
(* The least of some numbers                                               *)
LEMMA LowestMember ==
  ASSUME NEW S \in SUBSET Nat, S # {}
  PROVE  \E x \in S : \A y \in S : x <= y
<1>0. PICK R : R = OpToRel(<, Nat)
  OBVIOUS
<1>1. IsWellFoundedOn(R, Nat)
  BY <1>0, NatLessThanWellFounded, Zenon
<1>2. PICK x \in S : \A y \in S : ~ (<<y, x>> \in R)
  BY <1>1, WFMin
<1>3. ASSUME NEW y \in S, y < x PROVE FALSE
  <2>1. <<y, x>> \in R
    BY <1>0, <1>3, Zenon DEF OpToRel
  <2> QED
    BY <1>2, <2>1
<1> QED
  BY <1>2, <1>3

(* Induction, for the set of numbers of which something holds.             *)
LEMMA Induction ==
  ASSUME NEW S, 0 \in S, \A n \in Nat : n \in S => n + 1 \in S
  PROVE  \A n \in Nat : n \in S
<1> SUFFICES ASSUME NEW n \in Nat, n \notin S PROVE FALSE
  OBVIOUS
<1>1. PICK x \in Nat \ S : \A y \in Nat \ S : x <= y
  BY LowestMember
<1>2. x - 1 \in Nat /\ x - 1 \in S
  BY <1>1
<1>3. (x - 1) + 1 \in S
  BY <1>2
<1> QED
  BY <1>1, <1>3

(* What a request of a handler leaves behind: alloc_ptr is where the next  *)
(* wants it, if it was served, and no scratchpad buffer was taken.         *)
Spends(u, v) ==
  /\ Good(v) /\ v.base = u.base /\ v.nulls >= u.nulls
  /\ v.nulls = u.nulls => v.ptr % 16 = 0
  /\ ScratchpadBuffers(v) = ScratchpadBuffers(u)

LEMMA SpendsBoth ==
  ASSUME NEW u, Good(u), NEW v, Spends(u, v), NEW w, Spends(v, w)
  PROVE  Spends(u, w)
<1>1. u.nulls \in Nat /\ v.nulls \in Nat /\ w.nulls \in Nat
  BY DEF Spends, Good, PoolInv, Pools
<1>2. v.nulls >= u.nulls /\ w.nulls >= v.nulls
  BY DEF Spends
<1>3. w.nulls >= u.nulls /\ (w.nulls = u.nulls => w.nulls = v.nulls)
  BY <1>1, <1>2
<1> QED
  BY <1>3 DEF Spends

Wants(r) ==
  /\ r \in Requests /\ r.size # Page /\ r.size % 16 = 0
  /\ \/ r.alignment % 16 = 0 /\ r.alignment > 0
     \/ r.alignment = 0 /\ r.boundary = 0

LEMMA RequestSpends ==
  ASSUME NEW u, Good(u), NEW r, Wants(r), r.alignment > 0 \/ u.ptr % 16 = 0
  PROVE  Spends(u, AllocMem(u, r))
<1>1. Steady(u, r) /\ r \in Requests /\ r.size # Page /\ r.size % 16 = 0
  BY DEF Steady, Wants
<1>2. u.nulls \in Nat
  BY DEF Good, PoolInv, Pools
<1> DEFINE v == AllocMem(u, r)
<1>3. /\ Good(v) /\ v.base = u.base
      /\ v.nulls = u.nulls + (IF Fits(u, r) THEN 0 ELSE 1)
      /\ ScratchpadBuffers(v) = ScratchpadBuffers(u)
      /\ Fits(u, r) => v.ptr % 16 = 0
  BY <1>1, AllocOther
<1> QED
  BY <1>2, <1>3 DEF Spends

(* What the handlers ask for                                               *)
LEMMA DeviceRequests ==
  /\ Wants(Request(32, 64, Page)) /\ Request(32, 64, Page).alignment > 0
  /\ Wants(TrbBuffer) /\ TrbBuffer.alignment > 0
  /\ Wants(Request(3584, 64, Page)) /\ Request(3584, 64, Page).alignment > 0
  /\ Wants(Request(2288, 0, 0))
  BY KernelRequests DEF Wants, Request, TrbBuffer, Page

LEMMA RingSpends ==
  ASSUME NEW u, Good(u)
  PROVE  Spends(u, AllocRing(u))
<1> DEFINE context == Request(32, 64, Page)
           v == AllocMem(u, context)
           w == AllocMem(v, TrbBuffer)
<1>1. AllocRing(u) = w
  BY DEF AllocRing
<1>2. /\ Wants(context) /\ context.alignment > 0
      /\ Wants(TrbBuffer) /\ TrbBuffer.alignment > 0
  BY DeviceRequests
<1> HIDE DEF context
<1>3. Spends(u, v)
  BY <1>2, RequestSpends
<1> HIDE DEF v
<1>4. Good(v)
  BY <1>3 DEF Spends
<1>5. Spends(v, w)
  BY <1>2, <1>4, RequestSpends
<1> HIDE DEF w
<1> QED
  BY <1>1, <1>3, <1>5, SpendsBoth

(* The rings up to any number of them are a function.                      *)
RingsUpTo(f, p, n) ==
  f = [k \in 0..n |-> IF k = 0 THEN p ELSE AllocRing(f[k - 1])]

LEMMA RingsDefined ==
  ASSUME NEW p
  PROVE  \A n \in Nat : \E f : RingsUpTo(f, p, n)
<1> DEFINE S == {n \in Nat : \E f : RingsUpTo(f, p, n)}
<1>1. 0 \in S
  <2>1. RingsUpTo([k \in 0..0 |-> p], p, 0)
    BY DEF RingsUpTo
  <2> QED
    BY <2>1
<1>2. ASSUME NEW n \in Nat, n \in S PROVE n + 1 \in S
  <2>1. PICK f : RingsUpTo(f, p, n)
    BY <1>2
  <2> DEFINE g == [k \in 0..n + 1 |-> IF k <= n THEN f[k] ELSE AllocRing(f[n])]
  <2>2. /\ DOMAIN f = 0..n /\ f[0] = p
        /\ \A k \in 1..n : f[k] = AllocRing(f[k - 1])
    BY <2>1 DEF RingsUpTo
  <2>3. g[0] = p
    BY <2>2
  <2>4. ASSUME NEW k \in 1..n + 1 PROVE g[k] = AllocRing(g[k - 1])
    <3>1. k - 1 \in 0..n /\ g[k - 1] = f[k - 1]
      OBVIOUS
    <3>2. CASE k <= n
      BY <2>2, <3>1, <3>2
    <3>3. CASE k = n + 1
      BY <3>1, <3>3
    <3> QED
      BY <3>2, <3>3
  <2>5. g = [k \in 0..n + 1 |-> g[k]]
    OBVIOUS
  <2> HIDE DEF g
  <2>6. RingsUpTo(g, p, n + 1)
    <3>1. \A k \in 0..n + 1 : g[k] = IF k = 0 THEN p ELSE AllocRing(g[k - 1])
      BY <2>3, <2>4
    <3> QED
      BY <2>5, <3>1, Zenon DEF RingsUpTo
  <2> QED
    BY <2>6
<1> HIDE DEF S
<1>3. \A n \in Nat : n \in S
  BY <1>1, <1>2, Induction
<1> QED
  BY <1>3 DEF S

LEMMA RingsFacts ==
  ASSUME NEW p
  PROVE  /\ AllocRings(p, 0) = p
         /\ \A n \in 1..MaxRings : AllocRings(p, n) = AllocRing(AllocRings(p, n - 1))
<1> DEFINE after == CHOOSE f : f = [k \in 0..MaxRings |->
                                      IF k = 0 THEN p ELSE AllocRing(f[k - 1])]
<1>1. MaxRings \in Nat
  BY MachinesAssumption
<1>2. \E f : RingsUpTo(f, p, MaxRings)
  BY <1>1, RingsDefined
<1>3. RingsUpTo(after, p, MaxRings)
  BY <1>2, Zenon DEF RingsUpTo
<1>4. \A n : AllocRings(p, n) = after[n]
  BY Zenon DEF AllocRings
<1> HIDE DEF after
<1>5. after[0] = p /\ \A n \in 1..MaxRings : after[n] = AllocRing(after[n - 1])
  BY <1>1, <1>3 DEF RingsUpTo
<1> QED
  BY <1>4, <1>5, Zenon

LEMMA RingsSpend ==
  ASSUME NEW p, Good(p), p.ptr % 16 = 0
  PROVE  \A n \in 0..MaxRings : Spends(p, AllocRings(p, n))
<1> DEFINE S == {n \in Nat : n <= MaxRings => Spends(p, AllocRings(p, n))}
<1>0. MaxRings \in Nat
  BY MachinesAssumption
<1>1. 0 \in S
  <2>1. p.nulls \in Nat
    BY DEF Good, PoolInv, Pools
  <2>2. Spends(p, p)
    BY <2>1 DEF Spends
  <2> QED
    BY <2>2, RingsFacts
<1>2. ASSUME NEW n \in Nat, n \in S PROVE n + 1 \in S
  <2>1. SUFFICES ASSUME n + 1 <= MaxRings PROVE Spends(p, AllocRings(p, n + 1))
    OBVIOUS
  <2>2. n + 1 \in 1..MaxRings /\ (n + 1) - 1 = n /\ n <= MaxRings
    BY <1>0, <2>1
  <2>3. Spends(p, AllocRings(p, n))
    BY <1>2, <2>2
  <2>4. AllocRings(p, n + 1) = AllocRing(AllocRings(p, n))
    BY <2>2, RingsFacts
  <2>5. Good(AllocRings(p, n))
    BY <2>3 DEF Spends
  <2> QED
    BY <2>3, <2>4, <2>5, RingSpends, SpendsBoth
<1> HIDE DEF S
<1>3. \A n \in Nat : n \in S
  BY <1>1, <1>2, Induction
<1> QED
  BY <1>0, <1>3 DEF S

(* The buffers of a device or a class driver leave alloc_ptr where the     *)
(* next wants it, if they are got, and are no scratchpad buffers.          *)
LEMMA DeviceServed ==
  ASSUME NEW p, Good(p), p.ptr % 16 = 0, NEW handler \in 1..3, NEW q \in Served(p, handler)
  PROVE  Spends(p, q)
<1>1. CASE handler = 1
  <2> DEFINE r == Request(3584, 64, Page)
             v == AllocMem(p, r)
  <2>1. q = AllocRing(v)
    BY <1>1 DEF Served
  <2>2. Wants(r) /\ r.alignment > 0
    BY DeviceRequests
  <2> HIDE DEF r
  <2>3. Spends(p, v)
    BY <2>2, RequestSpends
  <2> HIDE DEF v
  <2>4. Spends(v, q)
    BY <2>1, <2>3, RingSpends DEF Spends
  <2> QED
    BY <2>3, <2>4, SpendsBoth
<1>2. CASE handler = 2
  <2> DEFINE r == Request(2288, 0, 0)
  <2>1. q = AllocMem(p, r)
    BY <1>2 DEF Served
  <2>2. Wants(r)
    BY DeviceRequests
  <2> HIDE DEF r
  <2> QED
    BY <2>1, <2>2, RequestSpends
<1>3. CASE handler = 3
  <2>1. PICK n \in 0..MaxRings : q = AllocRings(p, n)
    BY <1>3 DEF Served
  <2> QED
    BY <2>1, RingsSpend
<1> QED
  BY <1>1, <1>2, <1>3

-----------------------------------------------------------------------------
(* A primed part about the pool is that part of the primed pool.           *)
LEMMA Primed ==
  /\ Good(pool)' <=> Good(pool')
  /\ ScratchpadBuffers(pool)' = ScratchpadBuffers(pool')
  BY DEF Good, PoolInv, Behind, Separate, WellPlaced, Across, Apart, Sixteenths,
         ScratchpadBuffers, Blocks, Pools, Requests, ScratchpadBuffer, Request

(* What is assumed of a machine.                                           *)
LEMMA MachineFacts ==
  ASSUME machine \in Machines
  PROVE  /\ machine.base \in Nat /\ machine.base % 16 = 0 /\ machine.scratchpads \in Nat
         /\ 131072 <= PoolSize /\ PoolSize \in Nat
<1>1. machine.base \in Nat /\ machine.base % 64 = 0 /\ machine.scratchpads \in Nat
  BY MachinesAssumption
<1>2. machine.base % 16 = 0
  BY <1>1
<1>3. 131072 <= PoolSize /\ PoolSize \in Nat
  BY RoomAssumption, PoolAssumption DEF Page
<1> QED
  BY <1>1, <1>2, <1>3

(* The invariant holds when KernelMain begins.                             *)
LEMMA InitIInv == InitKernel => IInv
<1> SUFFICES ASSUME InitKernel PROVE IInv
  OBVIOUS
<1> USE DEF InitKernel, InitController
<1>1. machine \in Machines /\ pool = Untouched(machine.base) /\ pc = "Scan" /\ buffers = 0
      /\ err = "kSuccess"
  OBVIOUS
<1>2. machine.base \in Nat /\ machine.scratchpads \in Nat
  BY <1>1, MachineFacts
<1>3. /\ Good(pool) /\ pool.base = machine.base /\ ScratchpadBuffers(pool) = {}
      /\ pool.nulls = 0
  BY <1>1, <1>2, UntouchedInv, FS_EmptySet
     DEF Good, Untouched, Sixteenths, ScratchpadBuffers
<1>4. Cardinality(ScratchpadBuffers(pool)) = 0
  BY <1>3, FS_EmptySet
<1>5. MemoryInv
  BY <1>1, <1>3 DEF MemoryInv, Afterwards
<1>6. RoomInv
  BY <1>1 DEF RoomInv, Owning, Halted, Writing
<1>7. CountInv
  BY <1>1, <1>2, <1>4 DEF CountInv, Afterwards
<1>8. bios \in BOOLEAN /\ (bios => 1 \in ToSet(machine.capabilities))
  <2>1. bios \in {FALSE, 1 \in ToSet(machine.capabilities)}
    BY Zenon
  <2>2. CASE 1 \in ToSet(machine.capabilities)
    <3>1. (1 \in ToSet(machine.capabilities)) = TRUE
      BY <2>2, SMT
    <3> QED
      BY <2>1, <2>2, <3>1, Zenon
  <2>3. CASE ~(1 \in ToSet(machine.capabilities))
    <3>1. (1 \in ToSet(machine.capabilities)) = FALSE
      BY <2>3, SMT
    <3> QED
      BY <2>1, <2>3, <3>1, Zenon
  <2> QED
    BY <2>2, <2>3, Zenon
<1>9. os \in BOOLEAN /\ ~(os /\ bios)
  <2>1. os \in {FALSE, ~bios /\ 1 \in ToSet(machine.capabilities)}
    BY Zenon
  <2>2. CASE os = FALSE
    BY <2>2
  <2>3. CASE os = (~bios /\ 1 \in ToSet(machine.capabilities))
    BY <2>3, <1>8
  <2> QED
    BY <2>1, <2>2, <2>3, Zenon
<1>10. /\ pc = "Scan" /\ err = "kSuccess" /\ reset = FALSE /\ cnr = FALSE
      /\ run \in BOOLEAN /\ halted = ~run
  OBVIOUS
<1>11. pc \in Places /\ Flags /\ OwnershipInv /\ HaltInv /\ ResetInv /\ ProgramInv
  <2> HIDE DEF InitKernel, InitController
  <2> QED
    BY <1>8, <1>10, <1>9
       DEF Places, Before, Early, Owning, Halted, Writing, Afterwards, Flags, OwnershipInv,
           HaltInv, ResetInv, ProgramInv
<1> QED
  BY <1>5, <1>6, <1>7, <1>11 DEF IInv

-----------------------------------------------------------------------------
(* No step of the kernel, the firmware or the controller breaks the part   *)
(* that is about control.                                                  *)
LEMMA ControlStep ==
  ASSUME IInv, [Next]_vars
  PROVE  (pc \in Places /\ Flags /\ OwnershipInv /\ HaltInv /\ ResetInv /\ ProgramInv)'
<1> USE DEF IInv, Places, Before, Early, Owning, Halted, Writing, Afterwards, Flags,
            OwnershipInv, HaltInv, ResetInv, ProgramInv, regs, Needed
<1>1. CASE UNCHANGED vars
  BY <1>1 DEF vars, initVars
<1>2. CASE Scan \/ FindXhc \/ LocateXhc \/ EnableOnBus \/ SwitchEhci2Xhci
  <2>1. CASE Scan
    BY <2>1 DEF Scan
  <2>2. CASE FindXhc
    BY <2>2 DEF FindXhc
  <2>3. CASE LocateXhc
    BY <2>3 DEF LocateXhc
  <2>4. CASE EnableOnBus
    BY <2>4 DEF EnableOnBus
  <2>5. CASE SwitchEhci2Xhci
    BY <2>5 DEF SwitchEhci2Xhci
  <2> QED
    BY <1>2, <2>1, <2>2, <2>3, <2>4, <2>5
<1>3. CASE InitializeDeviceManager
  <2>1. pool'.nulls = pool.nulls
    <3>1. pool = Untouched(machine.base) /\ machine \in Machines
      BY <1>3 DEF InitializeDeviceManager, MemoryInv
    <3>2. pool' = AllocPair(Untouched(machine.base), DeviceArray, ContextArray)
      BY <1>3, <3>1 DEF InitializeDeviceManager, AllocatesOrReturns
    <3>3. pool'.nulls = 0
      BY <3>1, <3>2, MachineFacts, DeviceArraysFit
    <3> QED
      BY <3>1, <3>3 DEF Untouched
  <2> QED
    BY <1>3, <2>1 DEF InitializeDeviceManager, AllocatesOrReturns
<1>4. CASE RequestHCOwnership
  BY <1>4 DEF RequestHCOwnership
<1>5. CASE WaitForOwnership
  BY <1>5 DEF WaitForOwnership
<1>6. CASE Stop
  BY <1>6 DEF Stop
<1>7. CASE WaitForHalt
  BY <1>7 DEF WaitForHalt
<1>8. CASE StartReset
  BY <1>8 DEF StartReset
<1>9. CASE WaitForReset
  BY <1>9 DEF WaitForReset
<1>10. CASE SetMaxSlots
  BY <1>10 DEF SetMaxSlots, Writes
<1>11. CASE SetContexts
  BY <1>11 DEF SetContexts, Writes
<1>12. CASE RegisterCommandRing
  BY <1>12 DEF RegisterCommandRing, Writes
<1>13. CASE SetSegmentTable
  BY <1>13 DEF SetSegmentTable, Writes
<1>14. CASE EnableInterrupter
  BY <1>14 DEF EnableInterrupter, Writes
<1>15. CASE AllocateScratchpadArray
  BY <1>15 DEF AllocateScratchpadArray
<1>16. CASE AllocateScratchpadBuffer
  BY <1>16 DEF AllocateScratchpadBuffer
<1>17. CASE InitializeCommandRing
  BY <1>17 DEF InitializeCommandRing, AllocatesOrReturns
<1>18. CASE InitializeEventRing
  BY <1>18 DEF InitializeEventRing, AllocatesOrReturns
<1>19. CASE Run
  BY <1>19 DEF Run
<1>20. CASE WaitForRun
  BY <1>20 DEF WaitForRun
<1>21. CASE FirmwareLetsGo
  BY <1>21 DEF FirmwareLetsGo
<1>22. CASE FirmwareUses
  BY <1>22 DEF FirmwareUses
<1>23. CASE Halts
  BY <1>23 DEF Halts
<1>24. CASE Starts
  BY <1>24 DEF Starts
<1>25. CASE Resets
  BY <1>25 DEF Resets
<1>26. CASE GetsReady
  BY <1>26 DEF GetsReady
<1>27. CASE \E handler \in 1..3 : EnumerateDevice(handler)
  BY <1>27 DEF EnumerateDevice
<1> QED
  BY <1>1, <1>2, <1>3, <1>4, <1>5, <1>6, <1>7, <1>8, <1>9, <1>10, <1>11, <1>12, <1>13,
     <1>14, <1>15, <1>16, <1>17, <1>18, <1>19, <1>20, <1>21, <1>22, <1>23, <1>24, <1>25,
     <1>26, <1>27
     DEF Next, KernelMain, AfterScan, InitializeController, Hardware, Answers

(* Where a step that allocates nothing can go                              *)
QuietMove ==
  \/ pc' = pc
  \/ pc \in Early \ {"DevMgr"} /\ pc' \in Early \cup {"Undefined"}
  \/ /\ pc \in Owning \cup {"WaitHalt", "Reset", "WaitReset", "WaitReady", "Slots"}
     /\ pc' \in Owning \cup {"WaitHalt", "Reset", "WaitReset", "WaitReady", "Slots",
                             "Scratchpads"}
  \/ pc = "Scratchpads" /\ machine.scratchpads = 0 /\ pc' = "Contexts"
  \/ pc = "Contexts" /\ pc' = "CommandRing"
  \/ pc = "Register" /\ pc' = "EventRing"
  \/ pc \in {"Segment", "Interrupter"} /\ pc' \in {"Interrupter", "Run"}
  \/ pc \in {"Run", "WaitRun"} /\ pc' \in Afterwards

(* They leave alone what is said of the pool.                              *)
LEMMA QuietMoves ==
  ASSUME IInv, pool' = pool, machine' = machine, buffers' = buffers, err' = err, QuietMove
  PROVE  MemoryInv' /\ RoomInv' /\ CountInv'
<1>1. /\ MemoryInv /\ RoomInv /\ CountInv /\ ProgramInv
      /\ machine \in Machines /\ Good(pool) /\ pool.base = machine.base
  BY DEF IInv, MemoryInv
<1>2. /\ Good(pool)' /\ ScratchpadBuffers(pool)' = ScratchpadBuffers(pool)
      /\ Cardinality(ScratchpadBuffers(pool))' = Cardinality(ScratchpadBuffers(pool))
  BY <1>1, Primed
<1>3. machine.scratchpads \in Nat /\ pool.ptr \in Nat /\ pool.base \in Nat
  BY <1>1, MachineFacts DEF Good, PoolInv, Pools
<1>4. MemoryInv'
  BY <1>1, <1>2 DEF MemoryInv, QuietMove, Early, Owning, Afterwards
<1>5. RoomInv'
  <2> SUFFICES ASSUME machine.scratchpads <= Fitting,
                      pc' \in Owning \cup {"WaitHalt"} \cup Halted
               PROVE  RoomInv'
    BY DEF RoomInv
  <2>1. pc \in Owning \cup {"WaitHalt"} \cup Halted
    BY DEF QuietMove, Early, Owning, Halted, Writing, Afterwards
  <2>2. err = "kSuccess" /\ pool.nulls = 0
    BY <1>1, <2>1 DEF RoomInv
  <2>3. pc' = pc \/ pc' # "Buffers"
    BY DEF QuietMove, Early, Owning, Afterwards
  <2> QED
    BY <1>1, <1>3, <2>1, <2>2, <2>3
       DEF RoomInv, QuietMove, Early, Owning, Halted, Writing, Afterwards
<1>6. CountInv'
  <2> SUFFICES ASSUME machine.scratchpads <= Fitting PROVE CountInv'
    BY DEF CountInv
  <2> QED
    BY <1>1, <1>2, <1>3
       DEF CountInv, QuietMove, Before, Early, Owning, Halted, Writing, Afterwards
<1> QED
  BY <1>4, <1>5, <1>6

(* And these are all of them.                                              *)
LEMMA QuietStep ==
  ASSUME IInv, pool' = pool,
         \/ Scan \/ FindXhc \/ LocateXhc \/ EnableOnBus \/ SwitchEhci2Xhci
         \/ RequestHCOwnership \/ WaitForOwnership \/ Stop \/ WaitForHalt \/ StartReset
         \/ WaitForReset \/ SetMaxSlots \/ SetContexts \/ RegisterCommandRing
         \/ SetSegmentTable \/ EnableInterrupter \/ Run \/ WaitForRun
         \/ AllocateScratchpadArray /\ machine.scratchpads = 0
         \/ Hardware \/ UNCHANGED vars
  PROVE  MemoryInv' /\ RoomInv' /\ CountInv'
<1>1. machine' = machine /\ buffers' = buffers /\ err' = err /\ QuietMove
  <2> USE DEF QuietMove, Early, Owning, Afterwards
  <2>1. CASE Scan
    BY <2>1 DEF Scan
  <2>2. CASE FindXhc
    BY <2>2 DEF FindXhc
  <2>3. CASE LocateXhc
    BY <2>3 DEF LocateXhc
  <2>4. CASE EnableOnBus \/ SwitchEhci2Xhci
    BY <2>4 DEF EnableOnBus, SwitchEhci2Xhci
  <2>5. CASE RequestHCOwnership \/ WaitForOwnership
    BY <2>5 DEF RequestHCOwnership, WaitForOwnership
  <2>6. CASE Stop \/ WaitForHalt \/ StartReset \/ WaitForReset
    BY <2>6 DEF Stop, WaitForHalt, StartReset, WaitForReset
  <2>7. CASE SetMaxSlots \/ SetContexts \/ RegisterCommandRing
    BY <2>7 DEF SetMaxSlots, SetContexts, RegisterCommandRing, Writes
  <2>8. CASE SetSegmentTable \/ EnableInterrupter
    BY <2>8 DEF SetSegmentTable, EnableInterrupter, Writes
  <2>9. CASE Run \/ WaitForRun
    BY <2>9 DEF Run, WaitForRun
  <2>10. CASE AllocateScratchpadArray /\ machine.scratchpads = 0
    BY <2>10 DEF AllocateScratchpadArray
  <2>11. CASE Hardware
    BY <2>11 DEF Hardware, Answers, FirmwareLetsGo, FirmwareUses, Halts, Starts, Resets, GetsReady
  <2>12. CASE UNCHANGED vars
    BY <2>12 DEF vars, initVars
  <2> QED
    BY <2>1, <2>2, <2>3, <2>4, <2>5, <2>6, <2>7, <2>8, <2>9, <2>10, <2>11, <2>12
<1> QED
  BY <1>1, QuietMoves

(* Initialize asks for the arrays of the device manager.                   *)
LEMMA DeviceManagerStep ==
  ASSUME IInv, InitializeDeviceManager
  PROVE  MemoryInv' /\ RoomInv' /\ CountInv'
<1>1. /\ pool = Untouched(machine.base) /\ machine \in Machines /\ pc = "DevMgr"
      /\ MemoryInv /\ CountInv /\ ProgramInv
  BY DEF InitializeDeviceManager, IInv, MemoryInv, Early
<1>2. pool' = AllocPair(Untouched(machine.base), DeviceArray, ContextArray)
  BY <1>1 DEF InitializeDeviceManager, AllocatesOrReturns
<1>3. machine.base \in Nat /\ machine.base % 16 = 0
  BY <1>1, MachineFacts
<1>4. /\ Good(pool') /\ pool'.base = machine.base /\ pool'.nulls = 0
      /\ pool'.ptr <= machine.base + 352 /\ ScratchpadBuffers(pool') = {}
  BY <1>2, <1>3, DeviceArraysFit
<1>5. ScratchpadBuffers(pool) = {} /\ pool.nulls = 0
  BY <1>1 DEF ScratchpadBuffers, Untouched
<1>6. Good(pool)' /\ ScratchpadBuffers(pool)' = {}
  BY <1>4, Primed
<1>7. pc' = "Own" /\ err' = err /\ machine' = machine /\ buffers' = buffers
  BY <1>4, <1>5 DEF InitializeDeviceManager, AllocatesOrReturns
<1>8. MemoryInv'
  BY <1>1, <1>4, <1>6, <1>7 DEF MemoryInv, Early, Afterwards
<1>9. RoomInv'
  BY <1>1, <1>4, <1>7 DEF RoomInv, ProgramInv, Afterwards
<1>10. CountInv'
  BY <1>1, <1>5, <1>6, <1>7 DEF CountInv, Before, Early, Owning, Afterwards
<1> QED
  BY <1>8, <1>9, <1>10

(* Then for the array of the scratchpad buffers                            *)
LEMMA ArrayStep ==
  ASSUME IInv, AllocateScratchpadArray, machine.scratchpads # 0
  PROVE  MemoryInv' /\ RoomInv' /\ CountInv'
<1>1. /\ pc = "Scratchpads" /\ pc' = "Buffers" /\ machine.scratchpads > 0
      /\ pool' = AllocMem(pool, ScratchpadArray)
      /\ err' = err /\ machine' = machine /\ buffers' = buffers
  <2>1. machine.scratchpads \in Nat
    BY MachineFacts DEF IInv, MemoryInv
  <2> QED
    BY <2>1 DEF AllocateScratchpadArray
<1>2. /\ MemoryInv /\ RoomInv /\ CountInv /\ ProgramInv
      /\ machine \in Machines /\ Good(pool) /\ pool.base = machine.base
  BY DEF IInv, MemoryInv
<1>3. machine.scratchpads \in Nat /\ 131072 <= PoolSize /\ PoolSize \in Nat
  BY <1>2, MachineFacts
<1>4. /\ ScratchpadArray \in Requests
      /\ ScratchpadArray.size = 8 * machine.scratchpads /\ ScratchpadArray.alignment = 64
  BY <1>1, <1>3, KernelRequests DEF ScratchpadArray, Request
<1>5. PoolInv(pool) /\ IsFiniteSet(pool.blocks) /\ Sixteenths(pool) /\ pool \in Pools
  BY <1>2 DEF Good, PoolInv
<1>6. /\ pool'.base = pool.base
      /\ Fits(pool, ScratchpadArray) =>
           /\ pool'.nulls = pool.nulls
           /\ pool'.blocks = pool.blocks \cup {NewBlock(pool, ScratchpadArray)}
      /\ ~Fits(pool, ScratchpadArray) => pool'.blocks = pool.blocks
  BY <1>1, <1>4, <1>5, AllocFields
<1>7. PoolInv(pool')
  BY <1>1, <1>4, <1>5, AllocKeeps
<1>8. Sixteenths(pool')
  BY <1>1, <1>4, <1>5, AllocSixteenths DEF Steady
<1>9. IsFiniteSet(pool'.blocks)
  BY <1>5, <1>6, FS_AddElement
<1>10. Good(pool)'
  BY <1>7, <1>8, <1>9, Primed DEF Good
<1>11. ScratchpadBuffers(pool)' = ScratchpadBuffers(pool)
  <2>1. NewBlock(pool, ScratchpadArray).for # ScratchpadBuffer
    BY DEF NewBlock, ScratchpadArray, ScratchpadBuffer, Request, Page
  <2>2. ScratchpadBuffers(pool') = ScratchpadBuffers(pool)
    BY <1>6, <2>1 DEF ScratchpadBuffers
  <2> QED
    BY <2>2, Primed
<1>12. pool.ptr \in Nat /\ pool.base \in Nat /\ pool'.ptr \in Nat
  BY <1>5, <1>7 DEF PoolInv, Pools
<1>13. machine.scratchpads <= Fitting =>
         pool'.nulls = 0 /\ pool'.ptr <= pool.base + 896
  <2> SUFFICES ASSUME machine.scratchpads <= 30
               PROVE  pool'.nulls = 0 /\ pool'.ptr <= pool.base + 896
    BY DEF Fitting
  <2>1. pool.nulls = 0 /\ pool.ptr <= pool.base + 352
    BY <1>1, <1>2 DEF RoomInv, Fitting, Halted, Writing
  <2>2. pool.ptr + ScratchpadArray.alignment + 2 * ScratchpadArray.size
          <= pool.base + 896
    BY <1>3, <1>4, <1>12, <2>1
  <2>3. pool.ptr + ScratchpadArray.alignment + 2 * ScratchpadArray.size
          <= pool.base + PoolSize
    BY <1>3, <1>4, <1>12, <2>2
  <2>4. /\ pool'.nulls = pool.nulls
        /\ pool'.ptr <= pool.ptr + ScratchpadArray.alignment + 2 * ScratchpadArray.size
    BY <1>1, <1>4, <1>5, <2>3, AllocRoom
  <2> QED
    BY <1>3, <1>4, <1>12, <2>1, <2>2, <2>4
<1>14. MemoryInv'
  BY <1>1, <1>2, <1>6, <1>10 DEF MemoryInv, Early, Afterwards
<1>15. RoomInv'
  BY <1>1, <1>2, <1>6, <1>13 DEF RoomInv, CountInv, Owning, Halted, Writing
<1>16. CountInv'
  BY <1>1, <1>2, <1>3, <1>11 DEF CountInv, Before, Early, Owning, Afterwards
<1> QED
  BY <1>14, <1>15, <1>16

(* A scratchpad buffer: the first goes to the next page, the others behind *)
LEMMA BufferStep ==
  ASSUME IInv, AllocateScratchpadBuffer
  PROVE  MemoryInv' /\ RoomInv' /\ CountInv'
<1>1. /\ pc = "Buffers" /\ pool' = AllocMem(pool, ScratchpadBuffer)
      /\ buffers' = buffers + 1 /\ err' = err /\ machine' = machine
      /\ pc' = IF buffers + 1 = machine.scratchpads THEN "Contexts" ELSE "Buffers"
  BY DEF AllocateScratchpadBuffer
<1>2. /\ MemoryInv /\ RoomInv /\ CountInv /\ ProgramInv
      /\ machine \in Machines /\ Good(pool) /\ pool.base = machine.base
  BY DEF IInv, MemoryInv
<1>3. machine.scratchpads \in Nat /\ 131072 <= PoolSize /\ PoolSize \in Nat
  BY <1>2, MachineFacts
<1>4. /\ Good(pool') /\ pool'.base = pool.base
      /\ pool'.nulls = pool.nulls + (IF Fits(pool, ScratchpadBuffer) THEN 0 ELSE 1)
      /\ Fits(pool, ScratchpadBuffer) =>
           Cardinality(ScratchpadBuffers(pool')) = Cardinality(ScratchpadBuffers(pool)) + 1
  BY <1>1, <1>2, AllocBuffer
<1>5. /\ pool \in Pools /\ pool.ptr \in Nat /\ pool.base \in Nat /\ pool.nulls \in Nat
      /\ ScratchpadBuffer \in Requests
      /\ ScratchpadBuffer.size = 4096 /\ ScratchpadBuffer.alignment = 4096
      /\ ScratchpadBuffer.boundary = 4096
  BY <1>2, KernelRequests DEF Good, PoolInv, Pools, ScratchpadBuffer, Request, Page
<1>6. machine.scratchpads <= 30 =>
        /\ Fits(pool, ScratchpadBuffer)
        /\ pool'.ptr % 4096 = 0 /\ pool'.ptr <= pool.base + 4991 + 4096 * (buffers + 1)
  <2> SUFFICES ASSUME machine.scratchpads <= 30
               PROVE  /\ Fits(pool, ScratchpadBuffer)
                      /\ pool'.ptr % 4096 = 0
                      /\ pool'.ptr <= pool.base + 4991 + 4096 * (buffers + 1)
    OBVIOUS
  <2>1. /\ buffers \in Nat /\ buffers + 1 <= 30
        /\ IF buffers = 0 THEN pool.ptr <= pool.base + 896
           ELSE pool.ptr % 4096 = 0 /\ pool.ptr <= pool.base + 4991 + 4096 * buffers
    BY <1>1, <1>2, <1>3 DEF RoomInv, CountInv, Fitting, Halted, Writing, Page
  <2> DEFINE a == ScratchpadBuffer.alignment
             A == Ceil(pool.ptr, a)
  <2>2. a = 4096
    BY <1>5
  <2>3. a \in Nat \ {0} /\ pool.ptr \in Nat
    BY <1>5, <2>2
  <2> HIDE DEF a
  <2>4. A \in Nat /\ A % a = 0 /\ A < pool.ptr + a
    BY <2>3, CeilFacts, Zenon
  <2>5. pool.ptr % a = 0 => A = pool.ptr
    BY <2>3, CeilOfMultiple, Zenon
  <2>6. Ceil(A, a) = A
    BY <2>4, <2>3, CeilOfMultiple, Zenon
  <2>7. Place(pool, ScratchpadBuffer) = A
    BY <1>5, <2>2, <2>6 DEF Place, Aligned, a
  <2> HIDE DEF A
  <2>8. A <= pool.base + 4991 + 4096 * buffers
    <3>1. CASE buffers = 0
      BY <1>5, <2>1, <2>2, <2>4, <3>1
    <3>2. CASE buffers # 0
      BY <1>5, <2>1, <2>2, <2>5, <3>2
    <3> QED
      BY <3>1, <3>2
  <2>9. Fits(pool, ScratchpadBuffer)
    BY <1>3, <1>5, <2>1, <2>4, <2>7, <2>8 DEF Fits
  <2>10. pool'.ptr = A + 4096
    BY <1>1, <1>5, <2>7, <2>9, AllocFields
  <2> QED
    BY <1>5, <2>1, <2>2, <2>4, <2>8, <2>9, <2>10
<1>7. Good(pool)' /\ ScratchpadBuffers(pool)' = ScratchpadBuffers(pool')
  BY <1>4, Primed
<1>8. MemoryInv'
  BY <1>1, <1>2, <1>4, <1>7 DEF MemoryInv, Early, Afterwards
<1>9. RoomInv'
  <2> SUFFICES ASSUME machine.scratchpads <= 30 PROVE RoomInv'
    BY <1>1 DEF RoomInv, Fitting
  <2>1. /\ err = "kSuccess" /\ pool.nulls = 0 /\ buffers \in Nat
        /\ buffers + 1 <= machine.scratchpads
    BY <1>1, <1>2, <1>3 DEF RoomInv, CountInv, Fitting, Halted, Writing
  <2>2. err' = "kSuccess" /\ pool'.nulls = 0 /\ buffers' # 0
    BY <1>1, <1>4, <1>6, <2>1
  <2>3. pool'.ptr % Page = 0 /\ pool'.ptr <= pool'.base + 4991 + Page * buffers'
    BY <1>1, <1>4, <1>6 DEF Page
  <2>4. pc' = "Contexts" => pool'.ptr <= pool'.base + 127871
    <3> SUFFICES ASSUME pc' = "Contexts" PROVE pool'.ptr <= pool'.base + 127871
      OBVIOUS
    <3>1. buffers + 1 <= 30
      BY <1>3, <2>1
    <3>2. pool'.ptr <= pool.base + 4991 + 4096 * (buffers + 1) /\ pool'.base = pool.base
      BY <1>4, <1>6
    <3>3. pool'.ptr \in Nat
      BY <1>4 DEF Good, PoolInv, Pools
    <3> QED
      BY <1>5, <2>1, <3>1, <3>2, <3>3
  <2>5. pc' \in {"Buffers", "Contexts"}
    BY <1>1
  <2> QED
    BY <2>2, <2>3, <2>4, <2>5 DEF RoomInv, Owning
<1>10. CountInv'
  <2> SUFFICES ASSUME machine.scratchpads <= 30 PROVE CountInv'
    BY <1>1 DEF CountInv, Fitting
  <2>1. /\ err = "kSuccess" /\ buffers \in Nat /\ buffers + 1 <= machine.scratchpads
        /\ Cardinality(ScratchpadBuffers(pool)) = buffers
    BY <1>1, <1>2, <1>3 DEF CountInv, Fitting
  <2>2. Cardinality(ScratchpadBuffers(pool))' = buffers'
    BY <1>1, <1>4, <1>6, <1>7, <2>1
  <2>3. /\ pc' \in {"Buffers", "Contexts"} /\ buffers' \in 0..machine.scratchpads
        /\ pc' = "Buffers" => buffers' < machine.scratchpads
        /\ pc' = "Contexts" => buffers' = machine.scratchpads
    BY <1>1, <1>3, <2>1
  <2> QED
    BY <1>1, <2>1, <2>2, <2>3 DEF CountInv, Before, Early, Owning, Afterwards
<1> QED
  BY <1>8, <1>9, <1>10

(* The command ring, and the event ring with its segment table             *)
LEMMA RingStep ==
  ASSUME IInv, InitializeCommandRing \/ InitializeEventRing
  PROVE  MemoryInv' /\ RoomInv' /\ CountInv'
<1>1. /\ MemoryInv /\ RoomInv /\ CountInv /\ ProgramInv
      /\ machine \in Machines /\ Good(pool) /\ pool.base = machine.base
  BY DEF IInv, MemoryInv
<1>2. machine.scratchpads \in Nat /\ 131072 <= PoolSize /\ PoolSize \in Nat
  BY <1>1, MachineFacts
<1>3. /\ PoolInv(pool) /\ pool.ptr \in Nat /\ pool.base \in Nat /\ pool.nulls \in Nat
  BY <1>1 DEF Good, PoolInv, Pools
<1>4. /\ TrbBuffer \in Requests /\ TrbBuffer.size = 512 /\ TrbBuffer.alignment = 64
      /\ SegmentTable \in Requests /\ SegmentTable.size = 16 /\ SegmentTable.alignment = 64
      /\ TrbBuffer.size # Page /\ SegmentTable.size # Page
      /\ Steady(pool, TrbBuffer)
  BY KernelRequests DEF TrbBuffer, SegmentTable, Request, Page, Steady
<1>5. /\ buffers' = buffers /\ machine' = machine
      /\ \/ pc = "CommandRing" /\ pc' = "Register" /\ pool'.nulls = pool.nulls /\ err' = err
         \/ pc = "EventRing" /\ pc' = "Segment" /\ pool'.nulls = pool.nulls /\ err' = err
         \/ /\ pc \in {"CommandRing", "EventRing"}
            /\ pc' = "Run" /\ pool'.nulls # pool.nulls /\ err' = "kNoEnoughMemory"
  BY DEF InitializeCommandRing, InitializeEventRing, AllocatesOrReturns
<1>6. \/ InitializeCommandRing /\ pc = "CommandRing" /\ pool' = AllocMem(pool, TrbBuffer)
      \/ InitializeEventRing /\ pc = "EventRing"
           /\ pool' = AllocPair(pool, TrbBuffer, SegmentTable)
  BY DEF InitializeCommandRing, InitializeEventRing, AllocatesOrReturns
<1>7. /\ Good(pool') /\ pool'.base = pool.base
      /\ ScratchpadBuffers(pool') = ScratchpadBuffers(pool)
      /\ pc = "EventRing" /\ pool'.nulls = pool.nulls => pool'.ptr % 16 = 0
      /\ machine.scratchpads <= 30 =>
           /\ pool'.nulls = pool.nulls
           /\ pc = "CommandRing" => pool'.ptr <= pool.base + 129023
  <2>1. CASE pc = "CommandRing" /\ pool' = AllocMem(pool, TrbBuffer)
    <3>1. /\ Good(pool') /\ pool'.base = pool.base
          /\ ScratchpadBuffers(pool') = ScratchpadBuffers(pool)
      BY <1>1, <1>4, <2>1, AllocOther
    <3>2. machine.scratchpads <= 30 =>
            pool'.nulls = pool.nulls /\ pool'.ptr <= pool.base + 129023
      <4> SUFFICES ASSUME machine.scratchpads <= 30
                   PROVE  pool'.nulls = pool.nulls /\ pool'.ptr <= pool.base + 129023
        OBVIOUS
      <4>1. pool.ptr <= pool.base + 127871
        BY <1>1, <2>1 DEF RoomInv, Fitting, Halted, Writing
      <4>2. pool.ptr + TrbBuffer.alignment + 2 * TrbBuffer.size <= pool.base + PoolSize
        BY <1>2, <1>3, <1>4, <4>1
      <4>3. /\ pool'.nulls = pool.nulls
            /\ pool'.ptr <= pool.ptr + TrbBuffer.alignment + 2 * TrbBuffer.size
        BY <1>3, <1>4, <2>1, <4>2, AllocRoom
      <4>4. pool'.ptr \in Nat
        BY <3>1 DEF Good, PoolInv, Pools
      <4> QED
        BY <1>3, <1>4, <4>1, <4>3, <4>4
    <3> QED
      BY <2>1, <3>1, <3>2
  <2>2. CASE pc = "EventRing" /\ pool' = AllocPair(pool, TrbBuffer, SegmentTable)
    <3>1. SegmentTable.alignment > 0 /\ SegmentTable.alignment % 16 = 0
          /\ SegmentTable.size % 16 = 0
      BY <1>4
    <3>2. /\ Good(pool') /\ pool'.base = pool.base
          /\ ScratchpadBuffers(pool') = ScratchpadBuffers(pool)
          /\ pool'.nulls = pool.nulls => pool'.ptr % 16 = 0
          /\ pool.ptr + TrbBuffer.alignment + 2 * TrbBuffer.size + SegmentTable.alignment
                 + 2 * SegmentTable.size <= pool.base + PoolSize =>
               pool'.nulls = pool.nulls
      BY <1>1, <1>4, <2>2, <3>1, PairOther
    <3>3. machine.scratchpads <= 30 => pool.ptr <= pool.base + 129023
      BY <1>1, <2>2 DEF RoomInv, Fitting, Halted, Writing
    <3>4. machine.scratchpads <= 30 => pool'.nulls = pool.nulls
      BY <1>2, <1>3, <1>4, <3>2, <3>3
    <3> QED
      BY <2>2, <3>2, <3>4
  <2> QED
    BY <1>6, <2>1, <2>2
<1>8. Good(pool)' /\ ScratchpadBuffers(pool)' = ScratchpadBuffers(pool)
  BY <1>7, Primed
<1>9. MemoryInv'
  BY <1>1, <1>5, <1>7, <1>8 DEF MemoryInv, Early, Afterwards
<1>10. RoomInv'
  <2> SUFFICES ASSUME machine.scratchpads <= 30 PROVE RoomInv'
    BY <1>5 DEF RoomInv, Fitting
  <2>1. err = "kSuccess" /\ pool.nulls = 0
    BY <1>1, <1>5 DEF RoomInv, Fitting, Halted, Writing
  <2> QED
    BY <1>5, <1>7, <2>1 DEF RoomInv, Owning
<1>11. CountInv'
  <2> SUFFICES ASSUME machine.scratchpads <= 30 PROVE CountInv'
    BY <1>5 DEF CountInv, Fitting
  <2>1. /\ err = "kSuccess" /\ buffers = machine.scratchpads
        /\ Cardinality(ScratchpadBuffers(pool)) = buffers
    BY <1>1, <1>5 DEF CountInv, Fitting
  <2>2. Cardinality(ScratchpadBuffers(pool))' = Cardinality(ScratchpadBuffers(pool))
    BY <1>8
  <2> QED
    BY <1>2, <1>5, <1>7, <2>1, <2>2 DEF CountInv, Before, Early, Owning, Afterwards
<1> QED
  BY <1>9, <1>10, <1>11

(* What a handler of the loop allocates for a device                       *)
LEMMA DeviceStep ==
  ASSUME IInv, NEW handler \in 1..3, EnumerateDevice(handler)
  PROVE  MemoryInv' /\ RoomInv' /\ CountInv'
<1>1. /\ MemoryInv /\ CountInv /\ machine \in Machines /\ Good(pool) /\ pool.base = machine.base
  BY DEF IInv, MemoryInv
<1>2. /\ pc = "Ports" /\ err = "kSuccess" /\ err' = err /\ machine' = machine
      /\ buffers' = buffers /\ pool' \in Served(pool, handler)
      /\ pc' = IF pool'.nulls > pool.nulls THEN "Undefined" ELSE "Ports"
  BY DEF EnumerateDevice
<1>3. pool.ptr % 16 = 0
  BY <1>1, <1>2 DEF MemoryInv, Afterwards
<1>4. /\ Good(pool') /\ pool'.base = pool.base /\ pool'.nulls >= pool.nulls
      /\ pool'.nulls = pool.nulls => pool'.ptr % 16 = 0
      /\ ScratchpadBuffers(pool') = ScratchpadBuffers(pool)
  BY <1>1, <1>2, <1>3, DeviceServed DEF Spends
<1>5. /\ Good(pool)' /\ ScratchpadBuffers(pool)' = ScratchpadBuffers(pool)
      /\ Cardinality(ScratchpadBuffers(pool))' = Cardinality(ScratchpadBuffers(pool))
  BY <1>4, Primed
<1>6. pool.nulls \in Nat /\ pool'.nulls \in Nat
  BY <1>1, <1>4 DEF Good, PoolInv, Pools
<1>7. \/ pc' = "Undefined"
      \/ pc' = "Ports" /\ pool'.ptr % 16 = 0
  BY <1>2, <1>4, <1>6
<1>8. MemoryInv'
  BY <1>1, <1>2, <1>4, <1>5, <1>7 DEF MemoryInv, Early, Afterwards
<1>9. RoomInv'
  BY <1>7 DEF RoomInv, Owning, Halted, Writing
<1>10. CountInv'
  BY <1>1, <1>2, <1>5, <1>7 DEF CountInv, Before, Early, Owning, Afterwards
<1> QED
  BY <1>8, <1>9, <1>10

LEMMA NextIInv == IInv /\ [Next]_vars => IInv'
<1> SUFFICES ASSUME IInv, [Next]_vars PROVE IInv'
  OBVIOUS
<1>1. (pc \in Places /\ Flags /\ OwnershipInv /\ HaltInv /\ ResetInv /\ ProgramInv)'
  BY ControlStep
<1>2. MemoryInv' /\ RoomInv' /\ CountInv'
  <2>1. CASE InitializeDeviceManager
    BY <2>1, DeviceManagerStep
  <2>2. CASE AllocateScratchpadArray /\ machine.scratchpads # 0
    BY <2>2, ArrayStep
  <2>3. CASE AllocateScratchpadBuffer
    BY <2>3, BufferStep
  <2>4. CASE InitializeCommandRing \/ InitializeEventRing
    BY <2>4, RingStep
  <2>5. CASE \E handler \in 1..3 : EnumerateDevice(handler)
    BY <2>5, DeviceStep
  <2>6. CASE \/ Scan \/ FindXhc \/ LocateXhc \/ EnableOnBus \/ SwitchEhci2Xhci
             \/ RequestHCOwnership \/ WaitForOwnership \/ Stop \/ WaitForHalt \/ StartReset
             \/ WaitForReset \/ SetMaxSlots \/ SetContexts \/ RegisterCommandRing
             \/ SetSegmentTable \/ EnableInterrupter \/ Run \/ WaitForRun
             \/ AllocateScratchpadArray /\ machine.scratchpads = 0
             \/ Hardware \/ UNCHANGED vars
    <3>1. pool' = pool
      <4>1. AllocateScratchpadArray /\ machine.scratchpads = 0 => pool' = pool
        BY DEF AllocateScratchpadArray
      <4>2. Hardware => pool' = pool
        BY DEF Hardware, Answers, FirmwareLetsGo, FirmwareUses, Halts, Starts, Resets, GetsReady
      <4>3. UNCHANGED vars => pool' = pool
        BY DEF vars, initVars
      <4>4. Scan \/ FindXhc \/ LocateXhc \/ EnableOnBus \/ SwitchEhci2Xhci => pool' = pool
        BY DEF Scan, FindXhc, LocateXhc, EnableOnBus, SwitchEhci2Xhci
      <4> QED
        BY <2>6, <4>1, <4>2, <4>3, <4>4
           DEF RequestHCOwnership, WaitForOwnership, Stop, WaitForHalt, StartReset,
               WaitForReset, SetMaxSlots, SetContexts, RegisterCommandRing, SetSegmentTable,
               EnableInterrupter, Writes, Run, WaitForRun
    <3> QED
      BY <2>6, <3>1, QuietStep
  <2> QED
    BY <2>1, <2>2, <2>3, <2>4, <2>5, <2>6
       DEF Next, KernelMain, AfterScan, InitializeController
<1> QED
  BY <1>1, <1>2 DEF IInv

LEMMA Invariance == Spec => []IInv
  BY InitIInv, NextIInv, PTL DEF Spec

-----------------------------------------------------------------------------
(* Whatever the machine, the driver and the handlers of its devices get    *)
(* blocks that are in the pool, at their alignment, within their boundary  *)
(* and apart from each other, and all at a multiple of 16 bytes.           *)
THEOREM Separated == Spec => []BlocksSeparate
<1>1. IInv => BlocksSeparate
  BY DEF IInv, MemoryInv, Good, PoolInv, Sixteenths, BlocksSeparate
<1> QED
  BY <1>1, Invariance, PTL

(* A controller that runs has been given its registers since its reset if  *)
(* Initialize had memory, and with up to 30 scratchpad buffers it has,     *)
(* wherever the pool lies, and gets every one of them.                     *)
THEOREM Provided == Spec => []RunsConfigured
<1>1. IInv => RunsConfigured
  <2> SUFFICES ASSUME IInv, pc \in {"WaitRun", "Ports"}
               PROVE  /\ err = "kSuccess" => Needed \subseteq programmed
                      /\ machine.scratchpads <= Fitting =>
                           /\ err = "kSuccess"
                           /\ Cardinality(ScratchpadBuffers(pool)) = machine.scratchpads
    BY DEF RunsConfigured, ScratchpadBuffers
  <2>1. err = "kSuccess" => Needed \subseteq programmed
    BY DEF IInv, ProgramInv, Afterwards
  <2>2. CountInv
    BY DEF IInv
  <2>3. machine.scratchpads <= Fitting =>
          /\ err = "kSuccess" /\ buffers = machine.scratchpads
          /\ Cardinality(ScratchpadBuffers(pool)) = buffers
    BY <2>2 DEF CountInv, Afterwards
  <2> QED
    BY <2>1, <2>3
<1> QED
  BY <1>1, Invariance, PTL

(* The controller is taken from the firmware before it is touched, halted  *)
(* before it is reset, and programmed while it is halted and ready.        *)
THEOREM InOrder == Spec => TakesOverInOrder
<1> DEFINE commands == <<run, reset, programmed>>
           InOrderStep == pc' # pc /\ commands' # commands =>
                            /\ ~bios /\ ~reset /\ ~cnr
                            /\ reset' => halted
                            /\ programmed' # programmed => halted
<1>1. IInv /\ [Next]_vars => [InOrderStep]_initVars
  <2> SUFFICES ASSUME IInv, Next, pc' # pc, commands' # commands
               PROVE  /\ ~bios /\ ~reset /\ ~cnr
                      /\ reset' => halted
                      /\ programmed' # programmed => halted
    BY DEF vars, initVars, regs
  <2> USE DEF IInv, Before, Early, Owning, Halted, Writing, Flags, OwnershipInv, HaltInv,
              ResetInv
  <2>1. CASE Stop
    BY <2>1 DEF Stop
  <2>2. CASE StartReset
    BY <2>2 DEF StartReset
  <2>3. CASE Run
    BY <2>3 DEF Run
  <2>4. CASE \/ SetMaxSlots \/ SetContexts \/ RegisterCommandRing
            \/ SetSegmentTable \/ EnableInterrupter
    BY <2>4 DEF SetMaxSlots, SetContexts, RegisterCommandRing, SetSegmentTable,
                EnableInterrupter, Writes
  <2>5. CASE Hardware
    BY <2>5 DEF Hardware, Answers, FirmwareLetsGo, FirmwareUses, Halts, Starts, Resets, GetsReady
  <2>6. CASE Scan \/ FindXhc \/ LocateXhc \/ EnableOnBus \/ SwitchEhci2Xhci
    BY <2>6 DEF Scan, FindXhc, LocateXhc, EnableOnBus, SwitchEhci2Xhci, regs
  <2>7. CASE \E handler \in 1..3 : EnumerateDevice(handler)
    BY <2>7 DEF EnumerateDevice, regs
  <2>8. CASE \/ InitializeDeviceManager \/ RequestHCOwnership \/ WaitForOwnership
            \/ WaitForHalt \/ WaitForReset \/ AllocateScratchpadArray
            \/ AllocateScratchpadBuffer \/ InitializeCommandRing \/ InitializeEventRing
            \/ WaitForRun
    BY <2>8 DEF InitializeDeviceManager, RequestHCOwnership, WaitForOwnership,
                WaitForHalt, WaitForReset, AllocateScratchpadArray, AllocateScratchpadBuffer,
                InitializeCommandRing, InitializeEventRing, WaitForRun, regs
  <2> QED
    BY <2>1, <2>2, <2>3, <2>4, <2>5, <2>6, <2>7, <2>8
       DEF Next, KernelMain, AfterScan, InitializeController
<1> QED
  BY <1>1, Invariance, PTL DEF Spec, TakesOverInOrder

-----------------------------------------------------------------------------
(* What is read of a function of the machine, whichever way it is          *)
(* addressed                                                               *)
Registers == {0, 8, 12, 16, 20, 24}
Located(b, d, f) == b \in 0..255 /\ d \in 0..31 /\ f \in 0..7

LEMMA NumberFacts ==
  ASSUME NEW b, NEW d, NEW f, Located(b, d, f), NEW m, m = Number(b, d, f)
  PROVE  m \in Nat /\ m \div 256 = b /\ (m \div 8) % 32 = d /\ m % 8 = f
<1>0. b \in 0..255 /\ d \in 0..31 /\ f \in 0..7
  BY DEF Located
<1>1. PICK n \in Nat : n = b * 32 + d
  BY <1>0
<1>2. m \in Nat /\ m = n * 8 + f
  BY <1>0, <1>1 DEF Number
<1>3. m \div 8 = n /\ m % 8 = f
  BY <1>0, <1>2
<1>4. n % 32 = d
  BY <1>0, <1>1
<1>5. m \div 256 = b
  BY <1>0, <1>1, <1>2
<1> QED
  BY <1>2, <1>3, <1>4, <1>5

LEMMA AtFacts ==
  ASSUME NEW b, NEW d, NEW f, Located(b, d, f), NEW reg \in Registers
  PROVE  /\ At(Number(b, d, f) * 4096 + reg, 4096) = ConfigSpace(<<b, d, f>>, reg)
         /\ At(Number(b, d, f) * 256 + reg, 256) = ConfigSpace(<<b, d, f>>, reg)
<1>1. PICK n : n = Number(b, d, f)
  OBVIOUS
<1>2. n \in Nat /\ n \div 256 = b /\ (n \div 8) % 32 = d /\ n % 8 = f
  BY <1>1, NumberFacts
<1>0. reg \in 0..255
  BY DEF Registers
<1>3. (n * 4096 + reg) \div 4096 = n /\ (n * 4096 + reg) % 4096 = reg
  BY <1>0, <1>2
<1>4. (n * 256 + reg) \div 256 = n /\ (n * 256 + reg) % 256 = reg
  BY <1>0, <1>2
<1>5. At(n * 4096 + reg, 4096) = ConfigSpace(<<b, d, f>>, reg)
  BY <1>2, <1>3 DEF At
<1>6. At(n * 256 + reg, 256) = ConfigSpace(<<b, d, f>>, reg)
  BY <1>2, <1>4 DEF At
<1> QED
  BY <1>1, <1>5, <1>6

LEMMA ReadFacts ==
  ASSUME machine \in Machines, NEW b, NEW d, NEW f, Located(b, d, f),
         NEW reg \in Registers
  PROVE  ReadConfig(b, d, f, reg) = ConfigSpace(<<b, d, f>>, reg)
<1>0. Number(b, d, f) \in Nat
  <2>1. PICK m : m = Number(b, d, f)
    OBVIOUS
  <2> QED
    BY <2>1, NumberFacts
<1>1. b % 256 = b /\ d % 32 = d /\ f % 8 = f
  BY DEF Located
<1>2. reg \in 0..255 /\ (reg % 256) - (reg % 4) = reg /\ reg % 4096 = reg
  BY DEF Registers
<1>3. ReadEcamConfig(b, d, f, reg) = ConfigSpace(<<b, d, f>>, reg)
  <2>1. MakeEcamAddress(b, d, f, reg) = Number(b, d, f) * 4096 + reg
    BY <1>0, <1>1, <1>2 DEF MakeEcamAddress
  <2> QED
    BY <2>1, AtFacts DEF ReadEcamConfig
<1>4. ReadIoConfig(b, d, f, reg) = ConfigSpace(<<b, d, f>>, reg)
  <2>1. MakeIoAddress(b, d, f, reg) = Number(b, d, f) * 256 + reg
    BY <1>0, <1>1, <1>2 DEF MakeIoAddress
  <2> QED
    BY <2>1, AtFacts DEF ReadIoConfig
<1>5. ReadPorts(b, d, f, reg) = ConfigSpace(<<b, d, f>>, reg)
  <2>1. MakeAddress(b, d, f, reg) = Number(b, d, f) * 256 + reg
    BY <1>0, <1>1, <1>2 DEF MakeAddress
  <2> QED
    BY <2>1, AtFacts DEF ReadPorts
<1>6. machine.access \in {"ecam", "io", "ports"}
  BY PciAssumption
<1>7. ReadConfig(b, d, f, reg) \in {ReadEcamConfig(b, d, f, reg), ReadIoConfig(b, d, f, reg),
                                    ReadPorts(b, d, f, reg)}
  BY <1>6 DEF ReadConfig
<1> QED
  BY <1>3, <1>4, <1>5, <1>7

(* What the walk reads of a function                                       *)
LEMMA PresentFacts ==
  ASSUME machine \in Machines, NEW b, NEW d, NEW f, Located(b, d, f)
  PROVE  /\ ReadVendorId(b, d, f) # NoVendor <=> <<b, d, f>> \in DOMAIN machine.space
         /\ <<b, d, f>> \in DOMAIN machine.space =>
              /\ ReadHeaderType(b, d, f) = machine.space[<<b, d, f>>][12]
              /\ ReadClassCode(b, d, f) = machine.space[<<b, d, f>>][8]
              /\ ReadBusNumbers(b, d, f) = machine.space[<<b, d, f>>][24]
<1> DEFINE g == <<b, d, f>>
<1>1. /\ ReadVendorId(b, d, f) = ConfigSpace(g, 0) /\ ReadClassCode(b, d, f) = ConfigSpace(g, 8)
      /\ ReadHeaderType(b, d, f) = ConfigSpace(g, 12)
      /\ ReadBusNumbers(b, d, f) = ConfigSpace(g, 24)
  BY ReadFacts DEF ReadVendorId, ReadClassCode, ReadHeaderType, ReadBusNumbers, Registers
<1> HIDE DEF g
<1>2. CASE g \in DOMAIN machine.space
  <2>1. machine.space[g][0] # NoVendor
    BY <1>2, PciAssumption
  <2> QED
    BY <1>1, <1>2, <2>1 DEF ConfigSpace, NoVendor, g
<1>3. CASE g \notin DOMAIN machine.space
  BY <1>1, <1>3 DEF ConfigSpace, Absent, NoVendor, g
<1> QED
  BY <1>2, <1>3

-----------------------------------------------------------------------------
(* The walk ends: each step of it is nearer to the end of its bus, or to a *)
(* full table.  So the recursion has a solution.                           *)
Results == [value : Tables, error : {"kSuccess", "kFull"}]

Ahead(l, d, f) == (TableSize - l) * 297 + (32 - d) * 9 + (8 - f)
Rank(p)        == Ahead(Len(p.table), p.device, p.function)
Near(n) == {p \in Points : Rank(p) < n}

Grows(walk, n) ==
  \A p \in Near(n) : walk[p] \in Results /\ Len(walk[p].value) >= Len(p.table)

Solves(walk, n) == Grows(walk, n) /\ \A p \in Near(n) : walk[p] = ScanStep(walk, p)

LEMMA SizeFacts == TableSize \in Nat
  BY DEF TableSize

LEMMA TableFacts ==
  ASSUME NEW table \in Tables
  PROVE  table \in Seq((0..255) \X (0..31) \X (0..7)) /\ Len(table) \in Nat /\ Len(table) <= TableSize
<1>1. table \in Seq((0..255) \X (0..31) \X (0..7)) /\ Len(table) <= TableSize
  BY DEF Tables
<1> QED
  BY <1>1

LEMMA AddFacts ==
  ASSUME NEW table \in Tables, NEW b, NEW d, NEW f, Located(b, d, f),
         NEW s, s = AddDevice(table, <<b, d, f>>)
  PROVE  /\ s \in Results /\ Len(s.value) >= Len(table)
         /\ s.error = "kSuccess" =>
              s.value = Append(table, <<b, d, f>>) /\ Len(s.value) = Len(table) + 1
         /\ s.error # "kSuccess" => Len(table) = TableSize /\ s.value = table
<1> DEFINE F == (0..255) \X (0..31) \X (0..7)
           more == Append(table, <<b, d, f>>)
<1>1. table \in Seq(F) /\ Len(table) \in Nat /\ Len(table) <= TableSize /\ TableSize \in Nat
  BY TableFacts, SizeFacts
<1>2. <<b, d, f>> \in F
  BY DEF Located
<1>6. \A t \in Seq(F) : Len(t) <= TableSize => t \in Tables
  BY DEF Tables
<1> HIDE DEF F
<1>3. more \in Seq(F) /\ Len(more) = Len(table) + 1
  BY <1>1, <1>2
<1> HIDE DEF more
<1>4. CASE Len(table) = TableSize
  <2>1. s.value = table /\ s.error = "kFull" /\ s = [value |-> table, error |-> "kFull"]
    BY <1>4 DEF AddDevice, WithError
  <2> QED
    BY <1>1, <1>4, <2>1 DEF Results
<1>5. CASE Len(table) # TableSize
  <2>1. s.value = more /\ s.error = "kSuccess" /\ s = [value |-> more, error |-> "kSuccess"]
    BY <1>5 DEF AddDevice, WithError, more
  <2>2. more \in Tables
    <3>1. Len(more) <= TableSize
      BY <1>1, <1>3, <1>5
    <3> QED
      BY <1>3, <1>6, <3>1
  <2>3. s \in Results
    BY <2>1, <2>2 DEF Results
  <2>4. Len(s.value) = Len(table) + 1 /\ Len(s.value) >= Len(table)
    BY <1>1, <1>3, <2>1
  <2> QED
    BY <2>1, <2>3, <2>4, Zenon DEF more
<1> QED
  BY <1>4, <1>5

LEMMA AheadFacts ==
  ASSUME NEW l \in Nat, l <= TableSize, NEW d \in Nat, d <= 32, NEW f \in Nat, f <= 8
  PROVE  /\ Ahead(l, d, f) \in Nat
         /\ d < 32 => Ahead(l, d + 1, 0) < Ahead(l, d, f)
         /\ f < 8 => Ahead(l, d, f + 1) < Ahead(l, d, f)
         /\ \A m \in Nat, e \in Nat, g \in Nat :
              l < m /\ m <= TableSize /\ e <= 32 /\ g <= 8 => Ahead(m, e, g) < Ahead(l, d, f)
<1>1. PICK size \in Nat : size = TableSize
  BY SizeFacts
<1> QED
  BY <1>1 DEF Ahead

LEMMA PointFacts ==
  ASSUME NEW p \in Points
  PROVE  /\ p.table \in Tables /\ p.bus \in 0..255
         /\ p.device \in Nat /\ p.device <= 32 /\ p.function \in Nat /\ p.function <= 8
         /\ Len(p.table) \in Nat /\ Len(p.table) <= TableSize /\ Rank(p) \in Nat
<1>1. /\ p.table \in Tables /\ p.bus \in 0..255
      /\ p.device \in Nat /\ p.device <= 32 /\ p.function \in Nat /\ p.function <= 8
  BY DEF Points
<1>2. Len(p.table) \in Nat /\ Len(p.table) <= TableSize
  BY <1>1, TableFacts
<1> QED
  BY <1>1, <1>2, AheadFacts DEF Rank

LEMMA NearPoint ==
  ASSUME NEW n \in Nat, NEW table \in Tables, NEW c \in 0..255,
         NEW e \in Nat, e <= 32, NEW g \in Nat, g <= 8, Ahead(Len(table), e, g) < n
  PROVE  Point(table, c, e, g) \in Near(n)
  BY DEF Point, Points, Near, Rank

LEMMA NextPoints ==
  ASSUME NEW n \in Nat, NEW p \in Near(n + 1)
  PROVE  /\ p.device < 32 => Point(p.table, p.bus, p.device + 1, 0) \in Near(n)
         /\ p.function < 8 => Point(p.table, p.bus, p.device, p.function + 1) \in Near(n)
         /\ \A table \in Tables, c \in 0..255, e \in Nat, g \in Nat :
              Len(p.table) < Len(table) /\ e <= 32 /\ g <= 8 => Point(table, c, e, g) \in Near(n)
<1>1. p \in Points /\ Rank(p) < n + 1
  BY DEF Near
<1>2. PICK l, d, f : l = Len(p.table) /\ d = p.device /\ f = p.function
  OBVIOUS
<1>3. /\ p.table \in Tables /\ p.bus \in 0..255 /\ d \in Nat /\ d <= 32 /\ f \in Nat /\ f <= 8
      /\ l \in Nat /\ l <= TableSize /\ Ahead(l, d, f) \in Nat /\ Ahead(l, d, f) < n + 1
  BY <1>1, <1>2, PointFacts DEF Rank
<1>4. /\ d < 32 => Ahead(l, d + 1, 0) < n
      /\ f < 8 => Ahead(l, d, f + 1) < n
  <2>1. d < 32 => Ahead(l, d + 1, 0) \in Nat /\ Ahead(l, d + 1, 0) < Ahead(l, d, f)
    BY <1>3, AheadFacts
  <2>2. f < 8 => Ahead(l, d, f + 1) \in Nat /\ Ahead(l, d, f + 1) < Ahead(l, d, f)
    BY <1>3, AheadFacts
  <2> QED
    BY <1>3, <2>1, <2>2
<1>5. ASSUME d < 32 PROVE Point(p.table, p.bus, d + 1, 0) \in Near(n)
  <2>1. PICK e \in Nat, g \in Nat : e = d + 1 /\ e <= 32 /\ g = 0 /\ g <= 8 /\ Ahead(l, e, g) < n
    BY <1>3, <1>4, <1>5
  <2> QED
    BY <1>2, <1>3, <2>1, NearPoint
<1>6. ASSUME f < 8 PROVE Point(p.table, p.bus, d, f + 1) \in Near(n)
  <2>1. PICK g \in Nat : g = f + 1 /\ g <= 8 /\ Ahead(l, d, g) < n
    BY <1>3, <1>4, <1>6
  <2> QED
    BY <1>2, <1>3, <2>1, NearPoint
<1>7. ASSUME NEW table \in Tables, NEW c \in 0..255, NEW e \in Nat, NEW g \in Nat,
             l < Len(table), e <= 32, g <= 8
      PROVE  Point(table, c, e, g) \in Near(n)
  <2>1. Len(table) \in Nat /\ Len(table) <= TableSize
    BY TableFacts
  <2>2. Ahead(Len(table), e, g) < Ahead(l, d, f) /\ Ahead(Len(table), e, g) \in Nat
    BY <1>3, <1>7, <2>1, AheadFacts
  <2>3. Ahead(Len(table), e, g) < n
    BY <1>3, <2>2
  <2> QED
    BY <1>7, <2>3, NearPoint
<1> QED
  BY <1>2, <1>5, <1>6, <1>7, Zenon

(* The ways a step of the walk goes, with f for the function it is at.     *)
Ends(p)  == p.device = 32
Leaves(p) == p.device < 32 /\ DeviceDone(p.bus, p.device, p.function)
Passes(p) ==
  /\ p.device < 32 /\ ~DeviceDone(p.bus, p.device, p.function)
  /\ ReadVendorId(p.bus, p.device, p.function) = NoVendor
Finds(p) ==
  /\ p.device < 32 /\ ~DeviceDone(p.bus, p.device, p.function)
  /\ ReadVendorId(p.bus, p.device, p.function) # NoVendor

LEMMA StepWays ==
  ASSUME NEW p \in Points, NEW walk
  PROVE  /\ Ends(p) \/ Leaves(p) \/ Passes(p) \/ Finds(p)
         /\ Ends(p) => ScanStep(walk, p) = WithError(p.table, "kSuccess")
         /\ Leaves(p) => ScanStep(walk, p) = walk[Point(p.table, p.bus, p.device + 1, 0)]
         /\ Passes(p) => /\ p.function < 8
                         /\ ScanStep(walk, p) = walk[Point(p.table, p.bus, p.device, p.function + 1)]
         /\ Finds(p) =>
              /\ p.function < 8 /\ Located(p.bus, p.device, p.function)
              /\ LET s == ScanFunction(walk, p.table, p.bus, p.device, p.function) IN
                 ScanStep(walk, p) =
                   IF s.error # "kSuccess" THEN s
                   ELSE walk[Point(s.value, p.bus, p.device, p.function + 1)]
<1>1. PICK b, d, f : b = p.bus /\ d = p.device /\ f = p.function
  OBVIOUS
<1>2. b \in 0..255 /\ d \in Nat /\ d <= 32 /\ f \in Nat /\ f <= 8
  BY <1>1, PointFacts
<1>3. ~DeviceDone(b, d, f) => f < 8
  BY <1>2 DEF DeviceDone
<1>4. d = 32 \/ d < 32
  BY <1>2
<1>5. Ends(p) \/ Leaves(p) \/ Passes(p) \/ Finds(p)
  BY <1>1, <1>4 DEF Ends, Leaves, Passes, Finds
<1>6. Ends(p) => ScanStep(walk, p) = WithError(p.table, "kSuccess")
  BY <1>1 DEF Ends, ScanStep
<1>7. Leaves(p) => ScanStep(walk, p) = walk[Point(p.table, p.bus, p.device + 1, 0)]
  BY <1>1, <1>2 DEF Leaves, ScanStep
<1>8. Passes(p) => ScanStep(walk, p) = walk[Point(p.table, p.bus, p.device, p.function + 1)]
  BY <1>1, <1>2 DEF Passes, ScanStep
<1>9. Finds(p) =>
        LET s == ScanFunction(walk, p.table, p.bus, p.device, p.function) IN
        ScanStep(walk, p) =
          IF s.error # "kSuccess" THEN s
          ELSE walk[Point(s.value, p.bus, p.device, p.function + 1)]
  BY <1>1, <1>2 DEF Finds, ScanStep
<1>10. Finds(p) => f < 8 /\ Located(b, d, f)
  BY <1>1, <1>2, <1>3 DEF Finds, Located
<1>11. Passes(p) => f < 8
  BY <1>1, <1>3 DEF Passes
<1> QED
  BY <1>1, <1>5, <1>6, <1>7, <1>8, <1>9, <1>10, <1>11

(* A bridge leads somewhere.                                               *)
SecondaryBus(p) == (ReadBusNumbers(p.bus, p.device, p.function) \div 256) % 256

LEMMA FunctionWays ==
  ASSUME machine \in Machines, NEW n \in Nat, NEW p \in Near(n + 1), Finds(p), NEW walk,
         NEW s, s = AddDevice(p.table, <<p.bus, p.device, p.function>>),
         NEW r, r = ScanFunction(walk, p.table, p.bus, p.device, p.function)
  PROVE  /\ s.error # "kSuccess" => r = s
         /\ s.error = "kSuccess" =>
              IF Bridge(ReadClassCode(p.bus, p.device, p.function))
              THEN /\ SecondaryBus(p) \in 0..255 /\ Point(s.value, SecondaryBus(p), 0, 0) \in Near(n)
                   /\ r = walk[Point(s.value, SecondaryBus(p), 0, 0)]
              ELSE r = s
<1>1. p \in Points
  BY DEF Near
<1>2. PICK b, d, f : b = p.bus /\ d = p.device /\ f = p.function
  OBVIOUS
<1>3. Located(b, d, f) /\ ReadVendorId(b, d, f) # NoVendor
  BY <1>1, <1>2, StepWays DEF Finds
<1>4. ReadBusNumbers(b, d, f) \in Nat
  <2>1. <<b, d, f>> \in DOMAIN machine.space /\ ReadBusNumbers(b, d, f) = machine.space[<<b, d, f>>][24]
    BY <1>3, PresentFacts
  <2>2. PICK g : g = <<b, d, f>>
    OBVIOUS
  <2>3. g \in DOMAIN machine.space
    BY <2>1, <2>2
  <2>4. machine.space[g][24] \in Nat
    BY <2>3, PciAssumption, Zenon
  <2> QED
    BY <2>1, <2>2, <2>4
<1>5. SecondaryBus(p) \in 0..255
  BY <1>2, <1>4 DEF SecondaryBus
<1>6. s.error = "kSuccess" => s.value \in Tables /\ Len(s.value) > Len(p.table)
  <2>1. p.table \in Tables /\ Len(p.table) \in Nat
    BY <1>1, PointFacts
  <2>2. s \in Results /\ (s.error = "kSuccess" => Len(s.value) = Len(p.table) + 1)
    BY <1>2, <1>3, <2>1, AddFacts
  <2> QED
    BY <2>1, <2>2 DEF Results
<1>7. s.error = "kSuccess" => Point(s.value, SecondaryBus(p), 0, 0) \in Near(n)
  <2>1. 0 \in Nat /\ 0 <= 32 /\ 0 <= 8
    OBVIOUS
  <2> QED
    BY <1>5, <1>6, <2>1, NextPoints
<1>8. r = IF s.error = "kSuccess" /\ Bridge(ReadClassCode(p.bus, p.device, p.function))
          THEN walk[Point(s.value, SecondaryBus(p), 0, 0)] ELSE s
  BY DEF ScanFunction, SecondaryBus
<1> QED
  BY <1>5, <1>7, <1>8

LEMMA FunctionGoes ==
  ASSUME machine \in Machines, NEW n \in Nat, NEW p \in Near(n + 1), Finds(p), NEW walk,
         NEW s, s = AddDevice(p.table, <<p.bus, p.device, p.function>>)
  PROVE  LET r == ScanFunction(walk, p.table, p.bus, p.device, p.function)
             q == Point(s.value, SecondaryBus(p), 0, 0)
         IN  /\ s.error # "kSuccess" => r = s
             /\ s.error = "kSuccess" =>
                  IF Bridge(ReadClassCode(p.bus, p.device, p.function))
                  THEN q \in Near(n) /\ r = walk[q]
                  ELSE r = s
<1>1. PICK r : r = ScanFunction(walk, p.table, p.bus, p.device, p.function)
  OBVIOUS
<1> DEFINE q == Point(s.value, SecondaryBus(p), 0, 0)
<1>2. /\ s.error # "kSuccess" => r = s
      /\ s.error = "kSuccess" =>
           IF Bridge(ReadClassCode(p.bus, p.device, p.function))
           THEN q \in Near(n) /\ r = walk[q]
           ELSE r = s
  BY <1>1, FunctionWays
<1> QED
  BY <1>1, <1>2

LEMMA FunctionReaches ==
  ASSUME machine \in Machines, NEW n \in Nat, NEW p \in Near(n + 1), Finds(p), NEW walk,
         NEW s, s = AddDevice(p.table, <<p.bus, p.device, p.function>>)
  PROVE  LET r == ScanFunction(walk, p.table, p.bus, p.device, p.function) IN
         r = s \/ (s.error = "kSuccess" /\ \E q \in Near(n) : r = walk[q] /\ q.table = s.value)
<1>1. PICK q : q = Point(s.value, SecondaryBus(p), 0, 0)
  OBVIOUS
<1>2. q.table = s.value
  BY <1>1 DEF Point
<1> QED
  BY <1>1, <1>2, FunctionGoes

LEMMA FunctionGrows ==
  ASSUME machine \in Machines, NEW n \in Nat, NEW p \in Near(n + 1), Finds(p), NEW walk,
         Grows(walk, n), NEW r, r = ScanFunction(walk, p.table, p.bus, p.device, p.function)
  PROVE  /\ r \in Results /\ Len(r.value) >= Len(p.table)
         /\ r.error = "kSuccess" => Point(r.value, p.bus, p.device, p.function + 1) \in Near(n)
<1>1. p \in Points
  BY DEF Near
<1>2. PICK b, d, f : b = p.bus /\ d = p.device /\ f = p.function
  OBVIOUS
<1>3. Located(b, d, f) /\ f < 8 /\ p.table \in Tables /\ Len(p.table) \in Nat
  BY <1>1, <1>2, StepWays, PointFacts
<1>4. PICK s : s = AddDevice(p.table, <<p.bus, p.device, p.function>>)
  OBVIOUS
<1>5. /\ s \in Results /\ Len(s.value) >= Len(p.table)
      /\ s.error = "kSuccess" => Len(s.value) = Len(p.table) + 1
  BY <1>2, <1>3, <1>4, AddFacts
<1>6. r = s \/ (s.error = "kSuccess" /\ \E q \in Near(n) : r = walk[q] /\ q.table = s.value)
  BY <1>4, FunctionReaches
<1>7. /\ r \in Results /\ Len(r.value) >= Len(s.value)
  <2>1. CASE r = s
    <3>1. Len(s.value) \in Nat
      BY <1>5, TableFacts DEF Results
    <3> QED
      BY <1>5, <2>1, <3>1
  <2>2. CASE s.error = "kSuccess" /\ \E q \in Near(n) : r = walk[q] /\ q.table = s.value
    BY <2>2 DEF Grows
  <2> QED
    BY <1>6, <2>1, <2>2
<1>8. r.error = "kSuccess" => s.error = "kSuccess"
  BY <1>6
<1>9. Len(r.value) \in Nat /\ Len(s.value) \in Nat /\ r.value \in Tables
  BY <1>5, <1>7, TableFacts DEF Results
<1>10. Len(r.value) >= Len(p.table)
  BY <1>3, <1>5, <1>7, <1>9
<1>11. ASSUME r.error = "kSuccess" PROVE Point(r.value, p.bus, p.device, p.function + 1) \in Near(n)
  <2>1. Len(p.table) < Len(r.value)
    BY <1>3, <1>5, <1>7, <1>8, <1>9, <1>11
  <2>2. PICK g \in Nat : g = f + 1 /\ g <= 8
    BY <1>3 DEF Located
  <2>3. b \in 0..255 /\ d \in Nat /\ d <= 32
    BY <1>3 DEF Located
  <2> QED
    BY <1>2, <1>9, <2>1, <2>2, <2>3, NextPoints
<1> QED
  BY <1>7, <1>10, <1>11

LEMMA FunctionAgrees ==
  ASSUME machine \in Machines, NEW n \in Nat, NEW p \in Near(n + 1), Finds(p), NEW walk, NEW other,
         \A q \in Near(n) : other[q] = walk[q]
  PROVE  ScanFunction(other, p.table, p.bus, p.device, p.function) =
         ScanFunction(walk, p.table, p.bus, p.device, p.function)
<1>1. PICK s : s = AddDevice(p.table, <<p.bus, p.device, p.function>>)
  OBVIOUS
<1>2. PICK r : r = ScanFunction(walk, p.table, p.bus, p.device, p.function)
  OBVIOUS
<1>3. PICK t : t = ScanFunction(other, p.table, p.bus, p.device, p.function)
  OBVIOUS
<1> DEFINE q == Point(s.value, SecondaryBus(p), 0, 0)
<1>4. /\ s.error # "kSuccess" => r = s
      /\ s.error = "kSuccess" =>
           IF Bridge(ReadClassCode(p.bus, p.device, p.function))
           THEN q \in Near(n) /\ r = walk[q]
           ELSE r = s
  BY <1>1, <1>2, FunctionWays
<1>5. /\ s.error # "kSuccess" => t = s
      /\ s.error = "kSuccess" =>
           IF Bridge(ReadClassCode(p.bus, p.device, p.function))
           THEN q \in Near(n) /\ t = other[q]
           ELSE t = s
  BY <1>1, <1>3, FunctionWays
<1> HIDE DEF q
<1> QED
  BY <1>2, <1>3, <1>4, <1>5

LEMMA StepGrows ==
  ASSUME machine \in Machines, NEW n \in Nat, NEW walk, Grows(walk, n), NEW p \in Near(n + 1),
         NEW r, r = ScanStep(walk, p)
  PROVE  r \in Results /\ Len(r.value) >= Len(p.table)
<1>1. p \in Points
  BY DEF Near
<1>2. p.table \in Tables /\ Len(p.table) \in Nat
  BY <1>1, PointFacts
<1>3. CASE Ends(p)
  <2>1. r = [value |-> p.table, error |-> "kSuccess"]
    BY <1>1, <1>3, StepWays DEF WithError
  <2> QED
    BY <1>2, <2>1 DEF Results
<1>4. ASSUME NEW q \in Near(n), r = walk[q], Len(q.table) >= Len(p.table)
      PROVE  r \in Results /\ Len(r.value) >= Len(p.table)
  <2>1. r \in Results /\ Len(r.value) >= Len(q.table)
    BY <1>4 DEF Grows
  <2>2. q.table \in Tables /\ r.value \in Tables
    BY <2>1, PointFacts DEF Near, Results
  <2>3. Len(q.table) \in Nat /\ Len(r.value) \in Nat
    BY <2>2, TableFacts
  <2> QED
    BY <1>2, <1>4, <2>1, <2>3
<1>5. CASE Leaves(p)
  <2>1. PICK q : q = Point(p.table, p.bus, p.device + 1, 0)
    OBVIOUS
  <2>2. q \in Near(n) /\ q.table = p.table
    BY <1>5, <2>1, NextPoints DEF Leaves, Point
  <2>3. r = walk[q]
    BY <1>1, <1>5, <2>1, StepWays
  <2> QED
    BY <1>2, <1>4, <2>2, <2>3
<1>6. CASE Passes(p)
  <2>1. PICK q : q = Point(p.table, p.bus, p.device, p.function + 1)
    OBVIOUS
  <2>2. p.function < 8 /\ r = walk[q]
    BY <1>1, <1>6, <2>1, StepWays
  <2>3. q \in Near(n) /\ q.table = p.table
    BY <2>1, <2>2, NextPoints DEF Point
  <2> QED
    BY <1>2, <1>4, <2>2, <2>3
<1>7. CASE Finds(p)
  <2>1. PICK s : s = ScanFunction(walk, p.table, p.bus, p.device, p.function)
    OBVIOUS
  <2>2. PICK q : q = Point(s.value, p.bus, p.device, p.function + 1)
    OBVIOUS
  <2>3. r = IF s.error # "kSuccess" THEN s ELSE walk[q]
    BY <1>1, <1>7, <2>1, <2>2, StepWays
  <2>4. /\ s \in Results /\ Len(s.value) >= Len(p.table)
        /\ s.error = "kSuccess" => q \in Near(n)
    BY <1>7, <2>1, <2>2, FunctionGrows
  <2>5. q.table = s.value
    BY <2>2 DEF Point
  <2> QED
    BY <1>4, <2>3, <2>4, <2>5
<1> QED
  BY <1>1, <1>3, <1>5, <1>6, <1>7, StepWays

LEMMA StepAgrees ==
  ASSUME machine \in Machines, NEW n \in Nat, NEW walk, Grows(walk, n), NEW p \in Near(n + 1),
         NEW other, \A q \in Near(n) : other[q] = walk[q]
  PROVE  ScanStep(other, p) = ScanStep(walk, p)
<1>1. p \in Points
  BY DEF Near
<1>2. CASE Ends(p)
  BY <1>1, <1>2, StepWays
<1>3. CASE Leaves(p)
  <2>1. PICK q : q = Point(p.table, p.bus, p.device + 1, 0)
    OBVIOUS
  <2>2. q \in Near(n)
    BY <1>3, <2>1, NextPoints DEF Leaves
  <2>3. ScanStep(other, p) = other[q] /\ ScanStep(walk, p) = walk[q]
    BY <1>1, <1>3, <2>1, StepWays
  <2> QED
    BY <2>2, <2>3
<1>4. CASE Passes(p)
  <2>1. PICK q : q = Point(p.table, p.bus, p.device, p.function + 1)
    OBVIOUS
  <2>2. p.function < 8 /\ ScanStep(other, p) = other[q] /\ ScanStep(walk, p) = walk[q]
    BY <1>1, <1>4, <2>1, StepWays
  <2>3. q \in Near(n)
    BY <2>1, <2>2, NextPoints
  <2> QED
    BY <2>2, <2>3
<1>5. CASE Finds(p)
  <2>1. PICK s : s = ScanFunction(walk, p.table, p.bus, p.device, p.function)
    OBVIOUS
  <2>2. s = ScanFunction(other, p.table, p.bus, p.device, p.function)
    BY <1>5, <2>1, FunctionAgrees
  <2>3. PICK q : q = Point(s.value, p.bus, p.device, p.function + 1)
    OBVIOUS
  <2>4. ScanStep(walk, p) = IF s.error # "kSuccess" THEN s ELSE walk[q]
    BY <1>1, <1>5, <2>1, <2>3, StepWays
  <2>6. ScanStep(other, p) = IF s.error # "kSuccess" THEN s ELSE other[q]
    BY <1>1, <1>5, <2>2, <2>3, StepWays
  <2>5. s.error = "kSuccess" => q \in Near(n)
    BY <1>5, <2>1, <2>3, FunctionGrows
  <2> QED
    BY <2>4, <2>5, <2>6
<1> QED
  BY <1>1, <1>2, <1>3, <1>4, <1>5, StepWays

-----------------------------------------------------------------------------
(* A walk that solves the recursion near the end solves it one step        *)
(* further away once it takes that step.                                   *)
LEMMA Further ==
  ASSUME machine \in Machines, NEW n \in Nat, NEW walk, Solves(walk, n)
  PROVE  Solves([p \in Points |-> ScanStep(walk, p)], n + 1)
<1>1. PICK other : other = [p \in Points |-> ScanStep(walk, p)]
  OBVIOUS
<1>2. \A p \in Near(n) : other[p] = walk[p]
  BY <1>1 DEF Solves, Near
<1>3. \A p \in Near(n + 1) : other[p] = ScanStep(walk, p)
  BY <1>1 DEF Near
<1>4. Grows(walk, n)
  BY DEF Solves
<1>5. Grows(other, n + 1)
  <2>1. ASSUME NEW p \in Near(n + 1)
        PROVE  other[p] \in Results /\ Len(other[p].value) >= Len(p.table)
    <3>1. other[p] = ScanStep(walk, p)
      BY <1>3
    <3> QED
      BY <3>1, <1>4, StepGrows
  <2> QED
    BY <2>1 DEF Grows
<1>6. ASSUME NEW p \in Near(n + 1) PROVE other[p] = ScanStep(other, p)
  <2>1. ScanStep(other, p) = ScanStep(walk, p)
    BY <1>2, <1>4, StepAgrees
  <2> QED
    BY <1>3, <2>1
<1>7. Solves(other, n + 1)
  BY <1>5, <1>6 DEF Solves
<1> QED
  BY <1>1, <1>7

LEMMA Solvable ==
  ASSUME machine \in Machines
  PROVE  \A n \in Nat : \E walk : Solves(walk, n)
<1> DEFINE S == {n \in Nat : \E walk : Solves(walk, n)}
<1>1. 0 \in S
  <2>1. Near(0) = {}
    <3>1. ASSUME NEW p \in Near(0) PROVE FALSE
      BY PointFacts DEF Near
    <3> QED
      BY <3>1
  <2>2. PICK walk : walk = [p \in Points |-> p]
    OBVIOUS
  <2>3. Solves(walk, 0)
    BY <2>1 DEF Solves, Grows
  <2> QED
    BY <2>3
<1>2. ASSUME NEW n \in Nat, n \in S PROVE n + 1 \in S
  <2>1. PICK walk : Solves(walk, n)
    BY <1>2
  <2>2. Solves([p \in Points |-> ScanStep(walk, p)], n + 1)
    BY <2>1, Further
  <2> QED
    BY <2>2
<1> HIDE DEF S
<1>3. \A n \in Nat : n \in S
  BY <1>1, <1>2, Induction
<1> QED
  BY <1>3 DEF S

(* So ScanFrom solves it everywhere: no point is further from the end than *)
(* the first of a bus with an empty table.                                 *)
LEMMA FromDefined ==
  ASSUME NEW walk, walk = [p \in Points |-> ScanStep(walk, p)]
  PROVE  ScanFrom = [p \in Points |-> ScanStep(ScanFrom, p)]
BY Zenon DEF ScanFrom

Furthest == TableSize * 297 + 297

LEMMA WithinFurthest ==
  ASSUME NEW p \in Points
  PROVE  Rank(p) < Furthest
<1>1. PICK l, d, f : l = Len(p.table) /\ d = p.device /\ f = p.function
  OBVIOUS
<1>2. PICK size \in Nat : size = TableSize
  BY SizeFacts
<1>3. l \in Nat /\ l <= size /\ d \in Nat /\ d <= 32 /\ f \in Nat /\ f <= 8
  BY <1>1, <1>2, PointFacts
<1>4. PICK k \in Nat, e \in Nat, g \in Nat : k = size - l /\ e = 32 - d /\ g = 8 - f
  BY <1>3
<1>5. k <= size /\ e <= 32 /\ g <= 8
  BY <1>3, <1>4
<1>6. Rank(p) = k * 297 + e * 9 + g
  BY <1>1, <1>2, <1>4 DEF Rank, Ahead
<1>7. Furthest = size * 297 + 297
  BY <1>2 DEF Furthest
<1> QED
  BY <1>5, <1>6, <1>7

LEMMA FromSolves ==
  ASSUME machine \in Machines
  PROVE  ScanFrom = [p \in Points |-> ScanStep(ScanFrom, p)]
<1>1. Furthest \in Nat /\ Near(Furthest) = Points /\ Near(Furthest + 1) = Points
  <2>1. Furthest \in Nat
    BY DEF Furthest, TableSize
  <2>2. \A p \in Points : Rank(p) \in Nat /\ Rank(p) < Furthest
    BY WithinFurthest, PointFacts
  <2>3. \A p \in Points : Rank(p) < Furthest + 1
    BY <2>1, <2>2
  <2> QED
    BY <2>1, <2>2, <2>3 DEF Near
<1>2. PICK walk : Solves(walk, Furthest)
  BY <1>1, Solvable
<1>3. PICK other : other = [p \in Points |-> ScanStep(walk, p)]
  OBVIOUS
<1>4. Solves(other, Furthest + 1)
  BY <1>1, <1>2, <1>3, Further
<1>5. \A p \in Points : other[p] = ScanStep(other, p)
  BY <1>1, <1>4 DEF Solves
<1>6. other = [p \in Points |-> ScanStep(other, p)]
  BY <1>3, <1>5
<1> QED
  BY <1>6, FromDefined

LEMMA FromGrows ==
  ASSUME machine \in Machines
  PROVE  \A n \in Nat : Grows(ScanFrom, n)
<1> DEFINE S == {n \in Nat : Grows(ScanFrom, n)}
<1>0. \A p \in Points : ScanFrom[p] = ScanStep(ScanFrom, p)
  BY FromSolves
<1>1. 0 \in S
  <2>1. ASSUME NEW p \in Near(0) PROVE FALSE
    BY PointFacts DEF Near
  <2> QED
    BY <2>1 DEF Grows
<1>2. ASSUME NEW n \in Nat, n \in S PROVE n + 1 \in S
  <2>1. Grows(ScanFrom, n)
    BY <1>2
  <2>2. ASSUME NEW p \in Near(n + 1)
        PROVE  ScanFrom[p] \in Results /\ Len(ScanFrom[p].value) >= Len(p.table)
    <3>1. p \in Points
      BY DEF Near
    <3> QED
      BY <1>0, <2>1, <3>1, StepGrows
  <2> QED
    BY <2>2 DEF Grows
<1> HIDE DEF S
<1>3. \A n \in Nat : n \in S
  BY <1>1, <1>2, Induction
<1> QED
  BY <1>3 DEF S

LEMMA FromTypes ==
  ASSUME machine \in Machines, NEW p \in Points
  PROVE  ScanFrom[p] \in Results /\ ScanFrom[p] = ScanStep(ScanFrom, p)
<1>1. Furthest \in Nat /\ p \in Near(Furthest)
  BY WithinFurthest DEF Near, Furthest, TableSize
<1> QED
  BY <1>1, FromSolves, FromGrows DEF Grows

-----------------------------------------------------------------------------
(* The roots, one after the other                                          *)
Start == WithError(<<>>, "kSuccess")

RootsUpTo(f, n) ==
  f = [k \in 0..n |-> IF k = 0 THEN Start ELSE ScanRoot(f[k - 1], k - 1)]

LEMMA RootsDefined == RootsUpTo(ScanRoots, 8)
<1> DEFINE S == {n \in Nat : \E f : RootsUpTo(f, n)}
<1>1. 0 \in S
  <2>1. RootsUpTo([k \in 0..0 |-> Start], 0)
    BY DEF RootsUpTo
  <2> QED
    BY <2>1
<1>2. ASSUME NEW n \in Nat, n \in S PROVE n + 1 \in S
  <2>1. PICK f : RootsUpTo(f, n)
    BY <1>2
  <2> DEFINE g == [k \in 0..n + 1 |-> IF k <= n THEN f[k] ELSE ScanRoot(f[n], n)]
  <2>2. /\ DOMAIN f = 0..n /\ f[0] = Start
        /\ \A k \in 1..n : f[k] = ScanRoot(f[k - 1], k - 1)
    BY <2>1 DEF RootsUpTo
  <2>3. g[0] = Start
    BY <2>2
  <2>4. ASSUME NEW k \in 1..n + 1 PROVE g[k] = ScanRoot(g[k - 1], k - 1)
    <3>1. k - 1 \in 0..n /\ g[k - 1] = f[k - 1]
      OBVIOUS
    <3>2. CASE k <= n
      BY <2>2, <3>1, <3>2
    <3>3. CASE k = n + 1
      BY <3>1, <3>3
    <3> QED
      BY <3>2, <3>3
  <2>5. g = [k \in 0..n + 1 |-> g[k]]
    OBVIOUS
  <2> HIDE DEF g
  <2>6. RootsUpTo(g, n + 1)
    <3>1. \A k \in 0..n + 1 : g[k] = IF k = 0 THEN Start ELSE ScanRoot(g[k - 1], k - 1)
      BY <2>3, <2>4
    <3> QED
      BY <2>5, <3>1, Zenon DEF RootsUpTo
  <2> QED
    BY <2>6
<1> HIDE DEF S
<1>3. 8 \in S
  BY <1>1, <1>2, Induction
<1>4. \E f : RootsUpTo(f, 8)
  BY <1>3 DEF S
<1>5. ScanRoots = CHOOSE f : f = [k \in 0..8 |-> IF k = 0 THEN Start ELSE ScanRoot(f[k - 1], k - 1)]
  BY DEF ScanRoots, Start
<1> QED
  BY <1>4, <1>5, Zenon DEF RootsUpTo

LEMMA RootsFacts ==
  /\ ScanRoots[0] = Start
  /\ \A n \in Nat : n < 8 => ScanRoots[n + 1] = ScanRoot(ScanRoots[n], n)
<1>1. /\ ScanRoots[0] = Start
      /\ \A k \in 1..8 : ScanRoots[k] = ScanRoot(ScanRoots[k - 1], k - 1)
  BY RootsDefined DEF RootsUpTo
<1>2. ASSUME NEW n \in Nat, n < 8 PROVE ScanRoots[n + 1] = ScanRoot(ScanRoots[n], n)
  <2>1. n + 1 \in 1..8 /\ (n + 1) - 1 = n
    BY <1>2
  <2> QED
    BY <1>1, <2>1
<1> QED
  BY <1>1, <1>2

LEMMA BusPoint ==
  ASSUME NEW table \in Tables, NEW b \in 0..255
  PROVE  Point(table, b, 0, 0) \in Points
BY DEF Point, Points

LEMMA StartFacts == <<>> \in Tables /\ Start \in Results
<1>1. <<>> \in Seq((0..255) \X (0..31) \X (0..7)) /\ Len(<<>>) = 0
  OBVIOUS
<1>2. <<>> \in Tables
  BY <1>1, SizeFacts DEF Tables
<1> QED
  BY <1>2 DEF Results, Start, WithError

LEMMA BusTypes ==
  ASSUME machine \in Machines, NEW table \in Tables, NEW b \in 0..255
  PROVE  ScanBus(table, b) \in Results
BY BusPoint, FromTypes DEF ScanBus

LEMMA RootsTypes ==
  ASSUME machine \in Machines
  PROVE  \A n \in Nat : n <= 8 => ScanRoots[n] \in Results
<1> DEFINE S == {n \in Nat : n <= 8 => ScanRoots[n] \in Results}
<1>1. 0 \in S
  BY RootsFacts, StartFacts
<1>2. ASSUME NEW n \in Nat, n \in S PROVE n + 1 \in S
  <2> SUFFICES ASSUME n + 1 <= 8 PROVE ScanRoots[n + 1] \in Results
    OBVIOUS
  <2>1. n < 8 /\ ScanRoots[n] \in Results
    BY <1>2
  <2>2. PICK s : s = ScanRoots[n]
    OBVIOUS
  <2>3. s \in Results /\ s.value \in Tables
    BY <2>1, <2>2 DEF Results
  <2>4. ScanRoots[n + 1] \in {s, ScanBus(s.value, n)}
    BY <2>1, <2>2, RootsFacts DEF ScanRoot
  <2>5. ScanBus(s.value, n) \in Results
    BY <2>1, <2>3, BusTypes
  <2> QED
    BY <2>3, <2>4, <2>5
<1> HIDE DEF S
<1>3. \A n \in Nat : n \in S
  BY <1>1, <1>2, Induction
<1> QED
  BY <1>3 DEF S

LEMMA ScanTypes ==
  ASSUME machine \in Machines
  PROVE  ScanAllBus \in Results
<1>1. ScanBus(<<>>, 0) \in Results
  BY StartFacts, BusTypes
<1>2. ScanRoots[8] \in Results
  BY RootsTypes
<1> QED
  BY <1>1, <1>2 DEF ScanAllBus

-----------------------------------------------------------------------------
(* The buses below some roots, and what is on them.                        *)
Beyond(b) == UNION {Functions(c) : c \in Below({b})}

LEMMA BelowFacts ==
  ASSUME NEW R
  PROVE  /\ R \subseteq Below(R) /\ Closed(Below(R))
         /\ \A S : R \subseteq S /\ Closed(S) => Below(R) \subseteq S
<1> DEFINE buses == R \cup {Secondary(f) : f \in Bridges}
<1>0. Below(R) = {b \in buses : \A S \in SUBSET buses : R \subseteq S /\ Closed(S) => b \in S}
  BY DEF Below
<1>1. R \subseteq Below(R)
  BY <1>0
<1>2. ASSUME NEW f \in Bridges, f[1] \in Below(R) PROVE Secondary(f) \in Below(R)
  <2>1. ASSUME NEW S \in SUBSET buses, R \subseteq S, Closed(S) PROVE Secondary(f) \in S
    <3>1. f[1] \in S
      BY <1>0, <1>2, <2>1
    <3> QED
      BY <2>1, <3>1 DEF Closed
  <2> QED
    BY <1>0, <2>1
<1>3. ASSUME NEW S, R \subseteq S, Closed(S) PROVE Below(R) \subseteq S
  <2> DEFINE T == S \cap buses
  <2>1. T \in SUBSET buses /\ R \subseteq T
    BY <1>3
  <2>2. Closed(T)
    BY <1>3 DEF Closed
  <2> HIDE DEF T
  <2>3. Below(R) \subseteq T
    BY <1>0, <2>1, <2>2
  <2> QED
    BY <2>3 DEF T
<1> HIDE DEF buses
<1> QED
  BY <1>1, <1>2, <1>3 DEF Closed

LEMMA BelowLeast ==
  ASSUME NEW R, NEW S, R \subseteq S, Closed(S)
  PROVE  Below(R) \subseteq S
BY BelowFacts

LEMMA BridgeFacts ==
  ASSUME machine \in Machines, NEW f \in Bridges
  PROVE  /\ f \in DOMAIN machine.space /\ f[1] \in 0..255 /\ Secondary(f) \in 0..255
         /\ f[1] \in Nat /\ Secondary(f) \in Nat
<1>1. f \in DOMAIN machine.space
  BY DEF Bridges
<1>2. f[1] \in 0..255
  BY <1>1, PciAssumption
<1>3. machine.space[f][24] \in Nat
  BY <1>1, PciAssumption
<1>4. Secondary(f) \in 0..255
  BY <1>3 DEF Secondary
<1> QED
  BY <1>1, <1>2, <1>4

(* Behind a bus lie only itself and what its bridges lead to, ...          *)
LEMMA BelowBus ==
  ASSUME NEW b
  PROVE  /\ \A c \in Below({b}) :
              c = b \/ \E g \in Bridges : g[1] = b /\ c \in Below({Secondary(g)})
         /\ \A g \in Bridges : g[1] = b => Below({Secondary(g)}) \subseteq Below({b})
<1> DEFINE fs == {g \in Bridges : g[1] = b}
           S == {b} \cup UNION {Below({Secondary(f)}) : f \in fs}
<1>1. ASSUME NEW f \in Bridges, f[1] \in S PROVE Secondary(f) \in S
  <2>1. CASE f[1] = b
    BY <2>1, BelowFacts
  <2>2. CASE f[1] # b
    <3>1. PICK g \in fs : f[1] \in Below({Secondary(g)})
      BY <1>1, <2>2
    <3>2. Secondary(f) \in Below({Secondary(g)})
      BY <3>1, BelowFacts DEF Closed
    <3> QED
      BY <3>1, <3>2
  <2> QED
    BY <2>1, <2>2
<1>2. Below({b}) \subseteq S
  <2>1. {b} \subseteq S /\ Closed(S)
    BY <1>1 DEF Closed
  <2> HIDE DEF S
  <2> QED
    BY <2>1, BelowLeast
<1>3. ASSUME NEW f \in fs PROVE Below({Secondary(f)}) \subseteq Below({b})
  <2>1. b \in Below({b}) /\ Closed(Below({b}))
    BY BelowFacts
  <2>2. {Secondary(f)} \subseteq Below({b})
    BY <2>1 DEF Closed
  <2> QED
    BY <2>1, <2>2, BelowLeast
<1> QED
  BY <1>2, <1>3

(* ... below several what is below one of them, ...                        *)
LEMMA BelowUnion ==
  ASSUME NEW R
  PROVE  Below(R) = UNION {Below({r}) : r \in R}
<1> DEFINE S == UNION {Below({r}) : r \in R}
<1>1. R \subseteq S
  BY BelowFacts
<1>2. Closed(S)
  <2>1. ASSUME NEW f \in Bridges, f[1] \in S PROVE Secondary(f) \in S
    <3>1. PICK r \in R : f[1] \in Below({r})
      BY <2>1
    <3>2. Secondary(f) \in Below({r})
      BY <3>1, BelowFacts DEF Closed
    <3> QED
      BY <3>1, <3>2
  <2> HIDE DEF S
  <2> QED
    BY <2>1 DEF Closed
<1>3. Below(R) \subseteq S
  <2> HIDE DEF S
  <2> QED
    BY <1>1, <1>2, BelowLeast
<1>4. ASSUME NEW r \in R PROVE Below({r}) \subseteq Below(R)
  <2>1. {r} \subseteq Below(R) /\ Closed(Below(R))
    BY BelowFacts
  <2> QED
    BY <2>1, BelowLeast
<1> QED
  BY <1>3, <1>4

(* ... a bus that is not a root has a bridge to it, ...                    *)
LEMMA BelowParent ==
  ASSUME NEW R, NEW c \in Below(R), c \notin R
  PROVE  \E f \in Bridges : f[1] \in Below(R) /\ Secondary(f) = c
<1> SUFFICES ASSUME \A f \in Bridges : f[1] \in Below(R) => Secondary(f) # c PROVE FALSE
  OBVIOUS
<1> DEFINE S == Below(R) \ {c}
<1>1. R \subseteq S
  BY BelowFacts
<1>2. Closed(S)
  BY BelowFacts DEF Closed
<1> HIDE DEF S
<1>3. Below(R) \subseteq S
  BY <1>1, <1>2, BelowLeast
<1> QED
  BY <1>3 DEF S

(* ... and where buses are numbered downwards they only grow.              *)
LEMMA BelowGrows ==
  ASSUME machine \in Machines, Numbered, NEW b \in Nat, NEW c \in Below({b})
  PROVE  c \in Nat /\ b <= c
<1> DEFINE S == {x \in Nat : b <= x}
<1>1. {b} \subseteq S
  OBVIOUS
<1>2. Closed(S)
  <2>1. ASSUME NEW f \in Bridges, f[1] \in S PROVE Secondary(f) \in S
    <3>1. f[1] \in Nat /\ Secondary(f) \in Nat /\ Secondary(f) > f[1]
      BY BridgeFacts DEF Numbered
    <3> QED
      BY <2>1, <3>1
  <2> HIDE DEF S
  <2> QED
    BY <2>1 DEF Closed
<1> HIDE DEF S
<1>3. Below({b}) \subseteq S
  BY <1>1, <1>2, BelowLeast
<1> QED
  BY <1>3 DEF S

(* So two buses of which neither is below the other have nothing in common.*)
LEMMA BelowApart ==
  ASSUME machine \in Machines, Numbered, NEW b, NEW c, b \notin Below({c}), c \notin Below({b})
  PROVE  Below({b}) \cap Below({c}) = {}
<1> DEFINE S == Below({b}) \ Below({c})
<1>1. {b} \subseteq S
  BY BelowFacts
<1>2. Closed(S)
  <2>1. ASSUME NEW f \in Bridges, f[1] \in S, Secondary(f) \in Below({c}) PROVE FALSE
    <3>1. Secondary(f) \in Below({b})
      BY <2>1, BelowFacts DEF Closed
    <3>2. Secondary(f) \notin {c}
      BY <3>1
    <3>3. PICK g \in Bridges : g[1] \in Below({c}) /\ Secondary(g) = Secondary(f)
      BY <2>1, <3>2, BelowParent
    <3>4. g = f
      BY <3>3 DEF Numbered
    <3> QED
      BY <2>1, <3>3, <3>4
  <2>2. ASSUME NEW f \in Bridges, f[1] \in S PROVE Secondary(f) \in S
    <3>1. Secondary(f) \in Below({b})
      BY <2>2, BelowFacts DEF Closed
    <3> QED
      BY <2>1, <2>2, <3>1
  <2> HIDE DEF S
  <2> QED
    BY <2>2 DEF Closed
<1> HIDE DEF S
<1>3. Below({b}) \subseteq S
  BY <1>1, <1>2, BelowLeast
<1> QED
  BY <1>3 DEF S

(* Two bridges on one bus                                                  *)
LEMMA SiblingsApart ==
  ASSUME machine \in Machines, Numbered, NEW f \in Bridges, NEW g \in Bridges,
         f # g, f[1] = g[1]
  PROVE  Below({Secondary(f)}) \cap Below({Secondary(g)}) = {}
<1>1. \A h \in {f, g} : /\ h[1] \in Nat /\ Secondary(h) \in Nat /\ Secondary(h) > h[1]
  BY BridgeFacts DEF Numbered
<1>2. ASSUME NEW h \in {f, g}, NEW k \in {f, g}, h # k, Secondary(h) \in Below({Secondary(k)})
      PROVE  FALSE
  <2>1. Secondary(h) \notin {Secondary(k)}
    BY <1>2 DEF Numbered
  <2>2. PICK e \in Bridges : e[1] \in Below({Secondary(k)}) /\ Secondary(e) = Secondary(h)
    BY <1>2, <2>1, BelowParent
  <2>3. e = h
    BY <2>2 DEF Numbered
  <2>4. PICK n \in Nat : n = Secondary(k)
    BY <1>1
  <2>5. h[1] \in Below({n})
    BY <2>2, <2>3, <2>4
  <2>6. n <= h[1]
    BY <2>5, BelowGrows
  <2> QED
    BY <1>1, <2>4, <2>6
<1>3. Secondary(f) \notin Below({Secondary(g)}) /\ Secondary(g) \notin Below({Secondary(f)})
  BY <1>2
<1> QED
  BY <1>3, BelowApart

(* Two roots                                                               *)
LEMMA RootsApart ==
  ASSUME machine \in Machines, Numbered, NEW b \in Roots, NEW c \in Roots, b # c
  PROVE  Below({b}) \cap Below({c}) = {}
<1>1. ASSUME NEW h \in Roots, NEW k \in Roots, h # k, h \in Below({k}) PROVE FALSE
  <2>1. PICK e \in Bridges : Secondary(e) = h
    BY <1>1, BelowParent
  <2> QED
    BY <2>1 DEF Numbered
<1>2. b \notin Below({c}) /\ c \notin Below({b})
  BY <1>1
<1> QED
  BY <1>2, BelowApart

-----------------------------------------------------------------------------
(* What the walk has before it on a bus, and what that leads to            *)
Own(b, d, f)  == {g \in Functions(b) : g[2] > d \/ (g[2] = d /\ g[3] >= f)}
More(g)       == IF g \in Bridges THEN Beyond(Secondary(g)) ELSE {}
Rest(b, d, f) == Own(b, d, f) \cup UNION {More(g) : g \in Own(b, d, f)}

LEMMA FunctionFacts ==
  ASSUME machine \in Machines, NEW b, NEW g \in Functions(b)
  PROVE  /\ g \in DOMAIN machine.space /\ g = <<b, g[2], g[3]>> /\ Located(b, g[2], g[3])
         /\ g[1] = b /\ g[2] \in Nat /\ g[2] < 32 /\ g[3] \in Nat /\ g[3] < 8
<1>1. g \in DOMAIN machine.space /\ g[1] = b
  BY DEF Functions
<1>2. g \in (0..255) \X (0..31) \X (0..7)
  BY <1>1, PciAssumption
<1> QED
  BY <1>1, <1>2 DEF Located

LEMMA BeyondFacts ==
  ASSUME NEW c, NEW h \in Beyond(c)
  PROVE  h \in DOMAIN machine.space /\ h[1] \in Below({c}) /\ h \in Functions(h[1])
BY DEF Beyond, Functions

LEMMA BeyondApart ==
  ASSUME NEW b, NEW c, Below({b}) \cap Below({c}) = {}
  PROVE  Beyond(b) \cap Beyond(c) = {}
BY BeyondFacts

LEMMA BeyondBus ==
  ASSUME NEW b
  PROVE  Beyond(b) = Functions(b) \cup UNION {More(g) : g \in Functions(b)}
<1>1. ASSUME NEW h \in Beyond(b)
      PROVE  h \in Functions(b) \cup UNION {More(g) : g \in Functions(b)}
  <2>1. PICK c \in Below({b}) : h \in Functions(c)
    BY DEF Beyond
  <2>2. CASE c = b
    BY <2>1, <2>2
  <2>3. CASE c # b
    <3>1. PICK g \in Bridges : g[1] = b /\ c \in Below({Secondary(g)})
      BY <2>1, <2>3, BelowBus
    <3>2. g \in Functions(b) /\ h \in More(g)
      BY <2>1, <3>1 DEF More, Functions, Bridges, Beyond
    <3> QED
      BY <3>2
  <2> QED
    BY <2>2, <2>3
<1>2. Functions(b) \subseteq Beyond(b)
  BY BelowFacts DEF Beyond
<1>3. ASSUME NEW g \in Functions(b) PROVE More(g) \subseteq Beyond(b)
  <2>1. CASE g \in Bridges
    <3>1. g[1] = b
      BY DEF Functions
    <3>2. Below({Secondary(g)}) \subseteq Below({b})
      BY <2>1, <3>1, BelowBus
    <3> QED
      BY <2>1, <3>2 DEF More, Beyond
  <2> QED
    BY <2>1 DEF More
<1> QED
  BY <1>1, <1>2, <1>3

LEMMA RestOfBus ==
  ASSUME machine \in Machines, NEW b
  PROVE  Rest(b, 0, 0) = Beyond(b)
<1>1. Own(b, 0, 0) = Functions(b)
  BY FunctionFacts DEF Own
<1> QED
  BY <1>1, BeyondBus DEF Rest

LEMMA OwnEnds ==
  ASSUME machine \in Machines, NEW p \in Points, Ends(p)
  PROVE  Own(p.bus, p.device, p.function) = {}
BY FunctionFacts DEF Own, Ends

LEMMA OwnLeaves ==
  ASSUME machine \in Machines, NEW p \in Points, Leaves(p)
  PROVE  Own(p.bus, p.device, p.function) = Own(p.bus, p.device + 1, 0)
<1>1. PICK b, d, f : b = p.bus /\ d = p.device /\ f = p.function
  OBVIOUS
<1>2. b \in 0..255 /\ d \in Nat /\ d < 32 /\ f \in Nat /\ f <= 8 /\ DeviceDone(b, d, f)
  BY <1>1, PointFacts DEF Leaves
<1>3. PICK o : o = 0
  OBVIOUS
<1>4. Located(b, d, o)
  BY <1>2, <1>3 DEF Located
<1>5. ASSUME NEW g \in Functions(b), g[2] = d, g[3] >= f PROVE FALSE
  <2>1. g \in DOMAIN machine.space /\ g[1] = b /\ g[3] \in Nat /\ g[3] < 8 /\ g = <<b, d, g[3]>>
    BY <1>5, FunctionFacts
  <2>2. <<b, d, o>> \in DOMAIN machine.space
    BY <1>3, <1>5, <2>1, PciAssumption
  <2>3. ReadVendorId(b, d, o) # NoVendor /\ ReadHeaderType(b, d, o) = machine.space[<<b, d, o>>][12]
    BY <1>4, <2>2, PresentFacts
  <2>4. f # 0 \/ ReadVendorId(b, d, o) # NoVendor
    BY <2>3
  <2>5. f # 8
    BY <1>2, <1>5, <2>1
  <2>6. f = 1 /\ IsSingleFunctionDevice(ReadHeaderType(b, d, o))
    BY <1>2, <1>3, <2>4, <2>5 DEF DeviceDone
  <2>7. g[3] # 0
    BY <1>5, <2>1, <2>6
  <2>8. ReadHeaderType(b, d, o) >= 128 /\ ReadHeaderType(b, d, o) \in 0..255
    <3>1. machine.space[<<g[1], g[2], 0>>][12] >= 128
      BY <2>1, <2>7, PciAssumption
    <3>2. machine.space[<<b, d, o>>][12] \in 0..255
      BY <2>2, PciAssumption
    <3> QED
      BY <1>3, <1>5, <2>1, <2>3, <3>1, <3>2
  <2> QED
    BY <2>6, <2>8 DEF IsSingleFunctionDevice
<1>6. \A g \in Functions(b) : g[2] \in Nat /\ g[3] \in Nat
  BY FunctionFacts
<1>7. Own(b, d, f) = Own(b, d + 1, 0)
  BY <1>2, <1>5, <1>6 DEF Own
<1> QED
  BY <1>1, <1>7

LEMMA OwnPasses ==
  ASSUME machine \in Machines, NEW p \in Points, Passes(p)
  PROVE  Own(p.bus, p.device, p.function) = Own(p.bus, p.device, p.function + 1)
<1>1. PICK b, d, f : b = p.bus /\ d = p.device /\ f = p.function
  OBVIOUS
<1>2. b \in 0..255 /\ d \in Nat /\ d < 32 /\ f \in Nat /\ f < 8 /\ ReadVendorId(b, d, f) = NoVendor
  BY <1>1, PointFacts, StepWays DEF Passes
<1>3. <<b, d, f>> \notin DOMAIN machine.space
  <2>1. Located(b, d, f)
    BY <1>2 DEF Located
  <2> QED
    BY <1>2, <2>1, PresentFacts
<1>4. ASSUME NEW g \in Functions(b) PROVE ~(g[2] = d /\ g[3] = f) /\ g[2] \in Nat /\ g[3] \in Nat
  BY <1>3, FunctionFacts
<1>5. Own(b, d, f) = Own(b, d, f + 1)
  BY <1>2, <1>4 DEF Own
<1> QED
  BY <1>1, <1>5

LEMMA OwnFinds ==
  ASSUME machine \in Machines, NEW p \in Points, Finds(p),
         NEW g, g = <<p.bus, p.device, p.function>>
  PROVE  /\ g \in Functions(p.bus) /\ g \notin Own(p.bus, p.device, p.function + 1)
         /\ Own(p.bus, p.device, p.function) = {g} \cup Own(p.bus, p.device, p.function + 1)
         /\ Own(p.bus, p.device, p.function + 1) \subseteq Functions(p.bus)
<1>1. PICK b, d, f : b = p.bus /\ d = p.device /\ f = p.function
  OBVIOUS
<1>2. b \in 0..255 /\ d \in Nat /\ d < 32 /\ f \in Nat /\ f < 8 /\ ReadVendorId(b, d, f) # NoVendor
      /\ Located(b, d, f)
  BY <1>1, PointFacts, StepWays DEF Finds
<1>3. g = <<b, d, f>> /\ g[1] = b /\ g[2] = d /\ g[3] = f
  BY <1>1
<1>4. g \in Functions(b)
  BY <1>2, <1>3, PresentFacts DEF Functions
<1>5. ASSUME NEW h \in Functions(b)
      PROVE  (h[2] = d /\ h[3] = f <=> h = g) /\ h[2] \in Nat /\ h[3] \in Nat
  BY <1>3, FunctionFacts
<1>6. Own(b, d, f) = {g} \cup Own(b, d, f + 1) /\ g \notin Own(b, d, f + 1)
  BY <1>2, <1>3, <1>4, <1>5 DEF Own
<1> QED
  BY <1>1, <1>4, <1>6 DEF Own

-----------------------------------------------------------------------------
LEMMA MoreFacts ==
  ASSUME machine \in Machines, Numbered, NEW b, NEW g \in Functions(b), NEW h \in More(g)
  PROVE  g \in Bridges /\ b \in Nat /\ h[1] \in Nat /\ h[1] > b /\ h[1] \in Below({Secondary(g)})
<1>1. g \in Bridges /\ h \in Beyond(Secondary(g)) /\ g[1] = b
  BY DEF More, Functions
<1>2. PICK n \in Nat : n = Secondary(g) /\ n > b /\ b \in Nat
  BY <1>1, BridgeFacts DEF Numbered
<1>3. h[1] \in Below({n})
  BY <1>1, <1>2, BeyondFacts
<1>4. h[1] \in Nat /\ n <= h[1]
  BY <1>3, BelowGrows
<1> QED
  BY <1>1, <1>2, <1>3, <1>4

(* What a function adds is none of what comes after it.                    *)
LEMMA RestFinds ==
  ASSUME machine \in Machines, Numbered, NEW p \in Points, Finds(p),
         NEW g, g = <<p.bus, p.device, p.function>>,
         NEW rest, rest = Rest(p.bus, p.device, p.function + 1)
  PROVE  /\ Rest(p.bus, p.device, p.function) = ({g} \cup More(g)) \cup rest
         /\ g \notin More(g) /\ ({g} \cup More(g)) \cap rest = {}
<1>1. PICK b, own : b = p.bus /\ own = Own(p.bus, p.device, p.function + 1)
  OBVIOUS
<1>2. /\ g \in Functions(b) /\ g \notin own /\ own \subseteq Functions(b)
      /\ Own(p.bus, p.device, p.function) = {g} \cup own
  BY <1>1, OwnFinds
<1>3. rest = own \cup UNION {More(h) : h \in own}
  BY <1>1 DEF Rest
<1>4. Rest(p.bus, p.device, p.function) = ({g} \cup own) \cup UNION {More(h) : h \in {g} \cup own}
  BY <1>2 DEF Rest
<1>5. Rest(p.bus, p.device, p.function) = ({g} \cup More(g)) \cup rest
  BY <1>3, <1>4
<1>6. \A h \in Functions(b) : h[1] = b
  BY DEF Functions
<1>7. ASSUME NEW h \in Functions(b), NEW k \in More(h) PROVE k \notin Functions(b)
  <2>1. b \in Nat /\ k[1] \in Nat /\ k[1] > b
    BY <1>7, MoreFacts
  <2> QED
    BY <1>6, <2>1
<1>8. ASSUME NEW h \in own, NEW k \in More(g), k \in More(h) PROVE FALSE
  <2>1. h \in Functions(b) /\ h # g
    BY <1>2, <1>8
  <2>2. k[1] \in Below({Secondary(g)}) /\ k[1] \in Below({Secondary(h)}) /\ g \in Bridges /\ h \in Bridges
    BY <1>2, <1>8, <2>1, MoreFacts
  <2> QED
    BY <1>2, <1>6, <2>1, <2>2, SiblingsApart
<1>9. ({g} \cup More(g)) \cap rest = {}
  <2>1. ASSUME NEW x \in {g} \cup More(g), x \in rest PROVE FALSE
    <3>1. CASE x \in own
      <4>1. x \in Functions(b) /\ x # g
        BY <1>2, <3>1
      <4> QED
        BY <1>2, <1>7, <2>1, <4>1
    <3>2. CASE x \notin own
      <4>1. PICK h \in own : x \in More(h)
        BY <1>3, <2>1, <3>2
      <4> QED
        BY <1>2, <1>7, <1>8, <2>1, <4>1
    <3> QED
      BY <3>1, <3>2
  <2> QED
    BY <2>1
<1> QED
  BY <1>2, <1>5, <1>7, <1>9

-----------------------------------------------------------------------------
(* From a table without duplicates the walk gets, without duplicates,      *)
(* everything it was to find, or as much of it as there is room for.       *)
Found(table, R, r) ==
  /\ IsInjective(r.value)
  /\ r.error = "kSuccess" => ToSet(r.value) = ToSet(table) \cup R
  /\ r.error # "kSuccess" =>
       /\ Len(r.value) = TableSize
       /\ ToSet(r.value) \subseteq ToSet(table) \cup R /\ ToSet(r.value) # ToSet(table) \cup R

LEMMA AppendFacts ==
  ASSUME NEW t, NEW n \in Nat, DOMAIN t = 1..n, IsInjective(t), NEW g, g \notin ToSet(t),
         NEW u, DOMAIN u = 1..n + 1, u[n + 1] = g, \A i \in 1..n : u[i] = t[i]
  PROVE  IsInjective(u) /\ ToSet(u) = ToSet(t) \cup {g}
<1>1. \A i \in 1..n : t[i] \in ToSet(t)
  BY DEF ToSet
<1>2. IsInjective(u)
  <2>1. ASSUME NEW i \in 1..n + 1, NEW j \in 1..n + 1, u[i] = u[j] PROVE i = j
    <3>1. CASE i \in 1..n /\ j \in 1..n
      BY <2>1, <3>1 DEF IsInjective
    <3>2. CASE i = n + 1 /\ j = n + 1
      BY <3>2
    <3>3. CASE i \in 1..n /\ j = n + 1
      BY <1>1, <2>1, <3>3
    <3>4. CASE i = n + 1 /\ j \in 1..n
      BY <1>1, <2>1, <3>4
    <3> QED
      BY <3>1, <3>2, <3>3, <3>4
  <2> QED
    BY <2>1 DEF IsInjective
<1>3. ToSet(u) = ToSet(t) \cup {g}
  <2>1. ASSUME NEW x \in ToSet(u) PROVE x \in ToSet(t) \cup {g}
    <3>1. PICK i \in 1..n + 1 : x = u[i]
      BY DEF ToSet
    <3> QED
      BY <1>1, <3>1
  <2>2. ASSUME NEW x \in ToSet(t) PROVE x \in ToSet(u)
    <3>1. PICK i \in 1..n : x = t[i]
      BY DEF ToSet
    <3>2. i \in 1..n + 1 /\ u[i] = x
      BY <3>1
    <3> QED
      BY <3>2 DEF ToSet
  <2>3. g \in ToSet(u)
    BY DEF ToSet
  <2> QED
    BY <2>1, <2>2, <2>3
<1> QED
  BY <1>2, <1>3

LEMMA FoundAdd ==
  ASSUME NEW table \in Tables, NEW b, NEW d, NEW f, Located(b, d, f), NEW g, g = <<b, d, f>>,
         IsInjective(table), g \notin ToSet(table), NEW s, s = AddDevice(table, g)
  PROVE  Found(table, {g}, s)
<1>1. /\ s \in Results
      /\ s.error = "kSuccess" => s.value = Append(table, g)
      /\ s.error # "kSuccess" => Len(table) = TableSize /\ s.value = table
  BY AddFacts
<1>2. CASE s.error = "kSuccess"
  <2> DEFINE T == (0..255) \X (0..31) \X (0..7)
  <2>1. table \in Seq(T)
    BY TableFacts
  <2>2. <<b, d, f>> \in T
    BY DEF Located
  <2> HIDE DEF T
  <2>4. g \in T
    BY <2>2
  <2>3. IsInjective(s.value) /\ ToSet(s.value) = ToSet(table) \cup {g}
    <3>1. PICK u : u = Append(table, g)
      OBVIOUS
    <3>3. PICK n \in Nat : n = Len(table)
      BY <2>1
    <3>4. /\ DOMAIN table = 1..n /\ DOMAIN u = 1..n + 1 /\ u[n + 1] = g
          /\ \A i \in 1..n : u[i] = table[i]
      BY <2>1, <2>4, <3>1, <3>3
    <3>2. IsInjective(u) /\ ToSet(u) = ToSet(table) \cup {g}
      BY <3>4, AppendFacts
    <3> QED
      BY <1>1, <1>2, <3>1, <3>2
  <2> QED
    BY <1>2, <2>3 DEF Found
<1>3. CASE s.error # "kSuccess"
  BY <1>1, <1>3 DEF Found
<1> QED
  BY <1>2, <1>3

LEMMA FoundNot ==
  ASSUME NEW table, NEW R, NEW Q, NEW r, Found(table, R, r), r.error # "kSuccess"
  PROVE  Found(table, R \cup Q, r)
BY DEF Found

LEMMA FoundThen ==
  ASSUME NEW table, NEW R, NEW Q, NEW s, NEW r, Found(table, R, s), s.error = "kSuccess",
         Found(s.value, Q, r)
  PROVE  Found(table, R \cup Q, r)
<1>1. ToSet(s.value) \cup Q = ToSet(table) \cup (R \cup Q)
  BY DEF Found
<1> QED
  BY <1>1 DEF Found

-----------------------------------------------------------------------------
Fresh(p, R)  == IsInjective(p.table) /\ ToSet(p.table) \cap R = {}
Todo(p)    == Rest(p.bus, p.device, p.function)
FindsAll(n)  == \A p \in Near(n) : Fresh(p, Todo(p)) => Found(p.table, Todo(p), ScanFrom[p])

LEMMA FunctionFound ==
  ASSUME machine \in Machines, Numbered, NEW n \in Nat, FindsAll(n),
         NEW p \in Near(n + 1), Finds(p), NEW g, g = <<p.bus, p.device, p.function>>,
         Fresh(p, {g} \cup More(g)), g \notin More(g),
         NEW r, r = ScanFunction(ScanFrom, p.table, p.bus, p.device, p.function)
  PROVE  Found(p.table, {g} \cup More(g), r)
<1>1. p \in Points
  BY DEF Near
<1>2. PICK b, d, f : b = p.bus /\ d = p.device /\ f = p.function
  OBVIOUS
<1>3. Located(b, d, f) /\ ReadVendorId(b, d, f) # NoVendor /\ p.table \in Tables
  BY <1>1, <1>2, StepWays, PointFacts DEF Finds
<1>4. PICK s : s = AddDevice(p.table, g)
  OBVIOUS
<1>5. g = <<b, d, f>> /\ IsInjective(p.table) /\ g \notin ToSet(p.table)
  BY <1>2 DEF Fresh
<1>6. Found(p.table, {g}, s)
  BY <1>3, <1>4, <1>5, FoundAdd
<1>7. /\ ReadClassCode(b, d, f) = machine.space[g][8]
      /\ ReadBusNumbers(b, d, f) = machine.space[g][24] /\ g \in DOMAIN machine.space
  BY <1>3, <1>5, PresentFacts
<1>8. (Bridge(ReadClassCode(b, d, f)) <=> g \in Bridges) /\ SecondaryBus(p) = Secondary(g)
  BY <1>2, <1>7 DEF Bridges, SecondaryBus, Secondary
<1> DEFINE q == Point(s.value, SecondaryBus(p), 0, 0)
<1>14. s = AddDevice(p.table, <<p.bus, p.device, p.function>>)
  BY <1>4
<1>9. /\ s.error # "kSuccess" => r = s
      /\ s.error = "kSuccess" =>
           IF Bridge(ReadClassCode(p.bus, p.device, p.function))
           THEN q \in Near(n) /\ r = ScanFrom[q]
           ELSE r = s
  BY <1>14, FunctionGoes, Zenon
<1>10. q.table = s.value /\ Todo(q) = Beyond(Secondary(g))
  <2>1. q.table = s.value /\ q.bus = Secondary(g) /\ q.device = 0 /\ q.function = 0
    BY <1>8 DEF Point
  <2> HIDE DEF q
  <2> QED
    BY <2>1, RestOfBus DEF Todo
<1> HIDE DEF q
<1>11. CASE s.error # "kSuccess"
  BY <1>6, <1>9, <1>11, FoundNot
<1>12. CASE s.error = "kSuccess" /\ g \in Bridges
  <2>1. q \in Near(n) /\ r = ScanFrom[q] /\ Todo(q) = More(g)
    BY <1>2, <1>8, <1>9, <1>10, <1>12 DEF More
  <2>2. Fresh(q, More(g))
    BY <1>6, <1>10, <1>12 DEF Fresh, Found
  <2>3. Found(s.value, More(g), r)
    BY <1>10, <2>1, <2>2 DEF FindsAll
  <2> QED
    BY <1>6, <1>12, <2>3, FoundThen
<1>13. CASE s.error = "kSuccess" /\ g \notin Bridges
  <2>1. r = s /\ {g} \cup More(g) = {g}
    BY <1>2, <1>8, <1>9, <1>13 DEF More
  <2> QED
    BY <1>6, <2>1
<1> QED
  BY <1>11, <1>12, <1>13

LEMMA FoundFurther ==
  ASSUME machine \in Machines, Numbered, NEW n \in Nat, FindsAll(n)
  PROVE  FindsAll(n + 1)
<1> SUFFICES ASSUME NEW p \in Near(n + 1), Fresh(p, Todo(p))
             PROVE  Found(p.table, Todo(p), ScanFrom[p])
  BY DEF FindsAll
<1>1. p \in Points
  BY DEF Near
<1>2. PICK r : r = ScanFrom[p] /\ r = ScanStep(ScanFrom, p)
  BY <1>1, FromTypes
<1>3. Grows(ScanFrom, n)
  BY FromGrows
<1>4. ASSUME NEW q \in Near(n), q.table = p.table, Todo(q) = Todo(p), r = ScanFrom[q]
      PROVE  Found(p.table, Todo(p), r)
  <2>1. Fresh(q, Todo(q))
    BY <1>4 DEF Fresh
  <2> QED
    BY <1>4, <2>1 DEF FindsAll
<1>5. CASE Ends(p)
  <2>1. Todo(p) = {}
    BY <1>1, <1>5, OwnEnds DEF Todo, Rest
  <2>2. r = [value |-> p.table, error |-> "kSuccess"]
    BY <1>1, <1>2, <1>5, StepWays DEF WithError
  <2> QED
    BY <1>2, <2>1, <2>2 DEF Found, Fresh
<1>6. CASE Leaves(p)
  <2>1. PICK q : q = Point(p.table, p.bus, p.device + 1, 0)
    OBVIOUS
  <2>2. q.table = p.table /\ q.bus = p.bus /\ q.device = p.device + 1 /\ q.function = 0
    BY <2>1 DEF Point
  <2>3. q \in Near(n)
    BY <1>6, <2>1, NextPoints DEF Leaves
  <2>4. Todo(q) = Todo(p)
    BY <1>1, <1>6, <2>2, OwnLeaves DEF Todo, Rest
  <2>5. r = ScanFrom[q]
    BY <1>1, <1>2, <1>6, <2>1, StepWays
  <2> QED
    BY <1>2, <1>4, <2>2, <2>3, <2>4, <2>5
<1>7. CASE Passes(p)
  <2>1. PICK q : q = Point(p.table, p.bus, p.device, p.function + 1)
    OBVIOUS
  <2>2. q.table = p.table /\ q.bus = p.bus /\ q.device = p.device /\ q.function = p.function + 1
    BY <2>1 DEF Point
  <2>3. p.function < 8 /\ r = ScanFrom[q]
    BY <1>1, <1>2, <1>7, <2>1, StepWays
  <2>4. q \in Near(n)
    BY <2>1, <2>3, NextPoints
  <2>5. Todo(q) = Todo(p)
    BY <1>1, <1>7, <2>2, OwnPasses DEF Todo, Rest
  <2> QED
    BY <1>2, <1>4, <2>2, <2>3, <2>4, <2>5
<1>8. CASE Finds(p)
  <2>1. PICK s : s = ScanFunction(ScanFrom, p.table, p.bus, p.device, p.function)
    OBVIOUS
  <2>2. PICK q : q = Point(s.value, p.bus, p.device, p.function + 1)
    OBVIOUS
  <2>3. PICK g, rest : /\ g = <<p.bus, p.device, p.function>>
                       /\ rest = Rest(p.bus, p.device, p.function + 1)
    OBVIOUS
  <2>4. r = IF s.error # "kSuccess" THEN s ELSE ScanFrom[q]
    BY <1>1, <1>2, <1>8, <2>1, <2>2, StepWays
  <2>5. /\ Todo(p) = ({g} \cup More(g)) \cup rest /\ g \notin More(g)
        /\ ({g} \cup More(g)) \cap rest = {}
    BY <1>1, <1>8, <2>3, RestFinds DEF Todo
  <2>6. Fresh(p, {g} \cup More(g))
    BY <2>5 DEF Fresh
  <2>7. Found(p.table, {g} \cup More(g), s)
    BY <1>8, <2>1, <2>3, <2>5, <2>6, FunctionFound
  <2>8. CASE s.error # "kSuccess"
    <3>1. PICK R : R = {g} \cup More(g)
      OBVIOUS
    <3>2. Found(p.table, R \cup rest, s)
      BY <2>7, <2>8, <3>1, FoundNot
    <3> QED
      BY <1>2, <2>4, <2>5, <2>8, <3>1, <3>2
  <2>9. CASE s.error = "kSuccess"
    <3>1. q \in Near(n)
      BY <1>3, <1>8, <2>1, <2>2, <2>9, FunctionGrows
    <3>2. q.table = s.value /\ Todo(q) = rest
      BY <2>2, <2>3 DEF Point, Todo
    <3>3. Fresh(q, rest)
      BY <2>5, <2>7, <2>9, <3>2 DEF Fresh, Found
    <3>4. Found(s.value, rest, ScanFrom[q])
      BY <3>1, <3>2, <3>3 DEF FindsAll
    <3>5. r = ScanFrom[q]
      BY <2>4, <2>9
    <3> QED
      <4>1. PICK R : R = {g} \cup More(g)
        OBVIOUS
      <4>2. Found(p.table, R \cup rest, r)
        BY <2>7, <2>9, <3>4, <3>5, <4>1, FoundThen
      <4> QED
        BY <1>2, <2>5, <4>1, <4>2
  <2> QED
    BY <2>8, <2>9
<1> QED
  BY <1>1, <1>5, <1>6, <1>7, <1>8, StepWays

LEMMA FindsEverything ==
  ASSUME machine \in Machines, Numbered
  PROVE  \A n \in Nat : FindsAll(n)
<1> DEFINE S == {n \in Nat : FindsAll(n)}
<1>1. 0 \in S
  <2>1. ASSUME NEW p \in Near(0) PROVE FALSE
    BY PointFacts DEF Near
  <2> QED
    BY <2>1 DEF FindsAll
<1>2. ASSUME NEW n \in Nat, n \in S PROVE n + 1 \in S
  BY <1>2, FoundFurther
<1> HIDE DEF S
<1>3. \A n \in Nat : n \in S
  BY <1>1, <1>2, Induction
<1> QED
  BY <1>3 DEF S

LEMMA BusFound ==
  ASSUME machine \in Machines, Numbered, NEW table \in Tables, NEW b \in 0..255,
         IsInjective(table), ToSet(table) \cap Beyond(b) = {}
  PROVE  Found(table, Beyond(b), ScanBus(table, b))
<1>1. PICK p : p = Point(table, b, 0, 0)
  OBVIOUS
<1>2. p \in Points
  BY <1>1, BusPoint
<1>3. p.table = table /\ p.bus = b /\ p.device = 0 /\ p.function = 0
  BY <1>1 DEF Point
<1>4. Todo(p) = Beyond(b)
  BY <1>3, RestOfBus DEF Todo
<1>5. Furthest \in Nat /\ p \in Near(Furthest)
  BY <1>2, WithinFurthest DEF Near, Furthest, TableSize
<1>6. FindsAll(Furthest)
  BY <1>5, FindsEverything
<1>7. Found(table, Beyond(b), ScanFrom[p])
  BY <1>3, <1>4, <1>5, <1>6 DEF FindsAll, Fresh
<1> QED
  BY <1>1, <1>7 DEF ScanBus

-----------------------------------------------------------------------------
(* The scan goes from root to root.                                        *)
LEMMA ReachableRoots == Reachable = UNION {Beyond(r) : r \in Roots}
<1>1. Below(Roots) = UNION {Below({r}) : r \in Roots}
  BY BelowUnion
<1>2. ASSUME NEW h \in Reachable PROVE h \in UNION {Beyond(r) : r \in Roots}
  <2>1. PICK b \in Below(Roots) : h \in Functions(b)
    BY DEF Reachable
  <2>2. PICK r \in Roots : b \in Below({r})
    BY <1>1
  <2> QED
    BY <2>1, <2>2 DEF Beyond
<1>3. ASSUME NEW r \in Roots, NEW h \in Beyond(r) PROVE h \in Reachable
  <2>1. PICK b \in Below({r}) : h \in Functions(b)
    BY DEF Beyond
  <2>2. b \in Below(Roots)
    BY <1>1
  <2> QED
    BY <2>1, <2>2 DEF Reachable
<1> QED
  BY <1>2, <1>3

LEMMA StartFound == IsInjective(<<>>) /\ ToSet(<<>>) = {} /\ Found(<<>>, {}, Start)
<1>1. PICK t : t = <<>>
  OBVIOUS
<1>2. DOMAIN t = {}
  BY <1>1
<1>3. IsInjective(t) /\ ToSet(t) = {}
  BY <1>2 DEF IsInjective, ToSet
<1>4. Start.value = t /\ Start.error = "kSuccess"
  BY <1>1 DEF Start, WithError
<1> QED
  BY <1>1, <1>3, <1>4 DEF Found

LEMMA RootFacts ==
  ASSUME machine \in Machines, MultiFunction, NEW n \in Nat, n < 8
  PROVE  ReadVendorId(0, 0, n) # NoVendor <=> n \in Roots
<1>1. PICK o \in Nat : o = 0
  OBVIOUS
<1>2. Located(o, o, n)
  BY <1>1 DEF Located
<1>3. ReadVendorId(o, o, n) # NoVendor <=> <<o, o, n>> \in DOMAIN machine.space
  BY <1>2, PresentFacts
<1>4. ASSUME <<o, o, n>> \in DOMAIN machine.space PROVE n \in Roots
  <2>1. PICK g : g = <<o, o, n>>
    OBVIOUS
  <2>2. g \in Functions(0) /\ g[2] = 0 /\ g[3] = n
    BY <1>1, <1>4, <2>1 DEF Functions
  <2> QED
    BY <2>2 DEF Roots
<1>5. ASSUME n \in Roots PROVE <<o, o, n>> \in DOMAIN machine.space
  <2>1. PICK g \in Functions(0) : g[2] = 0 /\ g[3] = n
    BY <1>5 DEF Roots
  <2>2. g \in DOMAIN machine.space /\ g = <<0, g[2], g[3]>>
    BY FunctionFacts
  <2> QED
    BY <1>1, <2>1, <2>2
<1> QED
  BY <1>1, <1>3, <1>4, <1>5

LEMMA RootsBounded ==
  ASSUME machine \in Machines, NEW r \in Roots
  PROVE  r \in Nat /\ r < 8
<1>1. CASE MultiFunction
  <2>1. PICK g \in Functions(0) : g[3] = r
    BY <1>1 DEF Roots
  <2> QED
    BY <2>1, FunctionFacts
<1>2. CASE ~MultiFunction
  BY <1>2 DEF Roots
<1> QED
  BY <1>1, <1>2

Upto(n) == UNION {Beyond(r) : r \in {k \in Roots : k < n}}

LEMMA RootsFound ==
  ASSUME machine \in Machines, Numbered, MultiFunction
  PROVE  \A n \in Nat : n <= 8 => Found(<<>>, Upto(n), ScanRoots[n])
<1> DEFINE S == {n \in Nat : n <= 8 => Found(<<>>, Upto(n), ScanRoots[n])}
<1>0. \A r \in Roots : r \in Nat
  BY RootsBounded
<1>1. 0 \in S
  <2>1. {k \in Roots : k < 0} = {}
    BY <1>0
  <2>2. Upto(0) = {}
    BY <2>1 DEF Upto
  <2> QED
    BY <2>2, RootsFacts, StartFound
<1>2. ASSUME NEW n \in Nat, n \in S PROVE n + 1 \in S
  <2> SUFFICES ASSUME n + 1 <= 8 PROVE Found(<<>>, Upto(n + 1), ScanRoots[n + 1])
    OBVIOUS
  <2>1. n < 8 /\ n <= 8
    OBVIOUS
  <2>2. PICK s, r, t : s = ScanRoots[n] /\ r = ScanRoots[n + 1] /\ t = <<>>
    OBVIOUS
  <2>3. s \in Results /\ s.value \in Tables /\ Found(t, Upto(n), s) /\ ToSet(t) = {}
    BY <1>2, <2>1, <2>2, RootsTypes, StartFound DEF Results
  <2>4. r = IF s.error # "kSuccess" \/ ReadVendorId(0, 0, n) = NoVendor THEN s ELSE ScanBus(s.value, n)
    BY <2>1, <2>2, RootsFacts DEF ScanRoot
  <2>5. {k \in Roots : k < n + 1} = {k \in Roots : k < n} \cup (Roots \cap {n})
    BY <1>0
  <2>6. Upto(n + 1) = Upto(n) \cup (IF n \in Roots THEN Beyond(n) ELSE {})
    BY <2>5 DEF Upto
  <2>7. CASE s.error # "kSuccess"
    <3>1. PICK Q : Q = IF n \in Roots THEN Beyond(n) ELSE {}
      OBVIOUS
    <3>2. Found(t, Upto(n) \cup Q, s)
      BY <2>3, <2>7, FoundNot
    <3> QED
      BY <2>2, <2>4, <2>6, <2>7, <3>1, <3>2
  <2>8. CASE s.error = "kSuccess" /\ n \notin Roots
    <3>1. ReadVendorId(0, 0, n) = NoVendor
      BY <2>1, <2>8, RootFacts
    <3>2. Upto(n + 1) = Upto(n)
      BY <2>6, <2>8
    <3> QED
      BY <2>2, <2>3, <2>4, <3>1, <3>2
  <2>9. CASE s.error = "kSuccess" /\ n \in Roots
    <3>1. r = ScanBus(s.value, n)
      BY <2>1, <2>4, <2>9, RootFacts
    <3>2. IsInjective(s.value) /\ ToSet(s.value) = Upto(n)
      BY <2>3, <2>9 DEF Found
    <3>3. Upto(n) \cap Beyond(n) = {}
      <4>1. ASSUME NEW k \in Roots, k < n PROVE Beyond(k) \cap Beyond(n) = {}
        <5>1. k # n
          BY <4>1
        <5> QED
          BY <2>9, <5>1, RootsApart, BeyondApart
      <4> QED
        BY <4>1 DEF Upto
    <3>4. n \in 0..255
      BY <2>1
    <3>5. Found(s.value, Beyond(n), ScanBus(s.value, n))
      BY <2>3, <3>2, <3>3, <3>4, BusFound
    <3>6. Found(t, Upto(n) \cup Beyond(n), r)
      BY <2>3, <2>9, <3>1, <3>5, FoundThen
    <3> QED
      BY <2>2, <2>6, <2>9, <3>6
  <2> QED
    BY <2>7, <2>8, <2>9
<1> HIDE DEF S
<1>3. \A n \in Nat : n \in S
  BY <1>1, <1>2, Induction
<1> QED
  BY <1>3 DEF S

LEMMA ScanFound ==
  ASSUME machine \in Machines, Numbered
  PROVE  Found(<<>>, Reachable, ScanAllBus)
<1>1. PICK o : o = 0
  OBVIOUS
<1>2. PICK h : h = ReadHeaderType(0, 0, 0)
  OBVIOUS
<1>3. h = machine.space[<<0, 0, 0>>][12] /\ h \in 0..255
  <2>1. <<o, o, o>> \in DOMAIN machine.space
    BY <1>1, PciAssumption
  <2>2. Located(o, o, o)
    BY <1>1 DEF Located
  <2>3. h = machine.space[<<o, o, o>>][12]
    BY <1>1, <1>2, <2>1, <2>2, PresentFacts
  <2>4. machine.space[<<o, o, o>>][12] \in 0..255
    BY <2>1, PciAssumption
  <2> QED
    BY <1>1, <2>3, <2>4
<1>4. IsSingleFunctionDevice(h) <=> ~MultiFunction
  <2>1. h \in Nat /\ h <= 255
    BY <1>3
  <2>2. IF h < 128 THEN h \div 128 = 0 ELSE h \div 128 = 1
    BY <2>1
  <2>3. (h \div 128) % 2 = 0 <=> ~(h >= 128)
    BY <2>1, <2>2
  <2> QED
    BY <1>3, <2>3 DEF IsSingleFunctionDevice, MultiFunction
<1>5. CASE MultiFunction
  <2>1. ScanAllBus = ScanRoots[8]
    BY <1>2, <1>4, <1>5 DEF ScanAllBus
  <2>2. {k \in Roots : k < 8} = Roots
    BY RootsBounded
  <2>3. Reachable = Upto(8)
    BY <2>2, ReachableRoots DEF Upto
  <2>4. Found(<<>>, Upto(8), ScanRoots[8])
    BY <1>5, RootsFound
  <2> QED
    BY <2>1, <2>3, <2>4
<1>6. CASE ~MultiFunction
  <2>1. ScanAllBus = ScanBus(<<>>, 0)
    BY <1>2, <1>4, <1>6 DEF ScanAllBus
  <2>2. Reachable = Beyond(0)
    BY <1>6, ReachableRoots DEF Roots
  <2>3. ToSet(<<>>) \cap Beyond(0) = {} /\ IsInjective(<<>>) /\ <<>> \in Tables
    BY StartFacts, StartFound
  <2>4. PICK t, b : t = <<>> /\ b = 0
    OBVIOUS
  <2>5. t \in Tables /\ b \in 0..255 /\ IsInjective(t) /\ ToSet(t) \cap Beyond(b) = {}
    BY <2>3, <2>4
  <2>6. Found(t, Beyond(b), ScanBus(t, b))
    BY <2>5, BusFound
  <2> QED
    BY <2>1, <2>2, <2>4, <2>6
<1> QED
  BY <1>5, <1>6

-----------------------------------------------------------------------------
LEMMA SpaceFinite ==
  ASSUME machine \in Machines
  PROVE  IsFiniteSet(DOMAIN machine.space)
<1>1. PICK top \in Nat : top = 65535
  OBVIOUS
<1>2. ASSUME NEW g \in DOMAIN machine.space
      PROVE  /\ Located(g[1], g[2], g[3]) /\ g = <<g[1], g[2], g[3]>>
             /\ Number(g[1], g[2], g[3]) \in 0..top
  <2>1. g \in Functions(g[1])
    BY DEF Functions
  <2>2. Located(g[1], g[2], g[3]) /\ g = <<g[1], g[2], g[3]>>
    BY <2>1, FunctionFacts
  <2>3. PICK b, d, f : b = g[1] /\ d = g[2] /\ f = g[3]
    OBVIOUS
  <2>4. b \in Nat /\ b <= 255 /\ d \in Nat /\ d <= 31 /\ f \in Nat /\ f <= 7
    BY <2>2, <2>3 DEF Located
  <2>5. PICK n \in Nat : n = b * 32 + d /\ n <= 8191
    BY <2>4
  <2>6. Number(b, d, f) = n * 8 + f
    BY <2>5 DEF Number
  <2>8. n * 8 + f \in Nat /\ n * 8 + f <= top
    BY <1>1, <2>4, <2>5
  <2>7. Number(b, d, f) \in 0..top
    BY <2>6, <2>8
  <2> QED
    BY <2>2, <2>3, <2>7
<1>3. PICK number : number = [g \in DOMAIN machine.space |-> Number(g[1], g[2], g[3])]
  OBVIOUS
<1>4. ASSUME NEW g \in DOMAIN machine.space, NEW h \in DOMAIN machine.space, number[g] = number[h]
      PROVE  g = h
  <2>1. PICK m : m = Number(g[1], g[2], g[3]) /\ m = Number(h[1], h[2], h[3])
    BY <1>3, <1>4
  <2>2. ASSUME NEW k \in {g, h} PROVE k = <<m \div 256, (m \div 8) % 32, m % 8>>
    <3>1. PICK b, d, f : b = k[1] /\ d = k[2] /\ f = k[3]
      OBVIOUS
    <3>2. Located(b, d, f) /\ k = <<b, d, f>> /\ m = Number(b, d, f)
      BY <1>2, <2>1, <3>1
    <3>3. m \div 256 = b /\ (m \div 8) % 32 = d /\ m % 8 = f
      BY <3>2, NumberFacts
    <3> QED
      BY <3>2, <3>3
  <2> QED
    BY <2>2
<1>5. number \in Injection(DOMAIN machine.space, 0..top)
  <2>1. number \in [DOMAIN machine.space -> 0..top]
    BY <1>2, <1>3
  <2>2. IsInjective(number)
    BY <1>3, <1>4 DEF IsInjective
  <2> QED
    BY <2>1, <2>2 DEF Injection
<1>6. IsFiniteSet(0..top)
  <2>1. 0 \in Int /\ top \in Int
    OBVIOUS
  <2> QED
    BY <2>1, FS_Interval
<1> QED
  BY <1>5, <1>6, FS_Injection

LEMMA ListCardinality ==
  ASSUME NEW T, NEW t \in Seq(T), IsInjective(t)
  PROVE  IsFiniteSet(ToSet(t)) /\ Cardinality(ToSet(t)) = Len(t)
<1>1. PICK n \in Nat : n = Len(t)
  OBVIOUS
<1>2. DOMAIN t = 1..n /\ t = [i \in 1..n |-> t[i]]
  BY <1>1
<1>3. t \in [1..n -> ToSet(t)] /\ \A x \in ToSet(t) : \E i \in 1..n : t[i] = x
  BY <1>2 DEF ToSet
<1>4. t \in Surjection(1..n, ToSet(t)) /\ t \in Injection(1..n, ToSet(t))
  BY <1>3 DEF Surjection, Injection
<1>5. IsFiniteSet(1..n) /\ Cardinality(1..n) = n
  BY FS_Interval
<1> QED
  BY <1>1, <1>4, <1>5, FS_Surjection

Complete(r) ==
  IF Cardinality(Reachable) <= TableSize
  THEN r.error = "kSuccess" /\ ToSet(r.value) = Reachable /\ Len(r.value) = Cardinality(Reachable)
  ELSE r.error = "kFull" /\ ToSet(r.value) \subseteq Reachable /\ IsInjective(r.value)

LEMMA ScanComplete ==
  ASSUME machine \in Machines, Numbered
  PROVE  Complete(ScanAllBus)
<1>1. PICK r : r = ScanAllBus
  OBVIOUS
<1>2. PICK t : t = <<>> /\ ToSet(t) = {}
  BY StartFound
<1>3. r \in Results /\ Found(t, Reachable, r)
  BY <1>1, <1>2, ScanTypes, ScanFound
<1>4. PICK list, n : list = r.value /\ n = Len(list)
  OBVIOUS
<1>5. list \in Tables /\ r.error \in {"kSuccess", "kFull"} /\ n \in Nat /\ n <= TableSize
  BY <1>3, <1>4, TableFacts DEF Results
<1>6. IsFiniteSet(ToSet(list)) /\ Cardinality(ToSet(list)) = n
  <2>1. IsInjective(list)
    BY <1>3, <1>4 DEF Found
  <2> QED
    BY <1>4, <1>5, <2>1, TableFacts, ListCardinality
<1>7. IsFiniteSet(Reachable)
  <2>1. Reachable \subseteq DOMAIN machine.space
    BY DEF Reachable, Functions
  <2> QED
    BY <2>1, SpaceFinite, FS_Subset
<1>8. Cardinality(Reachable) \in Nat
  BY <1>7, FS_CardinalityType
<1>9. CASE r.error = "kSuccess"
  <2>1. ToSet(list) = Reachable
    BY <1>2, <1>3, <1>4, <1>9 DEF Found
  <2> QED
    BY <1>1, <1>4, <1>5, <1>6, <1>9, <2>1 DEF Complete
<1>10. CASE r.error # "kSuccess"
  <2>1. /\ n = TableSize /\ IsInjective(list)
        /\ ToSet(list) \subseteq Reachable /\ ToSet(list) # Reachable
    BY <1>2, <1>3, <1>4, <1>10 DEF Found
  <2>2. n <= Cardinality(Reachable) /\ n # Cardinality(Reachable)
    BY <1>6, <1>7, <2>1, FS_Subset
  <2>3. ~(Cardinality(Reachable) <= TableSize)
    BY <1>5, <1>8, <2>1, <2>2
  <2> QED
    BY <1>1, <1>4, <1>5, <1>10, <2>1, <2>3 DEF Complete
<1> QED
  BY <1>9, <1>10

-----------------------------------------------------------------------------
(* The first of some numbers and the last: the loop of KernelMain stops at *)
(* one or at the other.                                                    *)
LEMMA HighestMember ==
  ASSUME NEW n \in Nat, NEW S \in SUBSET (1..n), S # {}
  PROVE  \E x \in S : \A y \in S : y <= x
<1> DEFINE T == {k \in Nat : n - k \in S}
<1>1. T # {}
  <2>1. PICK x \in S : x \in 1..n
    OBVIOUS
  <2>2. n - x \in Nat /\ n - (n - x) = x
    BY <2>1
  <2>3. n - x \in T
    BY <2>1, <2>2
  <2> QED
    BY <2>3
<1>2. PICK k \in T : \A l \in T : k <= l
  <2> HIDE DEF T
  <2>1. T \in SUBSET Nat
    BY DEF T
  <2> QED
    BY <1>1, <2>1, LowestMember
<1>3. ASSUME NEW y \in S PROVE y <= n - k
  <2>1. PICK l \in Nat : l = n - y /\ n - l = y
    OBVIOUS
  <2>2. l \in T
    BY <2>1
  <2>3. k <= l /\ k \in Nat
    BY <1>2, <2>2
  <2> QED
    BY <2>1, <2>3
<1> QED
  BY <1>2, <1>3

LEMMA PreferredFacts ==
  ASSUME NEW n \in Nat, NEW matches \in SUBSET (1..n), matches # {},
         NEW i, i = Preferred(matches)
  PROVE  i \in matches /\ ((\E j \in matches : IsIntel(Table[j])) => IsIntel(Table[i]))
<1> DEFINE Best(k) ==
      IF \E j \in matches : IsIntel(Table[j])
      THEN IsIntel(Table[k]) /\ \A j \in matches : IsIntel(Table[j]) => k <= j
      ELSE \A j \in matches : j <= k
<1>1. \E k \in matches : Best(k)
  <2>1. CASE \E j \in matches : IsIntel(Table[j])
    <3>1. PICK S : S = {j \in matches : IsIntel(Table[j])}
      OBVIOUS
    <3>2. S \subseteq matches /\ S # {}
      BY <2>1, <3>1, Zenon
    <3>4. S \in SUBSET Nat
      BY <3>2
    <3>3. PICK k \in S : \A j \in S : k <= j
      BY <3>2, <3>4, LowestMember
    <3> QED
      BY <2>1, <3>1, <3>3, Zenon
  <2>2. CASE ~\E j \in matches : IsIntel(Table[j])
    <3>1. PICK k \in matches : \A j \in matches : j <= k
      BY HighestMember
    <3> QED
      BY <2>2, <3>1
  <2> QED
    BY <2>1, <2>2
<1>2. i = CHOOSE k \in matches : Best(k)
  BY DEF Preferred
<1>3. i \in matches /\ Best(i)
  <2> HIDE DEF Best
  <2> QED
    BY <1>1, <1>2
<1> QED
  BY <1>3

-----------------------------------------------------------------------------
(* The types; what keeps buffers within the scratchpad buffers there are   *)
(* is that it is counted from 0 up, and xhc is not set before there is a   *)
(* table to point into.                                                    *)
TableInv ==
  /\ scanned \in Results /\ xhc \in 0..Len(Table)
  /\ pc \in {"Scan", "Find"} => xhc = 0

BuffersInv ==
  /\ buffers \in 0..machine.scratchpads
  /\ pc = "Buffers" => buffers < machine.scratchpads
  /\ pc \in Before \cup {"WaitHalt", "Reset", "WaitReset", "WaitReady", "Slots",
                         "Scratchpads"} => buffers = 0

CostInv ==
  /\ command \subseteq {"IO", "MEMORY", "MASTER"} /\ routed \in BOOLEAN
  /\ known \in [1..3 -> 0..MaxDevices]
  /\ programmed \subseteq Needed

(* The table holds what the scan is to find, and KernelMain what it is to  *)
(* look for in it.                                                         *)
Xhcs == {i \in DOMAIN Table : IsClass(Table[i], XhciClass)}

ChosenInv ==
  /\ xhc = 0 <=> Xhcs = {}
  /\ xhc # 0 => xhc \in Xhcs
  /\ (\E i \in Xhcs : IsIntel(Table[i])) => IsIntel(Table[xhc])

FoundInv ==
  /\ pc # "Scan" /\ Numbered => Complete(scanned)
  /\ pc \notin {"Scan", "Find"} => ChosenInv

ScanInv == TableInv /\ BuffersInv /\ CostInv /\ FoundInv

(* By the time the driver starts KernelMain has found the registers,       *)
(* enabled the controller on the bus and routed the ports to it.           *)
Driving == Initializing \cup Running

IsEhci(f) == IsClass(f, EhciClass) /\ IsIntel(f)

RoutedInv ==
  Numbered /\ Cardinality(Reachable) <= TableSize =>
    (routed <=> IsIntel(Table[xhc]) /\ \E f \in Reachable : IsEhci(f))

EnabledInv ==
  /\ pc \in {"Command", "Switch"} \cup Driving => mmio = RegistersAt(Table[xhc])
  /\ pc \in {"Switch"} \cup Driving => {"MEMORY", "MASTER"} \subseteq command
  /\ pc \in Driving => RoutedInv

LEMMA TableLength ==
  ASSUME scanned \in Results
  PROVE  Len(Table) \in Nat /\ DOMAIN Table = 1..Len(Table) /\ Len(Table) <= TableSize
<1>1. Table \in Tables
  BY DEF Table, Results
<1> QED
  BY <1>1, TableFacts

LEMMA InitScanInv == InitKernel => ScanInv
<1> SUFFICES ASSUME InitKernel PROVE ScanInv
  OBVIOUS
<1>1. /\ scanned = Start /\ machine \in Machines /\ pc = "Scan" /\ xhc = 0 /\ command = {}
      /\ routed = FALSE /\ known = [handler \in 1..3 |-> 0] /\ buffers = 0 /\ programmed = {}
  <2>1. InitController /\ scanned = Start /\ machine \in Machines /\ pc = "Scan"
    BY DEF InitKernel, Start
  <2>2. xhc = 0 /\ command = {} /\ routed = FALSE /\ known = [handler \in 1..3 |-> 0]
    BY DEF InitKernel
  <2>3. buffers = 0 /\ programmed = {}
    BY <2>1 DEF InitController
  <2> QED
    BY <2>1, <2>2, <2>3
<1>2. scanned \in Results
  BY <1>1, StartFacts
<1>3. Len(Table) \in Nat
  BY <1>2, TableLength
<1>4. machine.scratchpads \in Nat /\ MaxDevices \in Nat
  BY <1>1, MachinesAssumption
<1>5. TableInv
  BY <1>1, <1>2, <1>3 DEF TableInv
<1>6. BuffersInv
  BY <1>1, <1>4 DEF BuffersInv
<1>7. CostInv
  <2>1. \A handler \in 1..3 : 0 \in 0..MaxDevices
    BY <1>4
  <2> QED
    BY <1>1, <2>1 DEF CostInv
<1> QED
  BY <1>1, <1>5, <1>6, <1>7 DEF FoundInv, ScanInv

(* Nothing of this depends on more than the machine.                       *)
LEMMA SameMachine ==
  ASSUME machine' = machine
  PROVE  /\ Reachable' = Reachable /\ (Numbered' <=> Numbered)
         /\ \A d, class : IsClass(d, class)' <=> IsClass(d, class)
         /\ \A d : IsIntel(d)' <=> IsIntel(d)
         /\ \A d : RegistersAt(d)' = RegistersAt(d)
<1>1. Bridges' = Bridges
  BY DEF Bridges
<1>2. \A f : Secondary(f)' = Secondary(f)
  BY DEF Secondary
<1>3. \A b : Functions(b)' = Functions(b)
  BY DEF Functions
<1>4. Roots' = Roots
  <2>1. MultiFunction' <=> MultiFunction
    BY DEF MultiFunction
  <2> QED
    BY <1>3, <2>1 DEF Roots
<1>5. \A S : Closed(S)' <=> Closed(S)
  BY <1>1, <1>2 DEF Closed
<1>6. \A R : Below(R)' = Below(R)
  BY <1>1, <1>2, <1>5 DEF Below
<1>7. Reachable' = Reachable
  BY <1>3, <1>4, <1>6 DEF Reachable
<1>8. Numbered' <=> Numbered
  BY <1>1, <1>2, <1>4 DEF Numbered
<1>9. \A d, class : IsClass(d, class)' <=> IsClass(d, class)
  BY DEF IsClass, ConfigSpace
<1>10. \A d : IsIntel(d)' <=> IsIntel(d)
  BY DEF IsIntel, ConfigSpace
<1>11. \A d : RegistersAt(d)' = RegistersAt(d)
  BY DEF RegistersAt
<1> QED
  BY <1>7, <1>8, <1>9, <1>10, <1>11

LEMMA ScanKeeps ==
  ASSUME IInv, ScanInv, Scan
  PROVE  TableInv' /\ FoundInv'
<1>1. machine \in Machines /\ xhc = 0
  BY DEF IInv, MemoryInv, ScanInv, TableInv, Scan
<1>2. scanned' = ScanAllBus /\ pc' = "Find" /\ machine' = machine /\ xhc' = xhc
  BY DEF Scan
<1>3. PICK r : r = ScanAllBus
  OBVIOUS
<1>4. r \in Results /\ (Numbered => Complete(r))
  BY <1>1, <1>3, ScanTypes, ScanComplete
<1>5. TableInv'
  <2>1. Len(r.value) \in Nat
    BY <1>4, TableFacts DEF Results
  <2> QED
    BY <1>1, <1>2, <1>3, <1>4, <2>1 DEF TableInv, Table
<1>6. Reachable' = Reachable /\ (Numbered' <=> Numbered)
  BY <1>2, SameMachine
<1>7. Complete(scanned)' <=> Complete(r)
  BY <1>2, <1>3, <1>6 DEF Complete
<1>8. FoundInv'
  BY <1>2, <1>4, <1>6, <1>7 DEF FoundInv
<1> QED
  BY <1>5, <1>8

LEMMA FindKeeps ==
  ASSUME IInv, ScanInv, FindXhc
  PROVE  TableInv' /\ FoundInv'
<1>1. TableInv /\ FoundInv /\ scanned \in Results
  BY DEF ScanInv, TableInv
<1>2. /\ pc = "Find" /\ pc' = "ReadBar" /\ scanned' = scanned /\ machine' = machine
      /\ xhc' = IF Xhcs = {} THEN 0 ELSE Preferred(Xhcs)
  BY DEF FindXhc, Xhcs
<1>3. PICK n \in Nat : n = Len(Table) /\ DOMAIN Table = 1..n
  BY <1>1, TableLength
<1>4. Xhcs \in SUBSET (1..n)
  BY <1>3 DEF Xhcs
<1>5. /\ xhc' \in 0..n
      /\ xhc' = 0 <=> Xhcs = {}
      /\ xhc' # 0 => xhc' \in Xhcs
      /\ (\E i \in Xhcs : IsIntel(Table[i])) => IsIntel(Table[xhc'])
  <2>1. CASE Xhcs = {}
    BY <1>2, <2>1
  <2>2. CASE Xhcs # {}
    <3>1. PICK i : i = Preferred(Xhcs)
      OBVIOUS
    <3>2. i \in Xhcs /\ ((\E j \in Xhcs : IsIntel(Table[j])) => IsIntel(Table[i]))
      BY <1>4, <2>2, <3>1, PreferredFacts
    <3>3. xhc' = i /\ i \in 1..n
      BY <1>2, <1>4, <2>2, <3>1, <3>2
    <3> QED
      BY <2>2, <3>2, <3>3
  <2> QED
    BY <2>1, <2>2
<1>6. /\ Table' = Table /\ Reachable' = Reachable /\ (Numbered' <=> Numbered)
      /\ \A d, class : IsClass(d, class)' <=> IsClass(d, class)
      /\ \A d : IsIntel(d)' <=> IsIntel(d)
  BY <1>2, SameMachine DEF Table
<1>7. Xhcs' = Xhcs
  BY <1>2, <1>6 DEF Xhcs, Table
<1>8. ChosenInv'
  BY <1>2, <1>5, <1>6, <1>7 DEF ChosenInv, Table
<1>9. TableInv'
  BY <1>1, <1>2, <1>3, <1>5 DEF TableInv, Table
<1>10. Complete(scanned)' <=> Complete(scanned)
  BY <1>2, <1>6 DEF Complete
<1>11. FoundInv'
  BY <1>1, <1>2, <1>6, <1>8, <1>10 DEF FoundInv
<1> QED
  BY <1>9, <1>11

LEMMA StaysFound ==
  ASSUME ScanInv, machine' = machine, scanned' = scanned, xhc' = xhc,
         pc' = pc \/ (pc \notin {"Scan", "Find"} /\ pc' \notin {"Scan", "Find"})
  PROVE  TableInv' /\ FoundInv'
<1>1. TableInv /\ FoundInv
  BY DEF ScanInv
<1>2. /\ Reachable' = Reachable /\ (Numbered' <=> Numbered) /\ Table' = Table
      /\ \A d, class : IsClass(d, class)' <=> IsClass(d, class)
      /\ \A d : IsIntel(d)' <=> IsIntel(d)
  BY SameMachine DEF Table
<1>3. Xhcs' = Xhcs
  BY <1>2 DEF Xhcs, Table
<1>4. TableInv'
  BY <1>1 DEF TableInv, Table
<1>5. Complete(scanned)' <=> Complete(scanned)
  BY <1>2 DEF Complete
<1>6. ChosenInv' <=> ChosenInv
  BY <1>2, <1>3 DEF ChosenInv, Table
<1>7. FoundInv'
  BY <1>1, <1>2, <1>5, <1>6 DEF FoundInv
<1> QED
  BY <1>4, <1>7

LEMMA OthersKeep ==
  ASSUME ScanInv, [Next]_vars, ~Scan, ~FindXhc
  PROVE  TableInv' /\ FoundInv'
<1> DEFINE Stays == /\ machine' = machine /\ scanned' = scanned /\ xhc' = xhc
                    /\ pc' = pc \/ (pc \notin {"Scan", "Find"} /\ pc' \notin {"Scan", "Find"})
<1> SUFFICES Stays
  BY StaysFound
<1>1. CASE UNCHANGED vars
  BY <1>1 DEF vars, initVars
<1>2. CASE LocateXhc
  BY <1>2 DEF LocateXhc
<1>3. CASE EnableOnBus \/ SwitchEhci2Xhci
  BY <1>3 DEF EnableOnBus, SwitchEhci2Xhci
<1>4. CASE InitializeController /\ UNCHANGED mainVars
  <2>1. scanned' = scanned /\ xhc' = xhc
    BY <1>4 DEF mainVars
  <2>2. CASE InitializeDeviceManager
    BY <2>1, <2>2 DEF InitializeDeviceManager, AllocatesOrReturns
  <2>3. CASE RequestHCOwnership \/ WaitForOwnership
    BY <2>1, <2>3 DEF RequestHCOwnership, WaitForOwnership
  <2>4. CASE Stop \/ WaitForHalt \/ StartReset \/ WaitForReset
    BY <2>1, <2>4 DEF Stop, WaitForHalt, StartReset, WaitForReset
  <2>5. CASE \/ SetMaxSlots \/ SetContexts \/ RegisterCommandRing
            \/ SetSegmentTable \/ EnableInterrupter
    BY <2>1, <2>5 DEF SetMaxSlots, SetContexts, RegisterCommandRing, SetSegmentTable,
                      EnableInterrupter, Writes
  <2>6. CASE AllocateScratchpadArray \/ AllocateScratchpadBuffer
    BY <2>1, <2>6 DEF AllocateScratchpadArray, AllocateScratchpadBuffer
  <2>7. CASE InitializeCommandRing \/ InitializeEventRing
    BY <2>1, <2>7 DEF InitializeCommandRing, InitializeEventRing, AllocatesOrReturns
  <2>8. CASE Run \/ WaitForRun
    BY <2>1, <2>8 DEF Run, WaitForRun
  <2> QED
    BY <1>4, <2>2, <2>3, <2>4, <2>5, <2>6, <2>7, <2>8 DEF InitializeController
<1>5. CASE Hardware /\ UNCHANGED mainVars
  BY <1>5 DEF Hardware, Answers, FirmwareLetsGo, FirmwareUses, Halts, Starts, Resets, GetsReady,
              mainVars
<1>6. CASE \E handler \in 1..3 : EnumerateDevice(handler)
  BY <1>6 DEF EnumerateDevice
<1> HIDE DEF Stays
<1> QED
  BY <1>1, <1>2, <1>3, <1>4, <1>5, <1>6 DEF Next, KernelMain, AfterScan

LEMMA BuffersKeep ==
  ASSUME IInv, BuffersInv, [Next]_vars
  PROVE  BuffersInv'
<1> USE DEF BuffersInv, Before, Early, Owning
<1>0. machine.scratchpads \in Nat
  <2>1. machine \in Machines
    BY DEF IInv, MemoryInv
  <2> QED
    BY <2>1, MachineFacts
<1>1. CASE UNCHANGED vars
  BY <1>1 DEF vars, initVars
<1>2. CASE Scan \/ FindXhc
  BY <1>2 DEF Scan, FindXhc
<1>3. CASE LocateXhc \/ EnableOnBus \/ SwitchEhci2Xhci
  BY <1>3 DEF LocateXhc, EnableOnBus, SwitchEhci2Xhci
<1>4. CASE InitializeController
  <2>2. CASE InitializeDeviceManager
    BY <2>2 DEF InitializeDeviceManager, AllocatesOrReturns
  <2>3. CASE RequestHCOwnership \/ WaitForOwnership
    BY <2>3 DEF RequestHCOwnership, WaitForOwnership
  <2>4. CASE Stop \/ WaitForHalt \/ StartReset \/ WaitForReset
    BY <2>4 DEF Stop, WaitForHalt, StartReset, WaitForReset
  <2>5. CASE \/ SetMaxSlots \/ SetContexts \/ RegisterCommandRing
            \/ SetSegmentTable \/ EnableInterrupter
    BY <2>5 DEF SetMaxSlots, SetContexts, RegisterCommandRing, SetSegmentTable,
                EnableInterrupter, Writes
  <2>6. CASE AllocateScratchpadArray \/ AllocateScratchpadBuffer
    BY <1>0, <2>6 DEF AllocateScratchpadArray, AllocateScratchpadBuffer
  <2>7. CASE InitializeCommandRing \/ InitializeEventRing
    BY <2>7 DEF InitializeCommandRing, InitializeEventRing, AllocatesOrReturns
  <2>8. CASE Run \/ WaitForRun
    BY <2>8 DEF Run, WaitForRun
  <2> QED
    BY <1>4, <2>2, <2>3, <2>4, <2>5, <2>6, <2>7, <2>8 DEF InitializeController
<1>5. CASE Hardware
  BY <1>5 DEF Hardware, Answers, FirmwareLetsGo, FirmwareUses, Halts, Starts, Resets, GetsReady
<1>6. CASE \E handler \in 1..3 : EnumerateDevice(handler)
  BY <1>6 DEF EnumerateDevice
<1> QED
  BY <1>1, <1>2, <1>3, <1>4, <1>5, <1>6 DEF Next, KernelMain, AfterScan

LEMMA CostKeep ==
  ASSUME CostInv, [Next]_vars
  PROVE  CostInv'
<1> USE DEF CostInv
<1>0. MaxDevices \in Nat
  BY MachinesAssumption
<1>1. CASE UNCHANGED vars
  BY <1>1 DEF vars, initVars, regs
<1>2. CASE Scan \/ FindXhc \/ LocateXhc
  BY <1>2 DEF Scan, FindXhc, LocateXhc, regs
<1>3. CASE EnableOnBus
  BY <1>3 DEF EnableOnBus, regs
<1>4. CASE SwitchEhci2Xhci
  <2>1. routed' \in BOOLEAN
    BY <1>4, Zenon DEF SwitchEhci2Xhci
  <2>2. UNCHANGED <<command, known, programmed>>
    BY <1>4 DEF SwitchEhci2Xhci, regs
  <2> QED
    BY <2>1, <2>2
<1>5. CASE InitializeController /\ UNCHANGED mainVars
  <2>1. UNCHANGED <<command, routed, known>>
    BY <1>5 DEF mainVars
  <2>2. CASE \/ SetMaxSlots \/ SetContexts \/ RegisterCommandRing
            \/ SetSegmentTable \/ EnableInterrupter
    BY <2>1, <2>2 DEF SetMaxSlots, SetContexts, RegisterCommandRing, SetSegmentTable,
                      EnableInterrupter, Writes, Needed
  <2>3. CASE InitializeDeviceManager \/ RequestHCOwnership \/ WaitForOwnership
    BY <2>1, <2>3 DEF InitializeDeviceManager, RequestHCOwnership, WaitForOwnership, regs
  <2>4. CASE Stop \/ WaitForHalt \/ StartReset \/ WaitForReset
    BY <2>1, <2>4 DEF Stop, WaitForHalt, StartReset, WaitForReset, regs
  <2>5. CASE AllocateScratchpadArray \/ AllocateScratchpadBuffer
    BY <2>1, <2>5 DEF AllocateScratchpadArray, AllocateScratchpadBuffer, regs
  <2>6. CASE InitializeCommandRing \/ InitializeEventRing
    BY <2>1, <2>6 DEF InitializeCommandRing, InitializeEventRing, regs
  <2>7. CASE Run \/ WaitForRun
    BY <2>1, <2>7 DEF Run, WaitForRun, regs
  <2> QED
    BY <1>5, <2>2, <2>3, <2>4, <2>5, <2>6, <2>7 DEF InitializeController
<1>6. CASE Hardware /\ UNCHANGED mainVars
  BY <1>6 DEF Hardware, Answers, FirmwareLetsGo, FirmwareUses, Halts, Starts, Resets, GetsReady,
              mainVars
<1>7. ASSUME NEW handler \in 1..3, EnumerateDevice(handler) PROVE CostInv'
  <2>1. /\ known' = [known EXCEPT ![handler] = known[handler] + 1]
        /\ known[handler] < (IF handler = 1 THEN MaxDevices ELSE known[handler - 1])
        /\ UNCHANGED <<command, routed, programmed>>
    BY <1>7 DEF EnumerateDevice, regs
  <2>2. known[handler] \in Nat /\ known[handler] < MaxDevices
    <3>1. CASE handler = 1
      BY <1>0, <2>1, <3>1
    <3>2. CASE handler # 1
      <4>1. handler - 1 \in 1..3
        BY <3>2
      <4> QED
        BY <1>0, <2>1, <3>2, <4>1
    <3> QED
      BY <3>1, <3>2
  <2>3. known' \in [1..3 -> 0..MaxDevices]
    BY <1>0, <2>1, <2>2
  <2> QED
    BY <2>1, <2>3
<1> QED
  BY <1>1, <1>2, <1>3, <1>4, <1>5, <1>6, <1>7 DEF Next, KernelMain, AfterScan

(* The base address register of a function, read by ReadBar                *)
LEMMA BarFacts ==
  ASSUME machine \in Machines, NEW b, NEW d, NEW f, Located(b, d, f),
         <<b, d, f>> \in DOMAIN machine.space, NEW bar, bar = ReadBar(b, d, f, 0).value
  PROVE  <<bar[1], bar[2] - (bar[2] % 16)>> = RegistersAt(<<b, d, f>>)
<1>1. PICK low : low = machine.space[<<b, d, f>>][16]
  OBVIOUS
<1>2. PICK high : high = machine.space[<<b, d, f>>][20]
  OBVIOUS
<1>3. ReadConfig(b, d, f, 16) = low /\ ReadConfig(b, d, f, 20) = high
  <2>1. 16 \in Registers /\ 20 \in Registers
    BY DEF Registers
  <2> QED
    BY <1>1, <1>2, <2>1, ReadFacts DEF ConfigSpace
<1>4. low \in Nat
  BY <1>1, PciAssumption
<1>5. (low \div 4) % 2 = 0 \/ (low \div 4) % 2 = 1
  BY <1>4
<1>6. 16 + 4 * 0 = 16 /\ 16 + 4 * 0 + 4 = 20
  OBVIOUS
<1>7. bar = IF (low \div 4) % 2 = 1 THEN <<high, low>> ELSE <<0, low>>
  <2>1. CASE (low \div 4) % 2 = 0
    BY <1>3, <1>6, <2>1 DEF ReadBar, WithError
  <2>2. CASE (low \div 4) % 2 = 1
    BY <1>3, <1>6, <2>2 DEF ReadBar, WithError
  <2> QED
    BY <1>5, <2>1, <2>2
<1>8. RegistersAt(<<b, d, f>>) = <<IF (low \div 4) % 2 = 1 THEN high ELSE 0, low - (low % 16)>>
  BY <1>1, <1>2 DEF RegistersAt
<1>9. CASE (low \div 4) % 2 = 1
  BY <1>7, <1>8, <1>9
<1>10. CASE (low \div 4) % 2 = 0
  BY <1>7, <1>8, <1>10
<1> QED
  BY <1>5, <1>9, <1>10

(* The controller that was chosen is there.                                *)
LEMMA ChosenFacts ==
  ASSUME IInv, ScanInv, pc \notin {"Scan", "Find"}, xhc # 0,
         NEW dev, dev = Table[xhc]
  PROVE  /\ dev = <<dev[1], dev[2], dev[3]>> /\ Located(dev[1], dev[2], dev[3])
         /\ dev \in DOMAIN machine.space
<1>1. xhc \in DOMAIN Table /\ IsClass(dev, XhciClass)
  BY DEF ScanInv, FoundInv, ChosenInv, Xhcs
<1>2. Table \in Seq((0..255) \X (0..31) \X (0..7))
  BY DEF ScanInv, TableInv, Results, Table, Tables
<1>3. dev \in (0..255) \X (0..31) \X (0..7)
  BY <1>1, <1>2
<1>4. dev \in DOMAIN machine.space
  BY <1>1 DEF IsClass, ConfigSpace, Absent, XhciClass
<1> QED
  BY <1>3, <1>4 DEF Located

LEMMA LocateEnables ==
  ASSUME IInv, ScanInv, LocateXhc
  PROVE  EnabledInv'
<1>1. machine \in Machines /\ pc = "ReadBar"
  BY DEF IInv, MemoryInv, LocateXhc
<1>2. CASE xhc = 0
  BY <1>2 DEF LocateXhc, EnabledInv, Driving, Initializing, Running
<1>3. CASE xhc # 0
  <2>1. PICK dev : dev = Table[xhc]
    OBVIOUS
  <2>2. PICK bar : bar = ReadBar(dev[1], dev[2], dev[3], 0).value
    OBVIOUS
  <2>3. /\ pc' = "Command" /\ mmio' = <<bar[1], bar[2] - (bar[2] % 16)>>
        /\ machine' = machine /\ scanned' = scanned /\ xhc' = xhc
    BY <1>3, <2>1, <2>2 DEF LocateXhc
  <2>4. /\ dev = <<dev[1], dev[2], dev[3]>> /\ Located(dev[1], dev[2], dev[3])
        /\ dev \in DOMAIN machine.space
    BY <1>1, <1>3, <2>1, ChosenFacts
  <2>5. mmio' = RegistersAt(dev)
    BY <1>1, <2>2, <2>3, <2>4, BarFacts
  <2>6. Table'[xhc'] = dev /\ \A d : RegistersAt(d)' = RegistersAt(d)
    BY <2>1, <2>3, SameMachine DEF Table
  <2>7. mmio' = RegistersAt(Table[xhc])'
    BY <2>3, <2>5, <2>6 DEF RegistersAt
  <2> QED
    BY <2>3, <2>7 DEF EnabledInv, Driving, Initializing, Running
<1> QED
  BY <1>2, <1>3

(* An Intel EHCI in the table is one that can be reached.                  *)
LEMMA RoutesPorts ==
  ASSUME ScanInv, SwitchEhci2Xhci
  PROVE  RoutedInv'
<1>1. /\ pc = "Switch" /\ machine' = machine /\ scanned' = scanned /\ xhc' = xhc
      /\ routed' = ( /\ IsIntel(Table[xhc])
                     /\ \E i \in DOMAIN Table : IsEhci(Table[i]) )
  BY Zenon DEF SwitchEhci2Xhci, IsEhci
<1>2. /\ Table' = Table /\ Reachable' = Reachable /\ (Numbered' <=> Numbered)
      /\ \A d, class : IsClass(d, class)' <=> IsClass(d, class)
      /\ \A d : IsIntel(d)' <=> IsIntel(d)
  BY <1>1, SameMachine DEF Table
<1>3. ASSUME Numbered, Cardinality(Reachable) <= TableSize
      PROVE  ToSet(Table) = Reachable
  BY <1>1, <1>3 DEF ScanInv, FoundInv, Complete, Table
<1>4. ToSet(Table) = {Table[i] : i \in DOMAIN Table}
  BY DEF ToSet
<1>5. ASSUME Numbered, Cardinality(Reachable) <= TableSize
      PROVE  routed' <=> IsIntel(Table[xhc]) /\ \E f \in Reachable : IsEhci(f)
  <2>1. (\E i \in DOMAIN Table : IsEhci(Table[i])) <=> (\E f \in Reachable : IsEhci(f))
    BY <1>3, <1>4, <1>5, Zenon
  <2> QED
    BY <1>1, <2>1, Zenon
<1>6. \A d : IsEhci(d)' <=> IsEhci(d)
  BY <1>2 DEF IsEhci
<1> QED
  BY <1>1, <1>2, <1>5, <1>6, Zenon DEF RoutedInv

LEMMA StaysEnabled ==
  ASSUME EnabledInv, machine' = machine, scanned' = scanned, xhc' = xhc, mmio' = mmio,
         command' = command, routed' = routed, pc' = pc \/ pc \in Driving
  PROVE  EnabledInv'
<1>1. /\ Reachable' = Reachable /\ (Numbered' <=> Numbered) /\ Table' = Table
      /\ \A d, class : IsClass(d, class)' <=> IsClass(d, class)
      /\ \A d : IsIntel(d)' <=> IsIntel(d)
      /\ \A d : RegistersAt(d)' = RegistersAt(d)
  BY SameMachine DEF Table
<1>2. \A d : IsEhci(d)' <=> IsEhci(d)
  BY <1>1 DEF IsEhci
<1>3. RoutedInv' <=> RoutedInv
  BY <1>1, <1>2, Zenon DEF RoutedInv
<1>4. RegistersAt(Table[xhc])' = RegistersAt(Table[xhc])
  BY <1>1 DEF RegistersAt
<1> QED
  BY <1>3, <1>4 DEF EnabledInv, Driving

LEMMA EnabledKeep ==
  ASSUME IInv, ScanInv, EnabledInv, [Next]_vars
  PROVE  EnabledInv'
<1> USE DEF Driving, Initializing, Running
<1>1. CASE UNCHANGED vars
  BY <1>1, StaysEnabled DEF vars, initVars
<1>2. CASE Scan \/ FindXhc
  BY <1>2 DEF Scan, FindXhc, EnabledInv
<1>3. CASE LocateXhc
  BY <1>3, LocateEnables
<1>4. CASE EnableOnBus
  <2>1. /\ pc = "Command" /\ pc' = "Switch" /\ command' = command \cup {"IO", "MEMORY", "MASTER"}
        /\ machine' = machine /\ scanned' = scanned /\ xhc' = xhc /\ mmio' = mmio
    BY <1>4 DEF EnableOnBus
  <2>2. RegistersAt(Table[xhc])' = RegistersAt(Table[xhc])
    BY <2>1, SameMachine DEF RegistersAt, Table
  <2> QED
    BY <2>1, <2>2 DEF EnabledInv
<1>5. CASE SwitchEhci2Xhci
  <2>1. /\ pc = "Switch" /\ pc' = "DevMgr" /\ command' = command
        /\ machine' = machine /\ scanned' = scanned /\ xhc' = xhc /\ mmio' = mmio
    BY <1>5 DEF SwitchEhci2Xhci
  <2>2. RegistersAt(Table[xhc])' = RegistersAt(Table[xhc])
    BY <2>1, SameMachine DEF RegistersAt, Table
  <2>3. RoutedInv'
    BY <1>5, RoutesPorts
  <2> QED
    BY <2>1, <2>2, <2>3 DEF EnabledInv
<1>6. CASE InitializeController /\ UNCHANGED mainVars
  <2>1. UNCHANGED <<scanned, xhc, mmio, command, routed>>
    BY <1>6 DEF mainVars
  <2>2. machine' = machine /\ pc \in Driving
    <3>1. CASE InitializeDeviceManager \/ RequestHCOwnership \/ WaitForOwnership
      BY <3>1 DEF InitializeDeviceManager, RequestHCOwnership, WaitForOwnership
    <3>2. CASE Stop \/ WaitForHalt \/ StartReset \/ WaitForReset
      BY <3>2 DEF Stop, WaitForHalt, StartReset, WaitForReset
    <3>3. CASE \/ SetMaxSlots \/ SetContexts \/ RegisterCommandRing
              \/ SetSegmentTable \/ EnableInterrupter
      BY <3>3 DEF SetMaxSlots, SetContexts, RegisterCommandRing, SetSegmentTable,
                  EnableInterrupter, Writes
    <3>4. CASE AllocateScratchpadArray \/ AllocateScratchpadBuffer
      BY <3>4 DEF AllocateScratchpadArray, AllocateScratchpadBuffer
    <3>5. CASE InitializeCommandRing \/ InitializeEventRing
      BY <3>5 DEF InitializeCommandRing, InitializeEventRing
    <3>6. CASE Run \/ WaitForRun
      BY <3>6 DEF Run, WaitForRun
    <3> QED
      BY <1>6, <3>1, <3>2, <3>3, <3>4, <3>5, <3>6 DEF InitializeController
  <2> HIDE DEF Driving
  <2> QED
    BY <2>1, <2>2, StaysEnabled
<1>7. CASE Hardware /\ UNCHANGED mainVars
  <2>1. UNCHANGED <<machine, pc, scanned, xhc, mmio, command, routed>>
    BY <1>7 DEF Hardware, Answers, FirmwareLetsGo, FirmwareUses, Halts, Starts, Resets, GetsReady,
                mainVars
  <2> QED
    BY <2>1, StaysEnabled
<1>8. CASE \E handler \in 1..3 : EnumerateDevice(handler)
  <2>1. /\ UNCHANGED <<machine, scanned, xhc, mmio, command, routed>> /\ pc = "Ports"
    BY <1>8 DEF EnumerateDevice
  <2> QED
    BY <2>1, StaysEnabled
<1> QED
  BY <1>1, <1>2, <1>3, <1>4, <1>5, <1>6, <1>7, <1>8 DEF Next, KernelMain, AfterScan

LEMMA NextScanInv == IInv /\ ScanInv /\ [Next]_vars => ScanInv'
<1> SUFFICES ASSUME IInv, ScanInv, [Next]_vars PROVE ScanInv'
  OBVIOUS
<1>1. TableInv' /\ FoundInv'
  BY ScanKeeps, FindKeeps, OthersKeep
<1>2. BuffersInv' /\ CostInv'
  BY BuffersKeep, CostKeep DEF ScanInv
<1> QED
  BY <1>1, <1>2 DEF ScanInv

LEMMA ScanInvariance == Spec => []ScanInv
  BY InitScanInv, NextScanInv, Invariance, PTL DEF Spec

LEMMA EnabledInvariance == Spec => []EnabledInv
<1>1. InitKernel => EnabledInv
  BY DEF InitKernel, EnabledInv, Driving, Initializing, Running
<1>2. IInv /\ ScanInv /\ EnabledInv /\ [Next]_vars => EnabledInv'
  BY EnabledKeep
<1> QED
  BY <1>1, <1>2, Invariance, ScanInvariance, PTL DEF Spec

(* Every variable of the bring-up has its type in every reachable state,   *)
(* on every machine: the recursive scan comes back, with no more than 32   *)
(* entries, and xhc_dev is nullptr or one of them.                         *)
THEOREM TypeCorrect == Spec => []TypeOK
<1>1. IInv /\ ScanInv => TypeOK
  <2> SUFFICES ASSUME IInv, ScanInv PROVE TypeOK
    OBVIOUS
  <2>1. /\ pc \in {"Scan", "Find", "ReadBar", "Command", "Switch", "Undefined"}
                 \cup Initializing \cup Running
    BY DEF IInv, Places, Before, Early, Owning, Halted, Writing, Afterwards, Initializing, Running
  <2>2. pool.ptr \in Nat /\ pool.nulls \in Nat
    BY DEF IInv, MemoryInv, Good, PoolInv, Pools
  <2>3. buffers \in 0..machine.scratchpads
    BY DEF ScanInv, BuffersInv
  <2>4. err \in {"kSuccess", "kNoEnoughMemory"}
    BY DEF IInv, ProgramInv
  <2>5. {bios, os, run, reset, halted, cnr, routed} \subseteq BOOLEAN
    BY Zenon DEF IInv, Flags, ScanInv, CostInv
  <2>6. scanned \in Results
    BY DEF ScanInv, TableInv
  <2>7. scanned.error \in {"kSuccess", "kFull"} /\ Len(Table) <= TableSize
    BY <2>6, TableLength DEF Results
  <2> QED
    BY <2>1, <2>2, <2>3, <2>4, <2>5, <2>7 DEF TypeOK, ScanInv, TableInv, CostInv
<1> QED
  BY <1>1, Invariance, ScanInvariance, PTL

(* On every machine whose buses the firmware has numbered, the scan finds  *)
(* every function that can be reached, once, if the table holds them all   *)
(* and reports kFull if not; KernelMain takes an xHC where the table has   *)
(* one, an Intel one where it has one; and it finds the registers, enables *)
(* the controller on the bus and gives an Intel one the ports of an Intel  *)
(* EHCI before the driver touches it.                                      *)
THEOREM ControllerFound == Spec => []FindsController
<1>1. ScanInv /\ EnabledInv => FindsController
  <2> SUFFICES ASSUME ScanInv, EnabledInv, pc # "Scan"
               PROVE  /\ Numbered => Complete(scanned)
                      /\ pc # "Find" => ChosenInv
                      /\ pc \in Driving => /\ mmio = RegistersAt(Table[xhc])
                                           /\ {"MEMORY", "MASTER"} \subseteq command
                                           /\ RoutedInv
    BY Zenon DEF FindsController, Complete, ChosenInv, Xhcs, Table, Driving, RoutedInv, IsEhci
  <2> QED
    BY Zenon DEF ScanInv, FoundInv, EnabledInv
<1> QED
  BY <1>1, ScanInvariance, EnabledInvariance, PTL
=============================================================================

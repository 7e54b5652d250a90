--------------------------- MODULE Loader_proofs ---------------------------
(***************************************************************************)
(* Proofs about Loader, for memories and pages of every size, any number   *)
(* of failing services, and kernels of any number of program headers.      *)
(***************************************************************************)
EXTENDS Loader, TLAPS, WellFoundedInduction

-----------------------------------------------------------------------------
(* Numbers *)

LEMMA LowestMember ==
  ASSUME NEW S \in SUBSET Nat, S # {}
  PROVE  \E x \in S : \A y \in S : x <= y
<1>0. PICK R : R = OpToRel(<, Nat)
  OBVIOUS
<1>1. IsWellFoundedOn(R, Nat)
  BY <1>0, NatLessThanWellFounded, Zenon
<1>2. PICK x \in S : \A y \in S : ~ (<<y, x>> \in R)
  BY <1>1, WFMin
<1>3. ASSUME NEW y \in S, y < x PROVE FALSE
  <2>1. <<y, x>> \in R
    BY <1>0, <1>3, Zenon DEF OpToRel
  <2> QED
    BY <1>2, <2>1
<1> QED
  BY <1>2, <1>3

(* Induction, for the set of numbers of which something holds.             *)
LEMMA Induction ==
  ASSUME NEW S, 0 \in S, \A n \in Nat : n \in S => n + 1 \in S
  PROVE  \A n \in Nat : n \in S
<1> SUFFICES ASSUME NEW n \in Nat, n \notin S PROVE FALSE
  OBVIOUS
<1>1. PICK x \in Nat \ S : \A y \in Nat \ S : x <= y
  BY LowestMember
<1>2. x - 1 \in Nat /\ x - 1 \in S
  BY <1>1
<1>3. (x - 1) + 1 \in S
  BY <1>2
<1> QED
  BY <1>1, <1>3

(* Multiplying keeps the order.                                            *)
LEMMA Monotone ==
  ASSUME NEW x \in Nat, NEW y \in Nat, NEW a \in Nat \ {0}, x <= y
  PROVE  x * a <= y * a
<1>1. PICK d \in Nat : y = x + d
  BY y - x \in Nat
<1>2. d * a \in Nat /\ (x + d) * a = x * a + d * a
  OBVIOUS
<1> QED
  BY <1>1, <1>2

LEMMA Product ==
  ASSUME NEW x \in Nat, NEW a \in Nat \ {0}
  PROVE  x * a \in Nat /\ (x + 1) * a = x * a + a
  OBVIOUS

(* A page holds PageSize cells from its first one.                         *)
LEMMA PageFacts ==
  ASSUME NEW a \in Nat
  PROVE  /\ PageOf(a) \in Nat
         /\ PageOf(a) * PageSize <= a /\ a < (PageOf(a) + 1) * PageSize
<1>0. PageSize \in Nat \ {0}
  BY LoaderAssumption
<1>1. \A p \in Nat \ {0} : /\ a \div p \in Nat
                           /\ (a \div p) * p <= a /\ a < (a \div p) * p + p
  OBVIOUS
<1> QED
  BY <1>0, <1>1, Product DEF PageOf

(* Pages follow one another in the order of addresses.                     *)
LEMMA PageBelow ==
  ASSUME NEW a \in Nat, NEW q \in Nat
  PROVE  (a < q * PageSize => PageOf(a) < q) /\ (q * PageSize <= a => q <= PageOf(a))
<1>0. PageSize \in Nat \ {0} /\ PageOf(a) \in Nat
  BY LoaderAssumption, PageFacts
<1>1. ASSUME q <= PageOf(a) PROVE q * PageSize <= a
  <2>1. q * PageSize <= PageOf(a) * PageSize
    BY <1>0, <1>1, Monotone
  <2> QED
    BY <1>0, <2>1, PageFacts, Product
<1>2. ASSUME PageOf(a) < q PROVE a < q * PageSize
  <2>1. (PageOf(a) + 1) * PageSize <= q * PageSize
    BY <1>0, <1>2, Monotone
  <2> QED
    BY <1>0, <2>1, PageFacts, Product
<1> QED
  BY <1>0, <1>1, <1>2, Product

(* Rounding up.                                                            *)
LEMMA RoundUp ==
  ASSUME NEW v \in Nat, NEW a \in Nat \ {0}
  PROVE  /\ (v + a - 1) \div a \in Nat
         /\ v <= ((v + a - 1) \div a) * a
  OBVIOUS

-----------------------------------------------------------------------------
(* The program headers and the range of their segments *)

LEMMA HeaderTypes ==
  ASSUME NEW i \in Loads
  PROVE  /\ i \in 1..Len(Elf) /\ Len(Elf) \in Nat
         /\ Elf[i].vaddr \in Nat /\ Elf[i].offset \in Nat
         /\ Elf[i].filesz \in Nat /\ Elf[i].memsz \in Nat
         /\ Elf[i].filesz <= Elf[i].memsz
<1>1. Elf \in Seq(ProgramHeaders) /\ \A j \in DOMAIN Elf : Elf[j].filesz <= Elf[j].memsz
  BY LoaderAssumption
<1>2. i \in 1..Len(Elf) /\ Len(Elf) \in Nat /\ DOMAIN Elf = 1..Len(Elf)
  BY <1>1 DEF Loads
<1>3. Elf[i] \in ProgramHeaders
  BY <1>1, <1>2
<1> QED
  BY <1>1, <1>2, <1>3 DEF ProgramHeaders

LEMMA FirstIsLowest ==
  ASSUME NEW i \in Loads
  PROVE  FirstAddr \in Nat /\ FirstAddr <= Elf[i].vaddr
<1> DEFINE S == {Elf[j].vaddr : j \in Loads}
<1>1. S \in SUBSET Nat /\ S # {} /\ Elf[i].vaddr \in S
  BY HeaderTypes
<1> HIDE DEF S
<1>2. \E x \in S : \A y \in S : x =< y
  BY <1>1, LowestMember
<1>3. Min(S) \in S /\ \A y \in S : Min(S) =< y
  BY <1>2, Zenon DEF Min
<1> QED
  BY <1>1, <1>3 DEF S, FirstAddr

(* There is a segment that ends last, however many there are.              *)
LEMMA LastIsHighest ==
  ASSUME NEW i \in Loads
  PROVE  LastAddr \in Nat /\ Elf[i].vaddr + Elf[i].memsz <= LastAddr
<1> DEFINE End(j) == Elf[j].vaddr + Elf[j].memsz
           S      == {End(j) : j \in Loads}
           P      == {n \in Nat : (\E j \in Loads : j <= n) =>
                        \E j \in Loads : \A k \in Loads : k <= n => End(k) <= End(j)}
<1>1. \A j \in Loads : End(j) \in Nat /\ j \in Nat \ {0} /\ j <= Len(Elf)
  BY HeaderTypes
<1> HIDE DEF End
<1>2. 0 \in P
  BY <1>1
<1>3. ASSUME NEW n \in Nat, n \in P PROVE n + 1 \in P
  <2>1. CASE n + 1 \notin Loads
    <3>1. \A j \in Loads : j <= n + 1 <=> j <= n
      BY <1>1, <2>1
    <3> QED
      BY <1>3, <3>1
  <2>2. CASE n + 1 \in Loads /\ ~\E j \in Loads : j <= n
    <3>1. \A k \in Loads : k <= n + 1 => k = n + 1
      BY <1>1, <2>2
    <3> QED
      BY <1>1, <2>2, <3>1
  <2>3. CASE n + 1 \in Loads /\ \E j \in Loads : j <= n
    <3>1. PICK j \in Loads : \A k \in Loads : k <= n => End(k) <= End(j)
      BY <1>3, <2>3
    <3>2. \A k \in Loads : k <= n + 1 => k <= n \/ k = n + 1
      BY <1>1
    <3>3. CASE End(n + 1) <= End(j)
      BY <3>1, <3>2, <3>3
    <3>4. CASE ~(End(n + 1) <= End(j))
      <4>1. \A k \in Loads : k <= n + 1 => End(k) <= End(n + 1)
        BY <1>1, <2>3, <3>1, <3>2, <3>4
      <4> QED
        BY <2>3, <4>1
    <3> QED
      BY <3>3, <3>4
  <2> QED
    BY <2>1, <2>2, <2>3
<1>4. Len(Elf) \in P
  <2>1. \A n \in Nat : n \in P
    BY <1>2, <1>3, Induction
  <2> QED
    BY <2>1, HeaderTypes
<1>5. \E x \in S : \A y \in S : x >= y
  BY <1>1, <1>4
<1>6. Max(S) \in S /\ \A y \in S : Max(S) >= y
  <2> HIDE DEF S
  <2> QED
    BY <1>5, Zenon DEF Max
<1> QED
  BY <1>1, <1>6 DEF LastAddr, End

(* The pages of the range                                                  *)
Wanted == PageOf(FirstAddr)..(PageOf(FirstAddr) + NumPages - 1)

(* cover every cell of every segment, if the first page starts with it.    *)
LEMMA RangeCovers ==
  ASSUME NEW i \in Loads, NEW a \in Segment(i), FirstAddr % PageSize = 0
  PROVE  a \in Nat /\ PageOf(a) \in Wanted
<1>1. /\ a \in Nat /\ FirstAddr \in Nat /\ LastAddr \in Nat
      /\ FirstAddr <= a /\ a < LastAddr
  BY HeaderTypes, FirstIsLowest, LastIsHighest DEF Segment
<1>2. PageSize \in Nat \ {0}
  BY LoaderAssumption
<1> DEFINE q == PageOf(FirstAddr)
<1>3. q \in Nat /\ q * PageSize = FirstAddr
  <2>1. \A f \in Nat, p \in Nat \ {0} : f % p = 0 => (f \div p) * p = f
    OBVIOUS
  <2> QED
    BY <1>1, <1>2, <2>1, PageFacts DEF PageOf
<1>4. NumPages \in Nat /\ LastAddr - FirstAddr <= NumPages * PageSize
  <2>1. LastAddr - FirstAddr \in Nat
    BY <1>1
  <2> QED
    BY <1>2, <2>1, RoundUp DEF NumPages
<1>5. (q + NumPages) * PageSize = q * PageSize + NumPages * PageSize
  BY <1>2, <1>3, <1>4
<1>6. NumPages * PageSize \in Nat
  BY <1>2, <1>4, Product
<1> HIDE DEF q
<1>7. q * PageSize <= a /\ a < (q + NumPages) * PageSize
  BY <1>1, <1>3, <1>4, <1>5, <1>6
<1>8. PageOf(a) \in Nat /\ q <= PageOf(a) /\ PageOf(a) < q + NumPages
  BY <1>1, <1>3, <1>4, <1>7, PageBelow, PageFacts
<1> QED
  BY <1>1, <1>3, <1>4, <1>8 DEF Wanted, q

-----------------------------------------------------------------------------
(* CopyLoadSegments *)

(* What a segment has in the cell a, as long as the file is in the buffer. *)
Content(i, a) ==
  IF a < Elf[i].vaddr + Elf[i].filesz
  THEN IF file THEN FileCell(Elf[i].offset + a - Elf[i].vaddr) ELSE Junk
  ELSE Zero

LEMMA SegmentCells ==
  ASSUME NEW m, NEW i \in Loads
  PROVE  /\ DOMAIN CopySegment(m, Elf[i]) = DOMAIN m
         /\ \A a \in DOMAIN m : a \in Nat =>
              CopySegment(m, Elf[i])[a] = IF a \in Segment(i) THEN Content(i, a) ELSE m[a]
<1>1. DOMAIN CopySegment(m, Elf[i]) = DOMAIN m
  BY DEF CopySegment
<1>2. ASSUME NEW a \in DOMAIN m, a \in Nat
      PROVE  CopySegment(m, Elf[i])[a] = IF a \in Segment(i) THEN Content(i, a) ELSE m[a]
  <2> DEFINE v == Elf[i].vaddr
             fs == Elf[i].filesz
             ms == Elf[i].memsz
  <2>1. v \in Nat /\ fs \in Nat /\ ms \in Nat /\ fs <= ms
    BY HeaderTypes
  <2>2. CopySegment(m, Elf[i])[a] =
          CASE a \in v..(v + fs - 1) ->
                 IF file THEN FileCell(Elf[i].offset + a - v) ELSE Junk
            [] a \in (v + fs)..(v + ms - 1) -> Zero
            [] OTHER -> m[a]
    BY DEF CopySegment
  <2> HIDE DEF v, fs, ms
  <2>3. /\ a \in v..(v + fs - 1) <=> v <= a /\ a < v + fs
        /\ a \in (v + fs)..(v + ms - 1) <=> v + fs <= a /\ a < v + ms
        /\ a \in v..(v + ms - 1) <=> v <= a /\ a < v + ms
    BY <1>2, <2>1
  <2>4. CASE v <= a /\ a < v + fs
    BY <2>1, <1>2, <2>2, <2>3, <2>4 DEF Segment, Content, v, fs, ms
  <2>5. CASE v + fs <= a /\ a < v + ms
    BY <2>1, <1>2, <2>2, <2>3, <2>5 DEF Segment, Content, v, fs, ms
  <2>6. CASE a < v \/ v + ms <= a
    BY <2>1, <1>2, <2>2, <2>3, <2>6 DEF Segment, Content, v, fs, ms
  <2> QED
    BY <1>2, <2>1, <2>4, <2>5, <2>6
<1> QED
  BY <1>1, <1>2

(* The recursion of Copied has a solution, so Copied is one.               *)
Copy(m, n) == IF n \in Loads THEN CopySegment(m, Elf[n]) ELSE m

Solves(f, N) == f = [n \in 0..N |-> IF n = 0 THEN mem ELSE Copy(f[n - 1], n)]

LEMMA Solution == \A N \in Nat : \E f : Solves(f, N)
<1> DEFINE S == {N \in Nat : \E f : Solves(f, N)}
<1>1. 0 \in S
  <2>1. Solves([n \in 0..0 |-> mem], 0)
    BY DEF Solves
  <2> QED
    BY <2>1
<1>2. ASSUME NEW N \in Nat, N \in S PROVE N + 1 \in S
  <2>1. PICK f : Solves(f, N)
    BY <1>2
  <2> DEFINE g == [n \in 0..(N + 1) |-> IF n = N + 1 THEN Copy(f[N], N + 1) ELSE f[n]]
  <2>2. \A n \in 0..(N + 1) : g[n] = IF n = 0 THEN mem ELSE Copy(g[n - 1], n)
    <3> SUFFICES ASSUME NEW n \in 0..(N + 1)
                 PROVE  g[n] = IF n = 0 THEN mem ELSE Copy(g[n - 1], n)
      OBVIOUS
    <3>1. CASE n = N + 1
      <4>1. n # 0 /\ n - 1 = N /\ g[n - 1] = f[N]
        BY <3>1
      <4> QED
        BY <3>1, <4>1
    <3>2. CASE n = 0
      BY <2>1, <3>2 DEF Solves
    <3>3. CASE n \in 1..N
      <4>1. n - 1 \in 0..(N + 1) /\ n - 1 # N + 1 /\ g[n - 1] = f[n - 1]
        BY <3>3
      <4>2. f[n] = Copy(f[n - 1], n)
        BY <2>1, <3>3 DEF Solves
      <4> QED
        BY <3>3, <4>1, <4>2
    <3> QED
      BY <3>1, <3>2, <3>3
  <2>3. g = [n \in 0..(N + 1) |-> g[n]]
    OBVIOUS
  <2> HIDE DEF g
  <2>4. Solves(g, N + 1)
    BY <2>2, <2>3, Zenon DEF Solves
  <2> QED
    BY <2>4
<1> HIDE DEF S
<1>3. \A N \in Nat : N \in S
  BY <1>1, <1>2, Induction
<1> QED
  BY <1>3 DEF S

LEMMA CopiedFacts ==
  /\ Copied[0] = mem
  /\ \A n \in Nat : n + 1 <= Len(Elf) => Copied[n + 1] = Copy(Copied[n], n + 1)
<1>0. Len(Elf) \in Nat
  BY LoaderAssumption
<1>1. \E f : Solves(f, Len(Elf))
  BY <1>0, Solution
<1>2. Copied = CHOOSE f : Solves(f, Len(Elf))
  BY DEF Copied, Solves, Copy
<1>3. Solves(Copied, Len(Elf))
  BY <1>1, <1>2, Zenon
<1> QED
  BY <1>0, <1>3 DEF Solves

(* Copying leaves the rest of memory alone, and where segments do not      *)
(* overlap each of them is there in the end.                               *)
CopiedUpTo(n) ==
  /\ DOMAIN Copied[n] = Addresses
  /\ \A a \in Addresses :
       /\ (\A i \in Loads : i <= n => a \notin Segment(i)) => Copied[n][a] = mem[a]
       /\ LinkedKernel => \A i \in Loads : i <= n /\ a \in Segment(i) => Copied[n][a] = Content(i, a)

LEMMA CopiedCells ==
  ASSUME DOMAIN mem = Addresses
  PROVE  CopiedUpTo(Len(Elf))
<1>0. Len(Elf) \in Nat /\ Addresses \subseteq Nat /\ Loads \subseteq Nat \ {0}
  BY LoaderAssumption, HeaderTypes DEF Addresses
<1> DEFINE S == {n \in Nat : n <= Len(Elf) => CopiedUpTo(n)}
<1>1. 0 \in S
  <2>1. \A i \in Loads : ~(i <= 0)
    BY <1>0
  <2>2. CopiedUpTo(0)
    BY <2>1, CopiedFacts DEF CopiedUpTo
  <2> QED
    BY <2>2
<1>2. ASSUME NEW n \in Nat, n \in S PROVE n + 1 \in S
  <2>0. n + 1 \in Nat
    OBVIOUS
  <2> SUFFICES ASSUME n + 1 <= Len(Elf) PROVE CopiedUpTo(n + 1)
    BY <2>0, Zenon
  <2>1. CopiedUpTo(n)
    BY <1>0, <1>2
  <2>2. Copied[n + 1] = Copy(Copied[n], n + 1)
    BY CopiedFacts
  <2>3. CASE n + 1 \notin Loads
    <3>1. Copied[n + 1] = Copied[n]
      BY <2>2, <2>3 DEF Copy
    <3>2. \A i \in Loads : i <= n + 1 <=> i <= n
      BY <1>0, <2>3
    <3> QED
      BY <2>1, <3>1, <3>2 DEF CopiedUpTo
  <2>4. CASE n + 1 \in Loads
    <3>1. Copied[n + 1] = CopySegment(Copied[n], Elf[n + 1])
      BY <2>2, <2>4 DEF Copy
    <3>2. /\ DOMAIN Copied[n + 1] = Addresses
          /\ \A a \in Addresses :
               Copied[n + 1][a] = IF a \in Segment(n + 1) THEN Content(n + 1, a) ELSE Copied[n][a]
      <4>1. DOMAIN Copied[n] = Addresses
        BY <2>1 DEF CopiedUpTo
      <4>2. \A a \in Addresses : a \in Nat
        BY <1>0
      <4>3. /\ DOMAIN Copied[n + 1] = DOMAIN Copied[n]
            /\ \A a \in DOMAIN Copied[n] : a \in Nat =>
                 Copied[n + 1][a] = IF a \in Segment(n + 1) THEN Content(n + 1, a) ELSE Copied[n][a]
        BY <2>4, <3>1, SegmentCells
      <4> QED
        BY <4>1, <4>2, <4>3
    <3>3. \A i \in Loads : i <= n + 1 <=> i <= n \/ i = n + 1
      BY <1>0
    <3>4. ASSUME NEW a \in Addresses, \A i \in Loads : i <= n + 1 => a \notin Segment(i)
          PROVE  Copied[n + 1][a] = mem[a]
      BY <2>1, <2>4, <3>2, <3>3, <3>4 DEF CopiedUpTo
    <3>5. ASSUME NEW a \in Addresses, LinkedKernel, NEW i \in Loads, i <= n + 1, a \in Segment(i)
          PROVE  Copied[n + 1][a] = Content(i, a)
      <4>1. CASE i = n + 1
        BY <3>2, <3>5, <4>1
      <4>2. CASE i <= n /\ i # n + 1
        <5>1. a \notin Segment(n + 1)
          BY <2>4, <3>5, <4>2 DEF LinkedKernel
        <5>2. Copied[n][a] = Content(i, a)
          BY <2>1, <3>5, <4>2 DEF CopiedUpTo
        <5> QED
          BY <3>2, <5>1, <5>2
      <4> QED
        BY <3>3, <3>5, <4>1, <4>2
    <3> QED
      BY <3>2, <3>4, <3>5 DEF CopiedUpTo
  <2> QED
    BY <2>3, <2>4
<1> HIDE DEF S
<1>3. \A n \in Nat : n \in S
  BY <1>1, <1>2, Induction
<1> QED
  BY <1>0, <1>3 DEF S

-----------------------------------------------------------------------------
(* The way through UefiMain *)

(* Where the loader has its pages, its kernel, its entry address.          *)
WithPages  == {"Load", "FreePool", "Exit", "Remap", "ExitAgain", "Entry", "Format", "Kernel"}
WithKernel == WithPages \ {"Load"}
Exited     == {"Entry", "Format", "Kernel"}

(* Only in its pages: AllocatePages gives exactly the range, or stops.     *)
PagesInv ==
  /\ pc \in {"AllocPages", "Load"} => file = TRUE
  /\ pc \in WithPages => /\ owned = Wanted /\ owned \cap used = {}
                         /\ FirstAddr % PageSize = 0

(* What is left of the services: until the loader halts, only two may have *)
(* failed, none is called too late, and each exit has one try.             *)
ServicesInv ==
  /\ pc # "Halt" => failures \subseteq {"OpenMemmap", "Exit"} /\ late = {}
  /\ pc \in Exited => booted = FALSE
  /\ pc \notin Exited \cup {"Remap", "ExitAgain", "Halt"} => tries = 0
  /\ pc \in {"Remap", "ExitAgain"} => tries = 1

(* Every segment is in memory, as its header says.                         *)
InMemory(i) ==
  \A k \in 0..(Elf[i].memsz - 1) :
    mem[Elf[i].vaddr + k] = IF k < Elf[i].filesz THEN FileCell(Elf[i].offset + k) ELSE Zero

KernelInv ==
  LinkedKernel =>
    /\ pc \in WithKernel => \A i \in Loads : InMemory(i)
    /\ pc \in {"Format", "Kernel"} => entry = FileCell(EntryOffset)

IInv == TypeOK /\ PagesInv /\ ServicesInv /\ KernelInv

LEMMA InitIInv == Init => IInv
<1> SUFFICES ASSUME Init PROVE IInv
  OBVIOUS
<1>1. MapBuffer \in Nat /\ descriptors \in 1..(MapBuffer + 1)
  BY LoaderAssumption DEF Init
<1>2. TypeOK
  <2>1. /\ pc \in Places /\ failures \subseteq Places \cup {"MapTooLarge", "NoPages"}
        /\ late \subseteq {"Print"} /\ tries \in 0..2
        /\ owned \subseteq 0..(Pages - 1) /\ used \subseteq 0..(Pages - 1)
        /\ format \in PixelFormats
    BY DEF Init, Places
  <2>2. booted \in BOOLEAN /\ keyFresh \in BOOLEAN /\ file \in BOOLEAN /\ DOMAIN mem = Addresses
    BY DEF Init
  <2> QED
    BY <1>1, <2>1, <2>2 DEF TypeOK
<1>3. PagesInv /\ ServicesInv /\ KernelInv
  BY DEF Init, PagesInv, ServicesInv, KernelInv, WithPages, WithKernel, Exited
<1> QED
  BY <1>2, <1>3 DEF IInv

(* Each of the three groups of variables by itself.                        *)
ControlType ==
  pc \in Places /\ failures \subseteq Places \cup {"MapTooLarge", "NoPages"}

FirmwareType ==
  /\ booted \in BOOLEAN /\ keyFresh \in BOOLEAN
  /\ late \subseteq {"Print"}
  /\ descriptors \in 1..(MapBuffer + 1) /\ tries \in 0..2

ImageType ==
  /\ file \in BOOLEAN
  /\ owned \subseteq 0..(Pages - 1) /\ used \subseteq 0..(Pages - 1)
  /\ DOMAIN mem = Addresses
  /\ format \in PixelFormats

LEMMA Types == TypeOK <=> ControlType /\ FirmwareType /\ ImageType
  BY DEF TypeOK, ControlType, FirmwareType, ImageType

(* An answer, a failure, a map that may change.                            *)
LEMMA ServiceType ==
  ASSUME NEW from \in Places, NEW to \in Places, ControlType,
         Answers(to) \/ Fails(from, to) \/ Fails(from, "Halt")
  PROVE  ControlType'
<1>1. "Halt" \in Places
  BY DEF Places
<1> QED
  BY <1>1 DEF Answers, Fails, ControlType

LEMMA MoreDescriptors ==
  ASSUME NEW d \in 1..(MapBuffer + 1), NEW e \in {d, d + 1}, e <= MapBuffer + 1
  PROVE  e \in 1..(MapBuffer + 1)
<1>1. MapBuffer \in Nat
  BY LoaderAssumption
<1> QED
  BY <1>1

LEMMA MapType ==
  ASSUME FirmwareType, MapMayChange
  PROVE  FirmwareType'
<1>1. descriptors' \in 1..(MapBuffer + 1)
  BY MoreDescriptors DEF FirmwareType, MapMayChange
<1> QED
  BY <1>1 DEF FirmwareType, MapMayChange

LEMMA ControlStep ==
  ASSUME ControlType, Next
  PROVE  ControlType'
<1>1. ASSUME NEW from \in Places, NEW to \in Places, Service(from, to)
      PROVE  ControlType'
  BY <1>1, ServiceType DEF Service
<1>2. CASE FirstMap \/ Remap
  BY <1>2 DEF FirstMap, Remap, GetMemoryMap, Answers, Fails, ControlType, Places
<1>3. CASE OpenRootDir
  BY <1>1, <1>3 DEF OpenRootDir, Places
<1>4. CASE SaveMemoryMap
  BY <1>1, <1>4 DEF SaveMemoryMap, Places
<1>5. CASE OpenGOP
  BY <1>1, <1>5 DEF OpenGOP, Places
<1>6. CASE OpenPCI
  BY <1>1, <1>6 DEF OpenPCI, Places
<1>7. CASE OpenKernelFile
  BY <1>1, <1>7 DEF OpenKernelFile, Places
<1>8. CASE ReadKernelFile
  BY <1>1, <1>8 DEF ReadKernelFile, Places
<1>9. CASE FreeKernelBuffer
  BY <1>1, <1>9 DEF FreeKernelBuffer, Places
<1>10. CASE OpenMemmapFile
  BY <1>10 DEF OpenMemmapFile, Answers, Fails, ControlType, Places
<1>11. CASE AllocatePages
  BY <1>11 DEF AllocatePages, Answers, Fails, ControlType, Places
<1>12. CASE Exit \/ ExitAgain
  BY <1>12 DEF Exit, ExitAgain, ExitBootServices, Answers, Fails, ControlType, Places
<1>13. CASE CopyLoadSegments \/ ReadEntry \/ PassConfig \/ Background
  BY <1>13 DEF CopyLoadSegments, ReadEntry, PassConfig, Background, ControlType, Places
<1> QED
  BY <1>2, <1>3, <1>4, <1>5, <1>6, <1>7, <1>8, <1>9, <1>10, <1>11, <1>12, <1>13
     DEF Next, UefiMain

(* A call of ExitBootServices, with or without a map that changed before. *)
LEMMA ExitFacts ==
  ASSUME Exit \/ ExitAgain
  PROVE  /\ Exit => pc = "Exit"
         /\ ExitAgain => pc = "ExitAgain"
         /\ tries' = tries + 1 /\ late' = late /\ UNCHANGED image
         /\ keyFresh' \in BOOLEAN
         /\ descriptors' \in {descriptors, descriptors + 1}
         /\ descriptors' = descriptors \/ descriptors' <= MapBuffer + 1
         /\ \/ pc' = "Entry" /\ booted' = FALSE /\ failures' = failures
            \/ /\ pc' = (IF pc = "Exit" THEN "Remap" ELSE "Halt") /\ booted' = booted
               /\ failures' \in {failures, failures \cup {pc}}
<1>1. ASSUME NEW from, NEW failed, ExitBootServices(from, failed)
      PROVE  /\ pc = from
             /\ tries' = tries + 1 /\ late' = late /\ UNCHANGED image
             /\ keyFresh' \in BOOLEAN
             /\ descriptors' \in {descriptors, descriptors + 1}
             /\ descriptors' = descriptors \/ descriptors' <= MapBuffer + 1
             /\ \/ pc' = "Entry" /\ booted' = FALSE /\ failures' = failures
                \/ /\ pc' = failed /\ booted' = booted
                   /\ failures' \in {failures, failures \cup {from}}
  <2>1. /\ pc = from /\ tries' = tries + 1 /\ late' = late /\ UNCHANGED image
    BY <1>1 DEF ExitBootServices
  <2>2. PICK changed :
          LET fresh == keyFresh /\ ~changed
          IN  /\ keyFresh' = fresh
              /\ descriptors' \in {descriptors} \cup
                   {d \in {descriptors + 1} : changed /\ d <= MapBuffer + 1}
              /\ \/ fresh /\ Answers("Entry") /\ booted' = FALSE
                 \/ ~fresh /\ pc' = failed /\ UNCHANGED <<failures, booted>>
                 \/ Fails(from, failed) /\ UNCHANGED booted
    BY <1>1, Zenon DEF ExitBootServices
  <2>3. keyFresh' \in BOOLEAN
    BY <2>2
  <2>4. /\ descriptors' \in {descriptors, descriptors + 1}
        /\ descriptors' = descriptors \/ descriptors' <= MapBuffer + 1
    BY <2>2
  <2>5. \/ pc' = "Entry" /\ booted' = FALSE /\ failures' = failures
        \/ /\ pc' = failed /\ booted' = booted
           /\ failures' \in {failures, failures \cup {from}}
    BY <2>2 DEF Answers, Fails
  <2> QED
    BY <2>1, <2>3, <2>4, <2>5
<1>2. CASE Exit
  <2>1. ExitBootServices("Exit", "Remap") /\ pc = "Exit"
    BY <1>1, <1>2, Zenon DEF Exit
  <2>2. ~ExitAgain
    BY <2>1 DEF ExitAgain, ExitBootServices
  <2>3. \/ pc' = "Entry" /\ booted' = FALSE /\ failures' = failures
        \/ /\ pc' = "Remap" /\ booted' = booted
           /\ failures' \in {failures, failures \cup {"Exit"}}
    BY <1>1, <2>1, Zenon
  <2> QED
    BY <1>1, <2>1, <2>2, <2>3, Zenon
<1>3. CASE ExitAgain
  <2>1. ExitBootServices("ExitAgain", "Halt") /\ pc = "ExitAgain"
    BY <1>1, <1>3, Zenon DEF ExitAgain
  <2>2. ~Exit /\ pc # "Exit"
    BY <2>1 DEF Exit, ExitBootServices
  <2>3. \/ pc' = "Entry" /\ booted' = FALSE /\ failures' = failures
        \/ /\ pc' = "Halt" /\ booted' = booted
           /\ failures' \in {failures, failures \cup {"ExitAgain"}}
    BY <1>1, <2>1, Zenon
  <2> QED
    BY <1>1, <2>1, <2>2, <2>3, Zenon
<1> QED
  BY <1>2, <1>3

LEMMA FirmwareStep ==
  ASSUME FirmwareType, ServicesInv, Next
  PROVE  FirmwareType'
<1>1. CASE FirstMap \/ Remap
  BY <1>1 DEF FirstMap, Remap, GetMemoryMap, FirmwareType
<1>2. CASE \/ OpenRootDir \/ OpenMemmapFile \/ SaveMemoryMap \/ OpenGOP \/ OpenPCI
          \/ OpenKernelFile \/ ReadKernelFile \/ AllocatePages \/ FreeKernelBuffer
  BY <1>2, MapType DEF OpenRootDir, OpenMemmapFile, SaveMemoryMap, OpenGOP, OpenPCI,
                       OpenKernelFile, ReadKernelFile, AllocatePages, FreeKernelBuffer
<1>3. CASE CopyLoadSegments \/ ReadEntry
  BY <1>3 DEF CopyLoadSegments, ReadEntry, firmware, FirmwareType
<1>4. CASE Exit \/ ExitAgain
  <2>1. tries \in {0, 1}
    BY <1>4, ExitFacts DEF ServicesInv, Exited
  <2>2. tries' \in 0..2
    <3>1. tries' = tries + 1
      BY <1>4, ExitFacts
    <3> QED
      BY <2>1, <3>1
  <2>3. descriptors' \in 1..(MapBuffer + 1)
    BY <1>4, ExitFacts, MoreDescriptors DEF FirmwareType
  <2> QED
    BY <1>4, <2>2, <2>3, ExitFacts DEF FirmwareType
<1>5. CASE PassConfig
  BY <1>5 DEF PassConfig, FirmwareType
<1>6. CASE Background
  <2>1. descriptors' \in 1..(MapBuffer + 1)
    BY <1>6, MoreDescriptors DEF Background, FirmwareType
  <2> QED
    BY <1>6, <2>1 DEF Background, FirmwareType
<1> QED
  BY <1>1, <1>2, <1>3, <1>4, <1>5, <1>6 DEF Next, UefiMain

(* What the image has to do with: the pages are got, the file read and     *)
(* freed, the kernel copied, the entry address read.                       *)
LEMMA ImageSource ==
  ASSUME Next
  PROVE  \/ UNCHANGED image
         \/ ReadKernelFile \/ FreeKernelBuffer \/ AllocatePages
         \/ CopyLoadSegments \/ ReadEntry
BY DEF Next, UefiMain, FirstMap, Remap, GetMemoryMap, OpenRootDir, OpenMemmapFile, SaveMemoryMap,
       OpenGOP, OpenPCI, OpenKernelFile, Exit, ExitAgain, ExitBootServices, PassConfig, Background

LEMMA ImageStep ==
  ASSUME ImageType, Next
  PROVE  ImageType'
<1>1. CASE UNCHANGED image
  BY <1>1 DEF image, ImageType
<1>2. CASE ReadKernelFile \/ FreeKernelBuffer
  BY <1>2 DEF ReadKernelFile, FreeKernelBuffer, ImageType
<1>3. CASE AllocatePages
  BY <1>3 DEF AllocatePages, ImageType
<1>4. CASE CopyLoadSegments
  <2>1. DOMAIN mem' = Addresses
    BY <1>4, CopiedCells DEF CopyLoadSegments, CopiedUpTo, ImageType
  <2> QED
    BY <1>4, <2>1 DEF CopyLoadSegments, ImageType
<1>5. CASE ReadEntry
  BY <1>5 DEF ReadEntry, ImageType
<1> QED
  BY <1>1, <1>2, <1>3, <1>4, <1>5, ImageSource

-----------------------------------------------------------------------------
(* Each part of the invariant                                              *)

LEMMA ServicesStep ==
  ASSUME ServicesInv, [Next]_vars
  PROVE  ServicesInv'
<1> USE DEF ServicesInv, Exited, Answers, Fails, MapMayChange, Service, firmware
<1>1. CASE FirstMap \/ Remap
  BY <1>1 DEF FirstMap, Remap, GetMemoryMap
<1>2. CASE OpenRootDir
  BY <1>2 DEF OpenRootDir
<1>3. CASE OpenMemmapFile
  BY <1>3 DEF OpenMemmapFile
<1>4. CASE SaveMemoryMap
  BY <1>4 DEF SaveMemoryMap
<1>5. CASE OpenGOP
  BY <1>5 DEF OpenGOP
<1>6. CASE OpenPCI
  BY <1>6 DEF OpenPCI
<1>7. CASE OpenKernelFile
  BY <1>7 DEF OpenKernelFile
<1>8. CASE ReadKernelFile
  BY <1>8 DEF ReadKernelFile
<1>9. CASE AllocatePages
  BY <1>9 DEF AllocatePages
<1>10. CASE CopyLoadSegments
  BY <1>10 DEF CopyLoadSegments
<1>11. CASE FreeKernelBuffer
  BY <1>11 DEF FreeKernelBuffer
<1>12. CASE Exit
  <2>1. pc = "Exit" /\ tries = 0 /\ late = {} /\ failures \subseteq {"OpenMemmap", "Exit"}
    BY <1>12, ExitFacts
  <2>2. tries' = 1
    BY <1>12, <2>1, ExitFacts
  <2> QED
    BY <1>12, <2>1, <2>2, ExitFacts
<1>17. CASE ExitAgain
  BY <1>17, ExitFacts
<1>13. CASE ReadEntry
  BY <1>13 DEF ReadEntry
<1>14. CASE PassConfig
  BY <1>14 DEF PassConfig
<1>15. CASE Background
  BY <1>15 DEF Background
<1>16. CASE UNCHANGED vars
  BY <1>16 DEF vars
<1> QED
  BY <1>1, <1>2, <1>3, <1>4, <1>5, <1>6, <1>7, <1>8, <1>9, <1>10, <1>11, <1>12, <1>13,
     <1>14, <1>15, <1>16, <1>17 DEF Next, UefiMain

-----------------------------------------------------------------------------
(* A step that leaves the image alone does not bring the loader past one   *)
(* that it needs.                                                          *)
LEMMA Path ==
  ASSUME [Next]_vars, ~ReadKernelFile, ~FreeKernelBuffer, ~AllocatePages,
         ~CopyLoadSegments, ~ReadEntry
  PROVE  /\ UNCHANGED image
         /\ pc' \in WithPages => pc \in WithPages
         /\ pc' \in WithKernel => pc \in WithKernel
         /\ pc' \in {"AllocPages", "Load"} => pc = pc'
         /\ pc' \in {"Format", "Kernel"} => pc \in {"Format", "Kernel"}
<1> USE DEF WithPages, WithKernel, Answers, Fails, Service
<1>1. CASE FirstMap \/ Remap
  BY <1>1 DEF FirstMap, Remap, GetMemoryMap
<1>2. CASE OpenRootDir \/ OpenMemmapFile \/ SaveMemoryMap
  BY <1>2 DEF OpenRootDir, OpenMemmapFile, SaveMemoryMap
<1>3. CASE OpenGOP \/ OpenPCI \/ OpenKernelFile
  BY <1>3 DEF OpenGOP, OpenPCI, OpenKernelFile
<1>4. CASE Exit \/ ExitAgain
  BY <1>4, ExitFacts
<1>5. CASE PassConfig
  BY <1>5 DEF PassConfig
<1>6. CASE Background
  BY <1>6 DEF Background
<1>7. CASE UNCHANGED vars
  BY <1>7 DEF vars, image
<1> QED
  BY <1>1, <1>2, <1>3, <1>4, <1>5, <1>6, <1>7 DEF Next, UefiMain

LEMMA PagesStep ==
  ASSUME PagesInv, [Next]_vars
  PROVE  PagesInv'
<1>1. CASE ReadKernelFile
  BY <1>1 DEF ReadKernelFile, Service, Answers, Fails, PagesInv, WithPages
<1>2. CASE AllocatePages
  <2>1. CASE pc' = "Load" /\ owned' = Wanted
    BY <1>2, <2>1 DEF AllocatePages, Answers, Fails, PagesInv, Wanted
  <2>2. CASE pc' = "Halt"
    BY <2>2 DEF PagesInv, WithPages
  <2> QED
    BY <1>2, <2>1, <2>2 DEF AllocatePages, Answers, Fails, Wanted
<1>3. CASE CopyLoadSegments
  BY <1>3 DEF CopyLoadSegments, PagesInv, WithPages
<1>4. CASE FreeKernelBuffer
  BY <1>4 DEF FreeKernelBuffer, Service, Answers, Fails, PagesInv, WithPages
<1>5. CASE ReadEntry
  BY <1>5 DEF ReadEntry, PagesInv, WithPages
<1>6. CASE ~(\/ ReadKernelFile \/ FreeKernelBuffer \/ AllocatePages
             \/ CopyLoadSegments \/ ReadEntry)
  BY <1>6, Path DEF PagesInv, image
<1> QED
  BY <1>1, <1>2, <1>3, <1>4, <1>5, <1>6

(* What is owned is memory, so a cell of a segment is one of memory.       *)
LEMMA CellOfSegment ==
  ASSUME TypeOK, PagesInv, pc \in WithPages, NEW i \in Loads, NEW a \in Segment(i)
  PROVE  a \in Addresses /\ PageOf(a) \in owned \ used
<1>1. a \in Nat /\ PageOf(a) \in owned /\ owned \cap used = {}
  BY RangeCovers DEF PagesInv
<1>2. PageOf(a) \in 0..(Pages - 1) /\ Pages \in Nat \ {0} /\ PageSize \in Nat \ {0}
  BY <1>1, LoaderAssumption DEF TypeOK
<1>3. Pages * PageSize = PageSize * Pages /\ Pages * PageSize \in Nat
  BY <1>2
<1>4. a < Pages * PageSize
  <2>1. Pages * PageSize <= a => Pages <= PageOf(a)
    BY <1>1, <1>2, PageBelow
  <2> QED
    BY <1>1, <1>2, <1>3, <2>1
<1> QED
  BY <1>1, <1>3, <1>4 DEF Addresses

LEMMA KernelStep ==
  ASSUME TypeOK, PagesInv, KernelInv, [Next]_vars
  PROVE  KernelInv'
<1> SUFFICES ASSUME LinkedKernel
             PROVE  /\ pc' \in WithKernel => \A i \in Loads : InMemory(i)'
                    /\ pc' \in {"Format", "Kernel"} => entry' = FileCell(EntryOffset)
  BY DEF KernelInv, LinkedKernel, Loads, Segment, FirstAddr
<1>1. CASE ReadKernelFile
  BY <1>1 DEF ReadKernelFile, Service, Answers, Fails, WithKernel, WithPages
<1>2. CASE AllocatePages
  BY <1>2 DEF AllocatePages, Answers, Fails, WithKernel, WithPages
<1>3. CASE CopyLoadSegments
  <2>1. ASSUME NEW i \in Loads, NEW k \in 0..(Elf[i].memsz - 1)
        PROVE  mem'[Elf[i].vaddr + k] =
                 IF k < Elf[i].filesz THEN FileCell(Elf[i].offset + k) ELSE Zero
    <3> DEFINE a == Elf[i].vaddr + k
    <3>1. /\ Elf[i].vaddr \in Nat /\ Elf[i].offset \in Nat /\ Elf[i].filesz \in Nat
          /\ Elf[i].memsz \in Nat /\ i <= Len(Elf)
      BY HeaderTypes
    <3>2. a \in Segment(i)
      BY <3>1, SMTT(30) DEF Segment
    <3>3. a \in Addresses /\ file = TRUE
      BY <1>3, <3>2, CellOfSegment DEF CopyLoadSegments, PagesInv, WithPages
    <3>4. mem'[a] = Content(i, a)
      BY <1>3, <3>1, <3>2, <3>3, CopiedCells DEF CopyLoadSegments, CopiedUpTo, TypeOK
    <3>5. /\ a < Elf[i].vaddr + Elf[i].filesz <=> k < Elf[i].filesz
          /\ Elf[i].offset + a - Elf[i].vaddr = Elf[i].offset + k
      BY <3>1, SMTT(30)
    <3> QED
      BY <3>3, <3>4, <3>5 DEF Content
  <2>2. pc' = "FreePool"
    BY <1>3 DEF CopyLoadSegments
  <2> QED
    BY <2>1, <2>2 DEF InMemory
<1>4. CASE FreeKernelBuffer
  <2>1. mem' = mem /\ pc = "FreePool" /\ pc' \in {"Exit", "Halt"}
    BY <1>4 DEF FreeKernelBuffer, Service, Answers, Fails
  <2> QED
    BY <2>1 DEF KernelInv, InMemory, WithKernel, WithPages
<1>5. CASE ReadEntry
  <2>1. mem' = mem /\ pc = "Entry" /\ pc' = "Format" /\ entry' = mem[FirstAddr + EntryOffset]
    BY <1>5 DEF ReadEntry
  <2>2. \A i \in Loads : InMemory(i)
    BY <2>1 DEF KernelInv, WithKernel, WithPages
  <2>3. PICK i \in Loads : /\ Elf[i].vaddr = FirstAddr /\ Elf[i].offset = 0
                          /\ EntryOffset < Elf[i].filesz
    BY DEF LinkedKernel
  <2>4. EntryOffset \in 0..(Elf[i].memsz - 1)
    BY <2>3, HeaderTypes, LoaderAssumption
  <2>5. mem[FirstAddr + EntryOffset] = FileCell(0 + EntryOffset)
    BY <2>2, <2>3, <2>4 DEF InMemory
  <2>6. 0 + EntryOffset = EntryOffset
    BY LoaderAssumption
  <2> QED
    BY <2>1, <2>2, <2>5, <2>6 DEF InMemory
<1>6. CASE ~(\/ ReadKernelFile \/ FreeKernelBuffer \/ AllocatePages
             \/ CopyLoadSegments \/ ReadEntry)
  <2>1. mem' = mem /\ entry' = entry
    BY <1>6, Path DEF image
  <2> QED
    BY <1>6, <2>1, Path DEF KernelInv, InMemory
<1> QED
  BY <1>1, <1>2, <1>3, <1>4, <1>5, <1>6

-----------------------------------------------------------------------------
(* The theorems                                                            *)

LEMMA Invariance == Spec => []IInv
<1>1. Init => IInv
  BY InitIInv
<1>2. IInv /\ [Next]_vars => IInv'
  <2> SUFFICES ASSUME IInv, [Next]_vars PROVE IInv'
    OBVIOUS
  <2>1. TypeOK'
    <3>1. CASE Next
      BY <3>1, ControlStep, FirmwareStep, ImageStep, Types DEF IInv,
         TypeOK, ControlType, FirmwareType, ImageType
    <3>2. CASE UNCHANGED vars
      BY <3>2 DEF IInv, TypeOK, vars
    <3> QED
      BY <3>1, <3>2
  <2> QED
    BY <2>1, ServicesStep, PagesStep, KernelStep DEF IInv
<1> QED
  BY <1>1, <1>2, PTL DEF Spec

(* The variables of UefiMain and of the firmware keep their types, on      *)
(* every machine and for every kernel.                                     *)
THEOREM TypeCorrect == Spec => []TypeOK
<1>1. IInv => TypeOK
  BY DEF IInv
<1> QED
  BY <1>1, Invariance, PTL

(* CopyLoadSegments writes into no page but those AllocatePages gave, even *)
(* if the segments of the kernel overlap or leave gaps: the range that     *)
(* CalcLoadAddressRange finds takes in all of them, and the number of      *)
(* pages is rounded up.                                                    *)
THEOREM OwnPages == Spec => WritesOwnPages
<1>1. IInv /\ [Next]_vars => [\A a \in Addresses : mem'[a] # mem[a] => PageOf(a) \in owned]_vars
  <2> SUFFICES ASSUME IInv, Next, NEW a \in Addresses, mem'[a] # mem[a]
               PROVE  PageOf(a) \in owned
    OBVIOUS
  <2>1. CopyLoadSegments
    BY ImageSource DEF image, ReadKernelFile, FreeKernelBuffer, AllocatePages, ReadEntry
  <2>2. pc = "Load" /\ mem' = Copied[Len(Elf)]
    BY <2>1 DEF CopyLoadSegments
  <2>3. PICK i \in Loads : a \in Segment(i)
    BY <2>2, CopiedCells DEF CopiedUpTo, IInv, TypeOK
  <2> QED
    BY <2>2, <2>3, CellOfSegment DEF IInv, WithPages
<1> QED
  BY <1>1, Invariance, PTL DEF WritesOwnPages, Spec

(* The kernel UefiMain jumps to is the one in the file, whole, in pages of *)
(* its own, after the firmware is gone - on every machine, whatever fails  *)
(* on the way, for every kernel whose segments do not overlap and whose    *)
(* lowest one begins with the ELF header.                                  *)
THEOREM IntactKernel ==
  ASSUME LinkedKernel
  PROVE  Spec => []EntersIntactKernel
<1>1. IInv => EntersIntactKernel
  <2> SUFFICES ASSUME IInv, pc = "Kernel"
               PROVE  /\ ~booted /\ late = {}
                      /\ failures \subseteq {"OpenMemmap", "Exit"}
                      /\ entry = FileCell(EntryOffset)
                      /\ \A i \in Loads : \A k \in 0..(Elf[i].memsz - 1) :
                           /\ mem[Elf[i].vaddr + k] = IF k < Elf[i].filesz
                                                      THEN FileCell(Elf[i].offset + k) ELSE Zero
                           /\ PageOf(Elf[i].vaddr + k) \in owned \ used
    BY DEF EntersIntactKernel
  <2>1. ~booted /\ late = {} /\ failures \subseteq {"OpenMemmap", "Exit"}
    BY DEF IInv, ServicesInv, Exited
  <2>2. entry = FileCell(EntryOffset) /\ \A i \in Loads : InMemory(i)
    BY DEF IInv, KernelInv, WithKernel, WithPages
  <2>3. ASSUME NEW i \in Loads, NEW k \in 0..(Elf[i].memsz - 1)
        PROVE  PageOf(Elf[i].vaddr + k) \in owned \ used
    <3>1. Elf[i].vaddr + k \in Segment(i)
      BY HeaderTypes DEF Segment
    <3> QED
      BY <3>1, CellOfSegment DEF IInv, WithPages
  <2> QED
    BY <2>1, <2>2, <2>3 DEF InMemory
<1> QED
  BY <1>1, Invariance, PTL
=============================================================================

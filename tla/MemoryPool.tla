----------------------------- MODULE MemoryPool -----------------------------
(***************************************************************************)
(* AllocMem of usb/memory.cpp: one pool of bytes for everything the USB    *)
(* code allocates, handed out from front to back and never taken back      *)
(* (FreeMem does nothing).  A pool is a record: where memory_pool lies,    *)
(* alloc_ptr, the blocks handed out, and how many requests were refused.   *)
(***************************************************************************)
EXTENDS Integers, FiniteSets

CONSTANT PoolSize   \* kMemoryPoolSize

ASSUME PoolAssumption == PoolSize \in Nat \ {0}

(* What a caller asks for; 0 for an alignment or boundary means any. *)
Request(size, alignment, boundary) ==
  [size |-> size, alignment |-> alignment, boundary |-> boundary]

(* A pool nothing was taken from, at the address base *)
Untouched(base) == [base |-> base, ptr |-> base, blocks |-> {}, nulls |-> 0]

(* The next multiple: alignments are powers of two, so masking rounds.     *)
Ceil(value, alignment) ==
  ((value + alignment - 1) \div alignment) * alignment

Aligned(p, r) == IF r.alignment > 0 THEN Ceil(p.ptr, r.alignment) ELSE p.ptr

PlaceBug(p, r) ==   \* no look at the boundary
  Aligned(p, r)

(* Where alloc_ptr goes before anything is handed out: to the alignment,   *)
(* and to the next boundary if the block would reach over it.              *)
Place(p, r) ==
  IF r.boundary > 0 /\ Ceil(Aligned(p, r), r.boundary) < Aligned(p, r) + r.size
  THEN Ceil(Aligned(p, r), r.boundary)
  ELSE Aligned(p, r)

Fits(p, r) == Place(p, r) + r.size <= p.base + PoolSize

(* A request that does not fit has moved alloc_ptr all the same. *)
AllocMem(p, r) ==
  IF Fits(p, r)
  THEN [p EXCEPT !.ptr = Place(p, r) + r.size,
                 !.blocks = @ \cup {[at |-> Place(p, r), for |-> r]}]
  ELSE [p EXCEPT !.ptr = Place(p, r), !.nulls = @ + 1]

-----------------------------------------------------------------------------
(* What memory.hpp promises of every block: it begins at a multiple of its *)
(* alignment and does not lie across a boundary unless it is larger; and   *)
(* blocks are in the pool and apart from each other.                       *)
Across(b) == b.at \div b.for.boundary # (b.at + b.for.size - 1) \div b.for.boundary

WellPlaced(p, b) ==
  /\ b.at >= p.base /\ b.at + b.for.size <= p.base + PoolSize
  /\ b.for.alignment > 0 => b.at % b.for.alignment = 0
  /\ b.for.boundary >= b.for.size /\ b.for.boundary > 0 => ~Across(b)

Apart(b, c) == b.at + b.for.size <= c.at \/ c.at + c.for.size <= b.at

Separate(p) ==
  /\ \A b \in p.blocks : WellPlaced(p, b)
  /\ \A b, c \in p.blocks : b # c => Apart(b, c)
=============================================================================

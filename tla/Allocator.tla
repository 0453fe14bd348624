------------------------------ MODULE Allocator ------------------------------
(***************************************************************************)
(* The block allocator of memory/allocator.c: one region of num blocks of  *)
(* BlockSize bytes, and a ring with the offsets of the free blocks.        *)
(* Addresses and offsets are numbers.                                      *)
(*                                                                         *)
(* A get from an allocator with no free block grows it.  The growth loses  *)
(* what the pool promises: realloc may move the region under the pointers  *)
(* that clients hold, it makes room for 2*num blocks although 3*num offsets*)
(* are then in use, and the new offsets start at num and not at            *)
(* num * BlockSize.                                                        *)
(* The client here (TidySpec) puts back only blocks that it holds, and     *)
(* never holds more than num of them; that of PutTwice does neither.       *)
(***************************************************************************)
EXTENDS RingOps, FiniteSets, Functions

CONSTANTS
  BlockSize,  \* bytes in a block
  Nums,       \* the numbers of blocks clients ask for
  Bases,      \* the addresses at which the C library can place a region
  MaxNum,     \* growth is explored from allocators of at most this many blocks
  NoBlock     \* the answer of a call that returns nothing

ASSUME BlockSizeAssumption == BlockSize \in Nat \ {0}

ASSUME NumsAssumption ==
  /\ Nums \subseteq Nat \ {0}
  /\ \A n \in Nums : SlotsFor(n) # 0

(* The null pointer is address 0. *)
ASSUME BasesAssumption == Bases \subseteq Nat \ {0}

(* The items of the ring are offsets. *)
ASSUME OffsetsAssumption ==
  \A n \in Nums : \A i \in 0 .. n - 1 : i * BlockSize \in Items

VARIABLES
  phase,  \* "none", "open", or the loop of pushes that a call is in
  base,
  num,
  ring,
  left,   \* the pushes left to do in that loop
  lent,   \* the pointers that the client got and has not put back
  got     \* the last pointer returned, or "reported" when put complains

vars == <<phase, base, num, ring, left, lent, got>>

Nowhere == 0

Init ==
  /\ phase = "none"
  /\ base = Nowhere
  /\ num = 0
  /\ ring = ZeroRing
  /\ left = 0
  /\ lent = {}
  /\ got = NoBlock

(* A create whose struct, region or ring cannot be allocated returns -1.   *)
(* What it allocated by then is left in *allocator, which the client drops.*)
CreateFails ==
  /\ phase = "none"
  /\ got' = NoBlock
  /\ UNCHANGED <<phase, base, num, ring, left, lent>>

Create(n, b) ==
  /\ phase = "none"
  /\ Allocates(SlotsFor(n), TRUE)
  /\ phase' = "creating"
  /\ base' = b
  /\ num' = n
  /\ ring' = NewRing(n)
  /\ left' = n
  /\ UNCHANGED <<lent, got>>

(* Mutant of NextOffset: blocks are counted and not bytes. *)
NextBlock == IF phase = "creating" THEN num - left ELSE num + (2 * num - left)

(* One push of the loop in allocator_create or in allocator_realloc, which *)
(* was called with 2*num.  The results of the pushes are ignored.          *)
NextOffset == IF phase = "creating" THEN (num - left) * BlockSize
                                    ELSE num + (2 * num - left) * BlockSize

Fill(ok) ==
  /\ phase \in {"creating", "growing"}
  /\ left > 0
  /\ PushDefined(ring, ok)
  /\ ring' = ring_push(ring, NextOffset, ok).ring
  /\ left' = left - 1
  /\ UNCHANGED <<phase, base, num, lent, got>>

Created ==
  /\ phase = "creating"
  /\ left = 0
  /\ phase' = "open"
  /\ UNCHANGED <<base, num, ring, left, lent, got>>

(* The pointer to the block at an offset; what a slot of the ring holds    *)
(* that no push has written points nowhere in particular.                  *)
Pointer(offset) == IF offset = Unset THEN Unset ELSE base + offset

(* The ring_pull of get_memory.  One that reads outside the ring's array,  *)
(* or finds no item and leaves offset unset, is undefined.                 *)
Lend ==
  /\ ring.size > 0
  /\ PullDefined(ring)
  /\ ring' = ring_pull(ring)
  /\ lent' = lent \cup {Pointer(Oldest(ring))}
  /\ got' = Pointer(Oldest(ring))

(* get_memory.  When the ring is empty it calls allocator_realloc, whose   *)
(* realloc puts the region at b, or fails after base was overwritten.      *)
GetMemory(b, ok) ==
  /\ phase = "open"
  /\ IF ~ ring_empty(ring)
     THEN Lend /\ UNCHANGED <<phase, base, num, left>>
     ELSE IF ok
     THEN /\ num <= MaxNum
          /\ phase' = "growing"
          /\ base' = b
          /\ left' = 2 * num
          /\ UNCHANGED <<num, ring, lent, got>>
     ELSE /\ base' = Nowhere
          /\ got' = Nowhere
          /\ UNCHANGED <<phase, num, ring, left, lent>>

(* The end of allocator_realloc(allocator, 2*num) and of its get_memory. *)
Grew ==
  /\ phase = "growing"
  /\ left = 0
  /\ phase' = "open"
  /\ num' = num + 2 * num
  /\ Lend
  /\ UNCHANGED <<base, left>>

PutMemory(p, ok) ==
  /\ phase = "open"
  /\ PushDefined(ring, ok)
  /\ ring' = ring_push(ring, p - base, ok).ring
  /\ got' = IF ring_push(ring, p - base, ok).err = -1 THEN "reported" ELSE NoBlock
  /\ lent' = lent \ {p}
  /\ UNCHANGED <<phase, base, num, left>>

Delete ==
  /\ phase = "open"
  /\ phase' = "none"
  /\ base' = Nowhere
  /\ num' = 0
  /\ ring' = ZeroRing
  /\ lent' = {}
  /\ got' = NoBlock
  /\ UNCHANGED left

-----------------------------------------------------------------------------

(* The pointers to the blocks whose offsets are in the ring. *)
FreeList ==
  IF phase = "open" /\ Usable(ring)
  THEN [i \in 1 .. ring.size |-> Pointer(Contents(ring)[i])]
  ELSE <<>>

Free == {FreeList[i] : i \in DOMAIN FreeList}

Step ==
  \/ CreateFails
  \/ \E n \in Nums, b \in Bases : Create(n, b)
  \/ \E ok \in BOOLEAN : Fill(ok)
  \/ Created
  \/ Delete

(* RegionStays shows that no get of a tidy client starts to grow. *)
TidyNext ==
  \/ Step
  \/ Cardinality(lent) < num /\ \E b \in Bases, ok \in BOOLEAN : GetMemory(b, ok)
  \/ \E p \in lent, ok \in BOOLEAN : PutMemory(p, ok)

TidySpec == Init /\ [][TidyNext]_vars

-----------------------------------------------------------------------------
Abstract == INSTANCE Pool WITH free <- FreeList

(* The values of the variables. *)
TypeOK ==
  /\ phase \in {"none", "creating", "open", "growing"}
  /\ base \in Bases \cup {Nowhere}
  /\ num \in Nat
  /\ WellFormed(ring)
  /\ left \in 0 .. 2 * num
  /\ IsFiniteSet(lent)

(* The blocks of the region. *)
Blocks == {base + i * BlockSize : i \in 0 .. num - 1}

(* No block is lost and none is lent twice: every block of the region is   *)
(* either held by the client or in the ring, once.                         *)
Conservation ==
  phase = "open" =>
    /\ lent \cup Free = Blocks
    /\ lent \cap Free = {}
    /\ IsInjective(FreeList)

(* A get by a client that holds fewer than num blocks finds one in the     *)
(* ring: nothing moves the region under the pointers that the client holds *)
(* and no get returns null.                                                *)
RegionStays == [][phase = "open" => base' = base \/ phase' = "none"]_vars

(* Blocks are lent to one holder at a time, the longest free one first.    *)
IsPool == Abstract!Spec
=============================================================================

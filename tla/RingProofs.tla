----------------------------- MODULE RingProofs -----------------------------
(***************************************************************************)
(* Theorems about container/ring for every number of items, sizes and      *)
(* slots: the first two about any client, the others about a client that   *)
(* drops a ring whose growth failed and does not push when the ring is     *)
(* full with its tail in the last slot.                                    *)
(***************************************************************************)
EXTENDS Ring, RingOpsProofs

-----------------------------------------------------------------------------
(* Whatever calls are made and whichever allocations fail, the ring is     *)
(* well formed and its indices stay inside its array.                      *)

Inv == TypeOK /\ IndicesInBounds

LEMMA InvIsRing == Inv <=> open \in BOOLEAN /\ IsRing(ring)
BY DEF Inv, TypeOK, IndicesInBounds, IsRing

LEMMA InitInv == Init => Inv
BY InvIsRing, ZeroRingIsRing DEF Init

LEMMA NextInv == Inv /\ [Next]_vars => Inv'
<1> SUFFICES ASSUME open \in BOOLEAN, IsRing(ring), [Next]_vars
             PROVE  open' \in BOOLEAN /\ IsRing(ring')
  BY InvIsRing DEF Inv, TypeOK, IndicesInBounds, IsRing
<1>1. CASE CreateNoRing
  BY <1>1 DEF CreateNoRing
<1>2. ASSUME NEW n \in Sizes, NEW ok \in BOOLEAN, Create(n, ok)
      PROVE  open' \in BOOLEAN /\ IsRing(ring')
  BY <1>2, ZeroRingIsRing, NewRingIsRing, SizesAssumption DEF Create
<1>3. ASSUME NEW n \in Sizes, NEW ok \in BOOLEAN, Realloc(n, ok)
      PROVE  open' \in BOOLEAN /\ IsRing(ring')
  BY <1>3, ReallocIsRing, SizesAssumption DEF Realloc
<1>4. ASSUME NEW v \in Items, NEW ok \in BOOLEAN, Push(v, ok)
      PROVE  open' \in BOOLEAN /\ IsRing(ring')
  BY <1>4, PushIsRing DEF Push
<1>5. CASE Pull
  <2>1. ring.size \in Nat
    BY RingParts
  <2> QED
    BY <1>5, <2>1, PullIsRing DEF Pull
<1>6. CASE Empty
  BY <1>6 DEF Empty
<1>7. CASE Full
  BY <1>7 DEF Full
<1>8. CASE Delete
  BY <1>8, ZeroRingIsRing DEF Delete
<1>9. CASE UNCHANGED vars
  BY <1>9 DEF vars
<1> QED
  BY <1>1, <1>2, <1>3, <1>4, <1>5, <1>6, <1>7, <1>8, <1>9 DEF Next

(* The struct keeps its shape: data is NULL or has exactly capc + 1 slots. *)
THEOREM RingTypeOK == Spec => []TypeOK
<1>1. Inv => TypeOK
  BY DEF Inv
<1> QED
  BY <1>1, InitInv, NextInv, PTL DEF Spec

(* No call reads or writes outside the data array.                         *)
THEOREM RingIndicesInBounds == Spec => []IndicesInBounds
<1>1. Inv => IndicesInBounds
  BY DEF Inv
<1> QED
  BY <1>1, InitInv, NextInv, PTL DEF Spec

-----------------------------------------------------------------------------
(* The invariant of FifoClientSpec: a usable ring is a queue.              *)

QInv ==
  /\ open \in BOOLEAN
  /\ IsRing(ring)
  /\ Usable(ring) => open /\ IsQueue(ring)

LEMMA InitQInv == Init => QInv /\ Abstract!Init
<1> SUFFICES ASSUME Init
             PROVE  QInv /\ Abstract!Init
  OBVIOUS
<1>1. ~ Usable(ring)
  BY DEF Init, ZeroRing, Struct, Usable
<1> QED
  BY <1>1, ZeroRingIsRing DEF Init, QInv, Abstract!Init, Answer, Abstract!Answer

(* Each call of the client does to the queue what Fifo says.               *)
LEMMA NextQInv ==
  ASSUME QInv, [FifoClientNext]_vars
  PROVE  QInv' /\ [Abstract!Next]_(Abstract!vars)
<1> USE DEF Answer, Abstract!Answer
<1>1. CASE CreateNoRing
  <2>1. ~ Usable(ring) /\ ~ Usable(ring')
    BY <1>1 DEF CreateNoRing, QInv, Usable
  <2> QED
    BY <1>1, <2>1 DEF CreateNoRing, QInv, Abstract!Next, Abstract!Failed
<1>2. ASSUME NEW n \in Sizes, NEW ok \in BOOLEAN, Create(n, ok)
      PROVE  QInv' /\ [Abstract!Next]_(Abstract!vars)
  <2>1. CASE Allocates(SlotsFor(n), ok)
    <3>1. /\ ring' = NewRing(n) /\ open' = TRUE
          /\ ret' = Answer("create", 0, NoItem)
      BY <1>2, <2>1 DEF Create
    <3>2. IsQueue(ring') /\ Contents(ring') = <<>> /\ IsRing(ring')
      BY <3>1, NewRingIsQueue, SizesAssumption DEF IsQueue
    <3>3. QInv'
      BY <3>1, <3>2 DEF QInv
    <3> QED
      BY <3>1, <3>2, <3>3 DEF Abstract!Next, Abstract!Fresh
  <2>2. CASE ~ Allocates(SlotsFor(n), ok)
    <3>1. /\ ring' = ZeroRing /\ open' = TRUE
          /\ ret' = Answer("create", -1, NoItem)
      BY <1>2, <2>2 DEF Create
    <3>2. ~ Usable(ring')
      BY <3>1 DEF Usable, ZeroRing, Struct
    <3>3. QInv'
      BY <3>1, <3>2, ZeroRingIsRing DEF QInv
    <3> QED
      BY <3>1, <3>2, <3>3 DEF Abstract!Next, Abstract!Failed
  <2> QED
    BY <2>1, <2>2
<1>3. ASSUME Usable(ring), NEW n \in Sizes, NEW ok \in BOOLEAN, Realloc(n, ok)
      PROVE  QInv' /\ [Abstract!Next]_(Abstract!vars)
  <2>1. n \in Nat /\ IsQueue(ring) /\ IsRing(ring)
    BY <1>3, SizesAssumption DEF QInv
  <2>2. /\ open' = open /\ open = TRUE
        /\ ring' = ring_realloc(ring, n, ok).ring
        /\ ret' = Answer("realloc", ring_realloc(ring, n, ok).err, NoItem)
    BY <1>3 DEF Realloc, QInv
  <2>3. CASE ring_realloc(ring, n, ok).err = 0
    <3>1. IsQueue(ring') /\ Contents(ring') = Contents(ring)
      BY <2>1, <2>2, <2>3, ReallocIsQueue
    <3>2. QInv' /\ Usable(ring')
      BY <2>2, <3>1 DEF QInv, IsQueue, Usable
    <3> QED
      BY <1>3, <2>2, <2>3, <3>1, <3>2 DEF Abstract!Next, Abstract!Resize
  <2>4. CASE ring_realloc(ring, n, ok).err # 0
    <3>1. ring'.data = NULL /\ ring_realloc(ring, n, ok).err = -1
      BY <2>1, <2>2, <2>4, ReallocIsQueue
    <3>2. QInv' /\ ~ Usable(ring')
      BY <2>1, <2>2, <3>1, ReallocIsRing DEF QInv, Usable
    <3> QED
      BY <2>2, <3>1, <3>2 DEF Abstract!Next, Abstract!Failed
  <2> QED
    BY <2>3, <2>4
<1>4. ASSUME Usable(ring), ~ FullAtEnd, NEW v \in Items, NEW ok \in BOOLEAN, Push(v, ok)
      PROVE  QInv' /\ [Abstract!Next]_(Abstract!vars)
  <2>1. IsQueue(ring) /\ IsRing(ring) /\ ~ (ring.tail = ring.capc /\ ring.head = 0)
    BY <1>4 DEF QInv, FullAtEnd
  <2>2. /\ open' = open /\ open = TRUE
        /\ PushDefined(ring, ok)
        /\ ring' = ring_push(ring, v, ok).ring
        /\ ret' = Answer("push", ring_push(ring, v, ok).err, NoItem)
    BY <1>4 DEF Push, QInv
  <2>3. CASE ring_push(ring, v, ok).err = 0
    <3>1. IsQueue(ring') /\ Contents(ring') = Append(Contents(ring), v)
      BY <2>1, <2>2, <2>3, PushIsQueue
    <3>2. QInv' /\ Usable(ring')
      BY <2>2, <3>1 DEF QInv, IsQueue, Usable
    <3> QED
      BY <1>4, <2>2, <2>3, <3>1, <3>2 DEF Abstract!Next, Abstract!Push
  <2>4. CASE ring_push(ring, v, ok).err # 0
    <3>1. ring'.data = NULL /\ ring_push(ring, v, ok).err = -1
      BY <2>1, <2>2, <2>4, PushIsQueue
    <3>2. QInv' /\ ~ Usable(ring')
      BY <2>1, <2>2, <3>1, PushIsRing DEF QInv, Usable
    <3> QED
      BY <2>2, <3>1, <3>2 DEF Abstract!Next, Abstract!Failed
  <2> QED
    BY <2>3, <2>4
<1>5. CASE Usable(ring) /\ Pull
  <2>1. IsQueue(ring) /\ IsRing(ring) /\ open = TRUE /\ open' = open
    BY <1>5 DEF QInv, Pull
  <2>2. CASE ring.size <= 0
    <3>1. ring' = ring /\ ret' = Answer("pull", -1, NoItem)
      BY <1>5, <2>2 DEF Pull
    <3>2. ring.size = 0
      BY <2>1, <2>2, QueueParts
    <3>3. Contents(ring) = <<>>
      BY <2>1, <3>2, QueueParts
    <3>4. QInv' /\ Usable(ring')
      BY <1>5, <2>1, <3>1 DEF QInv, Usable
    <3> QED
      BY <1>5, <3>1, <3>3, <3>4 DEF Abstract!Next, Abstract!PullNothing
  <2>3. CASE ~ (ring.size <= 0)
    <3>1. ring' = ring_pull(ring) /\ ret' = Answer("pull", 0, Oldest(ring))
      BY <1>5, <2>3 DEF Pull
    <3>2. ring.size > 0
      BY <2>1, <2>3, QueueParts
    <3>3. /\ Contents(ring) # <<>>
          /\ Oldest(ring) = Head(Contents(ring))
          /\ IsQueue(ring')
          /\ Contents(ring') = Tail(Contents(ring))
      BY <2>1, <3>1, <3>2, PullIsQueue
    <3>4. QInv' /\ Usable(ring')
      BY <2>1, <3>3 DEF QInv, IsQueue, Usable
    <3> QED
      BY <1>5, <3>1, <3>3, <3>4 DEF Abstract!Next, Abstract!Pull
  <2> QED
    BY <2>2, <2>3
<1>6. CASE Usable(ring) /\ Empty
  <2>1. /\ ring' = ring /\ open' = open
        /\ ret' = Answer("empty", 0, ring_empty(ring))
    BY <1>6 DEF Empty
  <2>2. IsQueue(ring) /\ QInv' /\ Usable(ring')
    BY <1>6, <2>1 DEF QInv, Usable
  <2>3. ring_empty(ring) = (Contents(ring) = <<>>)
    BY <2>2, QueueParts DEF ring_empty
  <2> QED
    BY <1>6, <2>1, <2>2, <2>3 DEF Abstract!Next, Abstract!Empty
<1>7. CASE Usable(ring) /\ Full
  <2>1. /\ ring' = ring /\ open' = open
        /\ ret' = Answer("full", 0, ring_full(ring))
    BY <1>7 DEF Full
  <2>2. QInv' /\ Usable(ring')
    BY <1>7, <2>1 DEF QInv, Usable
  <2>3. ring_full(ring) \in BOOLEAN
    BY DEF ring_full
  <2> QED
    BY <1>7, <2>1, <2>2, <2>3 DEF Abstract!Next, Abstract!Full
<1>8. CASE Delete
  <2>1. ~ Usable(ring')
    BY <1>8 DEF Delete, Usable, ZeroRing, Struct
  <2>2. QInv'
    BY <1>8, <2>1, ZeroRingIsRing DEF Delete, QInv
  <2> QED
    BY <1>8, <2>1, <2>2 DEF Delete, Abstract!Next, Abstract!Fresh
<1>9. CASE UNCHANGED vars
  BY <1>9 DEF vars, QInv, Usable, Abstract!vars
<1> QED
  BY <1>1, <1>2, <1>3, <1>4, <1>5, <1>6, <1>7, <1>8, <1>9 DEF FifoClientNext

LEMMA QInvMeans == QInv => CountsAgree /\ NoUnsetItem
<1> SUFFICES ASSUME QInv, Usable(ring)
             PROVE  /\ ring.size = Span(ring)
                    /\ \A i \in 1 .. ring.size : ring.data[SlotOf(ring, i)] # Unset
  BY DEF CountsAgree, NoUnsetItem
<1>1. IsQueue(ring)
  BY DEF QInv
<1>2. \A i \in 1 .. ring.size : ring.data[SlotOf(ring, i)] \in Items
  BY <1>1, QueueParts
<1> QED
  BY <1>1, <1>2, ItemsAssumption DEF IsQueue

(* The counter that ring_pull tests and the indices that ring_empty and    *)
(* ring_full compare never disagree, through any growth and wrap.          *)
THEOREM RingCountsAgree == FifoClientSpec => []CountsAgree
<1>1. QInv /\ [FifoClientNext]_vars => QInv'
  BY NextQInv
<1> QED
  BY <1>1, InitQInv, QInvMeans, PTL DEF FifoClientSpec

(* A pull never returns a slot that no push has written.                   *)
THEOREM RingNoUnsetItem == FifoClientSpec => []NoUnsetItem
<1>1. QInv /\ [FifoClientNext]_vars => QInv'
  BY NextQInv
<1> QED
  BY <1>1, InitQInv, QInvMeans, PTL DEF FifoClientSpec

(* A ring implements the unbounded queue: every call has the effect and    *)
(* the answer of an operation of Fifo.                                     *)
THEOREM RingIsFifo == FifoClientSpec => IsFifo
<1>1. QInv /\ [FifoClientNext]_vars => QInv' /\ [Abstract!Next]_(Abstract!vars)
  BY NextQInv
<1> QED
  BY <1>1, InitQInv, PTL DEF FifoClientSpec, IsFifo, Abstract!Spec
=============================================================================

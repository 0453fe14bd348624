--------------------------- MODULE AllocatorProofs ---------------------------
(***************************************************************************)
(* Theorems about memory/allocator.c used by a tidy client, for blocks of  *)
(* any size, regions of any number of blocks at any address, and any bound *)
(* on allocations.                                                         *)
(***************************************************************************)
EXTENDS Allocator, RingOpsProofs, DataLemmas

-----------------------------------------------------------------------------
(* Offsets and pointers. *)

LEMMA OffsetsDiffer ==
  ASSUME NEW i \in Int, NEW j \in Int, i * BlockSize = j * BlockSize
  PROVE  i = j
<1> DEFINE s == BlockSize
<1>1. s \in Nat \ {0}
  BY BlockSizeAssumption
<1> HIDE DEF s
<1>2. (i - j) * s = 0
  BY <1>1 DEF s
<1>3. i - j = 0
  BY <1>1, <1>2
<1> QED
  BY <1>3

LEMMA OffsetIsNat ==
  ASSUME NEW i \in Nat
  PROVE  i * BlockSize \in Nat
BY BlockSizeAssumption

(* The pointers to blocks at offsets. *)
Pointers(b, s) == [i \in DOMAIN s |-> b + s[i]]

LEMMA PointersOfQueue ==
  ASSUME NEW b \in Nat, NEW S \in SUBSET Nat, NEW s \in Seq(S)
  PROVE  /\ Pointers(b, s) \in Seq(Nat)
         /\ Len(Pointers(b, s)) = Len(s)
         /\ s # <<>> <=> Pointers(b, s) # <<>>
         /\ s # <<>> => /\ Head(Pointers(b, s)) = b + Head(s)
                        /\ Tail(Pointers(b, s)) = Pointers(b, Tail(s))
         /\ \A o \in S : Append(Pointers(b, s), b + o) = Pointers(b, Append(s, o))
<1> DEFINE p == Pointers(b, s)
<1>1. /\ Len(s) \in Nat /\ DOMAIN s = 1 .. Len(s)
      /\ \A i \in 1 .. Len(s) : s[i] \in Nat
  BY LenProperties, ElementOfSeq
<1>2. /\ DOMAIN p = 1 .. Len(s)
      /\ \A i \in 1 .. Len(s) : p[i] = b + s[i]
  BY <1>1 DEF Pointers
<1>3. p = [i \in 1 .. Len(s) |-> b + s[i]]
  BY <1>1 DEF Pointers
<1>4. \A i \in 1 .. Len(s) : b + s[i] \in Nat
  BY <1>1
<1>5. p \in Seq(Nat) /\ Len(p) = Len(s)
  BY <1>1, <1>3, <1>4
<1> HIDE DEF p
<1>6. s # <<>> <=> p # <<>>
  BY <1>5, EmptySeq
<1>7. ASSUME s # <<>>
      PROVE  Head(p) = b + Head(s) /\ Tail(p) = Pointers(b, Tail(s))
  <2>1. Len(s) > 0 /\ Head(s) = s[1] /\ Head(p) = p[1]
    BY <1>1, <1>6, <1>7, EmptySeq
  <2>2. Head(p) = b + Head(s)
    BY <1>1, <1>2, <2>1
  <2>3. /\ Tail(s) \in Seq(S) /\ Len(Tail(s)) = Len(s) - 1 /\ DOMAIN Tail(s) = 1 .. Len(s) - 1
        /\ \A i \in 1 .. Len(s) - 1 : Tail(s)[i] = s[i + 1]
    BY <1>7, HeadTailProperties, LenProperties
  <2>4. /\ Tail(p) \in Seq(Nat) /\ Len(Tail(p)) = Len(s) - 1
        /\ \A i \in 1 .. Len(s) - 1 : Tail(p)[i] = p[i + 1]
    BY <1>5, <1>6, <1>7, HeadTailProperties
  <2> DEFINE t == Tail(p)
  <2>5. DOMAIN t = 1 .. Len(s) - 1 /\ t = [i \in 1 .. Len(s) - 1 |-> t[i]]
    BY <2>4, LenProperties
  <2>6. \A i \in 1 .. Len(s) - 1 : t[i] = b + Tail(s)[i]
    BY <1>1, <1>2, <2>3, <2>4
  <2>7. t = [i \in 1 .. Len(s) - 1 |-> b + Tail(s)[i]]
    BY <2>5, <2>6
  <2> QED
    BY <2>2, <2>3, <2>7 DEF Pointers
<1>8. ASSUME NEW o \in S
      PROVE  Append(p, b + o) = Pointers(b, Append(s, o))
  <2> DEFINE a == Append(p, b + o)
             c == Append(s, o)
  <2>1. b + o \in Nat
    OBVIOUS
  <2>2. /\ a \in Seq(Nat) /\ Len(a) = Len(s) + 1
        /\ \A i \in 1 .. Len(s) : a[i] = p[i]
        /\ a[Len(s) + 1] = b + o
    BY <1>5, <2>1, AppendProperties
  <2>3. /\ DOMAIN c = 1 .. Len(s) + 1
        /\ \A i \in 1 .. Len(s) : c[i] = s[i]
        /\ c[Len(s) + 1] = o
    BY AppendProperties, LenProperties
  <2>4. DOMAIN a = 1 .. Len(s) + 1
    BY <2>2, LenProperties
  <2>5. a = [i \in 1 .. Len(s) + 1 |-> a[i]]
    BY <2>2, <2>4
  <2> HIDE DEF a, c
  <2>6. \A i \in 1 .. Len(s) + 1 : a[i] = b + c[i]
    <3> TAKE i \in 1 .. Len(s) + 1
    <3>1. CASE i \in 1 .. Len(s)
      BY <1>2, <2>2, <2>3, <3>1
    <3>2. CASE i = Len(s) + 1
      BY <2>2, <2>3, <3>2
    <3> QED
      BY <1>1, <3>1, <3>2
  <2>7. a = Pointers(b, c)
    BY <2>3, <2>5, <2>6 DEF Pointers
  <2> QED
    BY <2>7 DEF a, c
<1> QED
  BY <1>5, <1>6, <1>7, <1>8 DEF p
-----------------------------------------------------------------------------
(* A push onto a ring with a free slot beside the one kept empty. *)
LEMMA PushWithRoom ==
  ASSUME NEW r, IsQueue(r), r.size < r.capc, NEW v \in Items, NEW ok \in BOOLEAN
  PROVE  /\ ring_push(r, v, ok).err = 0
         /\ IsQueue(ring_push(r, v, ok).ring)
         /\ ring_push(r, v, ok).ring.capc = r.capc
         /\ ring_push(r, v, ok).ring.size = r.size + 1
         /\ Contents(ring_push(r, v, ok).ring) = Append(Contents(r), v)
<1>1. /\ r.capc \in Nat /\ r.head \in 0 .. r.capc /\ r.tail \in 0 .. r.capc
      /\ r.size = Span(r)
  BY QueueParts DEF IsQueue
<1>2. NextTail(r) = IF r.tail = r.capc THEN 0 ELSE r.tail + 1
  BY <1>1, MaskedNext DEF NextTail
<1>3. NextTail(r) # r.head
  BY <1>1, <1>2 DEF Span
<1>4. Grown(r, ok) = [ring |-> r, err |-> 0]
  BY <1>3 DEF Grown
<1>5. ring_push(r, v, ok) = [ring |-> Stored(r, r.tail, v, NextTail(r)), err |-> 0]
  BY <1>4 DEF ring_push
<1>6. /\ Stored(r, r.tail, v, NextTail(r)).capc = r.capc
      /\ Stored(r, r.tail, v, NextTail(r)).size = r.size + 1
  BY DEF Stored, Struct
<1>7. /\ IsQueue(Stored(r, r.tail, v, NextTail(r)))
      /\ Contents(Stored(r, r.tail, v, NextTail(r))) = Append(Contents(r), v)
  BY <1>2, <1>3, StoredIsQueue
<1> QED
  BY <1>5, <1>6, <1>7

(* The ring of a new allocator has a slot for each block and one to spare. *)
LEMMA NewRingHasRoom ==
  ASSUME NEW n \in Nums
  PROVE  /\ n \in Nat /\ n > 0
         /\ IsQueue(NewRing(n)) /\ Contents(NewRing(n)) = <<>>
         /\ NewRing(n).size = 0
         /\ n <= NewRing(n).capc
<1>1. n \in Nat \ {0} /\ SlotsFor(n) # 0
  BY NumsAssumption
<1>2. SlotsFor(n) = next_power(n + 1)
  BY <1>1 DEF SlotsFor
<1> DEFINE m == SlotsFor(n)
<1>3. m \in Nat /\ m >= n + 1
  <2>1. n + 1 \in Nat
    BY <1>1
  <2>2. m \in Powers /\ m >= n + 1
    BY <1>1, <1>2, <2>1, NextPowerCovers
  <2> QED
    BY <2>2, PowersAssumption
<1>4. NewRing(n).size = 0 /\ NewRing(n).capc = m - 1
  BY DEF NewRing, Struct
<1>5. IsQueue(NewRing(n)) /\ Contents(NewRing(n)) = <<>>
  BY <1>1, NewRingIsQueue
<1> HIDE DEF m
<1> QED
  BY <1>1, <1>3, <1>4, <1>5

-----------------------------------------------------------------------------
(* The invariant of TidySpec.  No call is ever in the loop that grows the  *)
(* allocator, and the ring has a slot for every block: a push cannot grow  *)
(* it, so a tidy client's put neither fails nor meets a full ring.         *)

(* The offsets of the first k blocks, in the order allocator_create pushes *)
(* them.                                                                   *)
FirstOffsets(k) == [i \in 1 .. k |-> (i - 1) * BlockSize]

Offsets == {i * BlockSize : i \in 0 .. num - 1}

NothingOpen ==
  /\ phase = "none" /\ base = Nowhere /\ num = 0 /\ left = 0
  /\ ring = ZeroRing /\ lent = {} /\ got = NoBlock

RegionAndRing ==
  /\ num \in Nums /\ base \in Bases
  /\ IsQueue(ring) /\ num <= ring.capc

Creating ==
  /\ phase = "creating" /\ RegionAndRing
  /\ left \in 0 .. num /\ ring.size = num - left
  /\ Contents(ring) = FirstOffsets(num - left)
  /\ lent = {} /\ got = NoBlock

Open ==
  /\ phase = "open" /\ RegionAndRing
  /\ left = 0
  /\ IsFiniteSet(lent) /\ Cardinality(lent) + ring.size = num
  /\ Contents(ring) \in Seq(Offsets)
  /\ lent \cup Free = Blocks
  /\ lent \cap Free = {}
  /\ IsInjective(FreeList)

TidyInv == NothingOpen \/ Creating \/ Open

-----------------------------------------------------------------------------
LEMMA RegionParts ==
  ASSUME num \in Nums, base \in Bases
  PROVE  /\ num \in Nat /\ num > 0 /\ base \in Nat
         /\ Offsets \subseteq Nat /\ Offsets \subseteq Items
         /\ Blocks = {base + o : o \in Offsets}
<1>1. num \in Nat /\ num > 0 /\ base \in Nat
  BY NumsAssumption, BasesAssumption
<1>2. Offsets \subseteq Nat /\ Offsets \subseteq Items
  <2> SUFFICES ASSUME NEW i \in 0 .. num - 1
               PROVE  i * BlockSize \in Nat /\ i * BlockSize \in Items
    BY DEF Offsets
  <2> QED
    BY <1>1, OffsetIsNat, OffsetsAssumption
<1>3. Blocks = {base + o : o \in Offsets}
  BY DEF Blocks, Offsets
<1> QED
  BY <1>1, <1>2, <1>3

(* The free list of an allocator is its ring seen as pointers. *)
LEMMA FreeListOfRing ==
  ASSUME phase = "open", IsQueue(ring)
  PROVE  FreeList = Pointers(base, Contents(ring))
<1>1. DOMAIN Contents(ring) = 1 .. ring.size /\ \A i \in 1 .. ring.size : Contents(ring)[i] # Unset
  BY QueueParts, ItemsAssumption
<1> QED
  BY <1>1 DEF FreeList, Pointers, Pointer, Usable, IsQueue

LEMMA FreeListPrimed ==
  ASSUME phase' = "open", IsQueue(ring')
  PROVE  FreeList' = Pointers(base', Contents(ring'))
<1>1. DOMAIN Contents(ring') = 1 .. ring'.size /\ \A i \in 1 .. ring'.size : Contents(ring')[i] # Unset
  BY QueueParts, ItemsAssumption
<1> QED
  BY <1>1 DEF FreeList, Pointers, Pointer, Usable, IsQueue

LEMMA FreeIsElements == Free = Elements(FreeList) /\ Free' = Elements(FreeList')
BY DEF Free, Elements

(* The free list of an allocator that is not open is empty. *)
LEMMA NoFreeList ==
  /\ phase # "open" => FreeList = <<>>
  /\ phase' # "open" => FreeList' = <<>>
BY DEF FreeList

-----------------------------------------------------------------------------
LEMMA InitTidy == Init => TidyInv /\ Abstract!Init
<1> SUFFICES ASSUME Init
             PROVE  TidyInv /\ Abstract!Init
  OBVIOUS
<1>1. NothingOpen
  BY DEF Init, NothingOpen
<1>2. FreeList = <<>>
  BY NoFreeList DEF Init
<1> QED
  BY <1>1, <1>2 DEF TidyInv, Init, Abstract!Init

(* What a step does to the pool. *)
PoolStep == [Abstract!Next]_(Abstract!vars)

LEMMA CreateFailsTidy == ASSUME TidyInv, CreateFails PROVE TidyInv' /\ PoolStep
<1>1. NothingOpen
  BY DEF CreateFails, TidyInv, Creating, Open
<1>2. NothingOpen'
  BY <1>1 DEF CreateFails, NothingOpen
<1>3. FreeList = <<>> /\ FreeList' = <<>> /\ lent' = lent /\ got' = got
  BY <1>1, <1>2, NoFreeList DEF NothingOpen
<1> QED
  BY <1>2, <1>3 DEF TidyInv, PoolStep, Abstract!vars

LEMMA CreateTidy ==
  ASSUME TidyInv, NEW n \in Nums, NEW b \in Bases, Create(n, b)
  PROVE  TidyInv' /\ PoolStep
<1>1. NothingOpen
  BY DEF Create, TidyInv, Creating, Open
<1>2. /\ phase' = "creating" /\ base' = b /\ num' = n /\ ring' = NewRing(n) /\ left' = n
      /\ lent' = {} /\ got' = NoBlock
  BY <1>1 DEF Create, NothingOpen
<1>3. /\ IsQueue(NewRing(n)) /\ Contents(NewRing(n)) = <<>>
      /\ NewRing(n).size = 0 /\ n <= NewRing(n).capc /\ n \in Nat
  BY NewRingHasRoom
<1>4. FirstOffsets(n - n) = <<>>
  BY <1>3 DEF FirstOffsets
<1>5. n \in 0 .. n /\ n - n = 0
  BY <1>3
<1>6. Creating'
  BY <1>2, <1>3, <1>4, <1>5 DEF Creating, RegionAndRing
<1>7. FreeList = <<>> /\ FreeList' = <<>> /\ lent' = lent /\ got' = got
  BY <1>1, <1>2, NoFreeList DEF NothingOpen
<1> QED
  BY <1>6, <1>7 DEF TidyInv, PoolStep, Abstract!vars

(* One more push of the loop puts the offset of one more block behind the  *)
(* others.                                                                 *)
LEMMA FirstOffsetsNext ==
  ASSUME NEW k \in Nat
  PROVE  FirstOffsets(k + 1) = Append(FirstOffsets(k), k * BlockSize)
<1> DEFINE s == FirstOffsets(k)
           a == Append(s, k * BlockSize)
           f == FirstOffsets(k + 1)
<1>1. /\ DOMAIN s = 1 .. k
      /\ \A i \in 1 .. k : s[i] = (i - 1) * BlockSize /\ s[i] \in Nat
  BY OffsetIsNat DEF FirstOffsets
<1>2. s \in Seq(Nat) /\ Len(s) = k
  <2>1. s = [i \in 1 .. k |-> s[i]]
    BY DEF FirstOffsets
  <2> HIDE DEF s
  <2> QED
    BY <1>1, <2>1
<1>3. /\ f = [i \in 1 .. k + 1 |-> f[i]]
      /\ \A i \in 1 .. k + 1 : f[i] = (i - 1) * BlockSize
  BY DEF FirstOffsets
<1>4. k * BlockSize \in Nat
  BY OffsetIsNat
<1> HIDE DEF s, f
<1>5. /\ a \in Seq(Nat) /\ Len(a) = k + 1
      /\ \A i \in 1 .. k : a[i] = s[i]
      /\ a[k + 1] = k * BlockSize
  BY <1>2, <1>4, AppendProperties
<1>6. a = [i \in 1 .. k + 1 |-> a[i]]
  <2>1. DOMAIN a = 1 .. k + 1
    BY <1>5, LenProperties
  <2> QED
    BY <1>5, <2>1
<1> HIDE DEF a
<1>7. \A i \in 1 .. k + 1 : a[i] = f[i]
  <2> TAKE i \in 1 .. k + 1
  <2>1. CASE i \in 1 .. k
    BY <1>1, <1>3, <1>5, <2>1
  <2>2. CASE i = k + 1
    <3>1. i - 1 = k
      BY <2>2
    <3> QED
      BY <1>3, <1>5, <2>2, <3>1
  <2> QED
    BY <2>1, <2>2
<1> QED
  BY <1>3, <1>6, <1>7 DEF a, f, s

LEMMA FillTidy ==
  ASSUME TidyInv, NEW ok \in BOOLEAN, Fill(ok)
  PROVE  TidyInv' /\ PoolStep
<1>1. Creating
  BY DEF Fill, TidyInv, NothingOpen, Open
<1>2. /\ num \in Nums /\ num \in Nat /\ left \in 0 .. num /\ left > 0
      /\ IsQueue(ring) /\ num <= ring.capc /\ ring.size = num - left
      /\ Contents(ring) = FirstOffsets(num - left)
      /\ ring.capc \in Nat
  BY <1>1, RegionParts, QueueParts DEF Creating, RegionAndRing, Fill
<1>3. NextOffset = (num - left) * BlockSize
  BY <1>1 DEF NextOffset, Creating
<1>4. (num - left) * BlockSize \in Items
  <2>1. num - left \in 0 .. num - 1
    BY <1>2
  <2> QED
    BY <1>2, <2>1, OffsetsAssumption
<1>5. ring.size < ring.capc
  BY <1>2
<1>6. ring' = ring_push(ring, (num - left) * BlockSize, ok).ring
  BY <1>3 DEF Fill
<1>7. /\ IsQueue(ring') /\ ring'.capc = ring.capc /\ ring'.size = ring.size + 1
      /\ Contents(ring') = Append(Contents(ring), (num - left) * BlockSize)
  BY <1>2, <1>4, <1>5, <1>6, PushWithRoom
<1>8. num - left \in Nat /\ (num - left) + 1 = num - (left - 1) /\ left - 1 \in 0 .. num
  BY <1>2
<1>9. Contents(ring') = FirstOffsets(num - (left - 1))
  BY <1>2, <1>7, <1>8, FirstOffsetsNext
<1>10. /\ phase' = "creating" /\ num' = num /\ base' = base /\ left' = left - 1
       /\ lent' = lent /\ got' = got
  BY <1>1 DEF Fill, Creating
<1>11. ring'.size = num - (left - 1)
  BY <1>2, <1>7
<1>12. Creating'
  BY <1>1, <1>2, <1>7, <1>8, <1>9, <1>10, <1>11 DEF Creating, RegionAndRing
<1>13. FreeList = <<>> /\ FreeList' = <<>>
  BY <1>1, <1>12, NoFreeList DEF Creating
<1> QED
  BY <1>10, <1>12, <1>13 DEF TidyInv, PoolStep, Abstract!vars

(* After the loop the ring has every block of the region, once. *)
LEMMA FirstOffsetsAreAll ==
  ASSUME num \in Nums, base \in Bases
  PROVE  /\ FirstOffsets(num) \in Seq(Offsets)
         /\ Elements(Pointers(base, FirstOffsets(num))) = Blocks
         /\ IsInjective(Pointers(base, FirstOffsets(num)))
<1> DEFINE s == FirstOffsets(num)
           p == Pointers(base, s)
<1>1. num \in Nat /\ num > 0 /\ base \in Nat
  BY RegionParts
<1>2. /\ s = [i \in 1 .. num |-> s[i]]
      /\ \A i \in 1 .. num : s[i] = (i - 1) * BlockSize
  BY DEF FirstOffsets
<1>3. \A i \in 1 .. num : s[i] \in Offsets
  <2> TAKE i \in 1 .. num
  <2>1. i - 1 \in 0 .. num - 1
    BY <1>1
  <2> QED
    BY <1>2, <2>1 DEF Offsets
<1> HIDE DEF s
<1>4. s \in Seq(Offsets)
  BY <1>1, <1>2, <1>3
<1>5. DOMAIN p = 1 .. num /\ \A i \in 1 .. num : p[i] = base + (i - 1) * BlockSize
  BY <1>2 DEF Pointers
<1> HIDE DEF p
<1>6. \A i \in 1 .. num : p[i] \in Blocks
  <2> TAKE i \in 1 .. num
  <2>1. i - 1 \in 0 .. num - 1
    BY <1>1
  <2> QED
    BY <1>5, <2>1 DEF Blocks
<1>7. ASSUME NEW i \in 0 .. num - 1 PROVE base + i * BlockSize \in Elements(p)
  <2>1. i + 1 \in 1 .. num /\ (i + 1) - 1 = i
    BY <1>1
  <2>2. p[i + 1] = base + i * BlockSize
    BY <1>5, <2>1
  <2> QED
    BY <1>5, <2>1, <2>2 DEF Elements
<1>8. Elements(p) = Blocks
  BY <1>5, <1>6, <1>7 DEF Elements, Blocks
<1>9. IsInjective(p)
  <2> SUFFICES ASSUME NEW i \in 1 .. num, NEW j \in 1 .. num, p[i] = p[j]
               PROVE  i = j
    BY <1>5 DEF IsInjective
  <2> DEFINE x == (i - 1) * BlockSize
             y == (j - 1) * BlockSize
  <2>1. x \in Nat /\ y \in Nat
    <3>1. i - 1 \in Nat /\ j - 1 \in Nat
      OBVIOUS
    <3> QED
      BY <3>1, OffsetIsNat
  <2>2. base + x = base + y
    BY <1>5
  <2> HIDE DEF x, y
  <2>3. x = y
    BY <1>1, <2>1, <2>2
  <2>4. i - 1 \in Int /\ j - 1 \in Int
    OBVIOUS
  <2>5. i - 1 = j - 1
    BY <2>3, <2>4, OffsetsDiffer DEF x, y
  <2> QED
    BY <2>5
<1> QED
  BY <1>4, <1>8, <1>9 DEF p, s

LEMMA CreatedTidy == ASSUME TidyInv, Created PROVE TidyInv' /\ PoolStep
<1>1. Creating
  BY DEF Created, TidyInv, NothingOpen, Open
<1>2. /\ phase' = "open" /\ base' = base /\ num' = num /\ ring' = ring /\ left' = 0
      /\ lent' = {} /\ got' = NoBlock /\ left = 0 /\ lent = {} /\ got = NoBlock
  BY <1>1 DEF Created, Creating
<1>3. /\ num \in Nums /\ num \in Nat /\ base \in Bases
      /\ IsQueue(ring) /\ ring.size = num
      /\ Contents(ring) = FirstOffsets(num)
  <2>1. /\ num \in Nums /\ base \in Bases /\ IsQueue(ring) /\ ring.size = num - left
        /\ Contents(ring) = FirstOffsets(num - left)
    BY <1>1 DEF Creating, RegionAndRing
  <2>2. num \in Nat /\ num - left = num
    BY <1>2, <2>1, RegionParts
  <2> QED
    BY <2>1, <2>2
<1>4. FreeList' = Pointers(base, FirstOffsets(num))
  BY <1>2, <1>3, FreeListPrimed
<1>5. /\ FirstOffsets(num) \in Seq(Offsets)
      /\ Elements(FreeList') = Blocks /\ IsInjective(FreeList')
  BY <1>3, <1>4, FirstOffsetsAreAll
<1>6. Offsets' = Offsets /\ Blocks' = Blocks /\ Free' = Blocks
  BY <1>2, <1>5, FreeIsElements DEF Offsets, Blocks
<1>7. IsFiniteSet({}) /\ Cardinality({}) + ring.size = num
  BY <1>3, FS_EmptySet
<1>8. Open'
  BY <1>1, <1>2, <1>3, <1>5, <1>6, <1>7 DEF Open, Creating, RegionAndRing
<1>9. Abstract!Stock
  <2> DEFINE f == FreeList
  <2>1. IsInjective(f') /\ lent' = {} /\ got' = NoBlock
    BY <1>2, <1>5
  <2> HIDE DEF f
  <2>2. Abstract!IsInjective(f')
    BY <2>1 DEF IsInjective, Abstract!IsInjective
  <2> QED
    BY <2>1, <2>2 DEF Abstract!Stock, f
<1> QED
  BY <1>8, <1>9 DEF TidyInv, PoolStep, Abstract!Next

LEMMA DeleteTidy == ASSUME TidyInv, Delete PROVE TidyInv' /\ PoolStep
<1>1. left = 0
  BY DEF Delete, TidyInv, NothingOpen, Creating, Open
<1>2. NothingOpen'
  BY <1>1 DEF Delete, NothingOpen
<1>3. FreeList' = <<>> /\ lent' = {} /\ got' = NoBlock
  BY <1>2, NoFreeList DEF NothingOpen
<1>4. Abstract!Stock
  BY <1>3 DEF Abstract!Stock, Abstract!IsInjective
<1> QED
  BY <1>2, <1>4 DEF TidyInv, PoolStep, Abstract!Next

(* What an allocator in use has: its ring as a sequence of offsets and as  *)
(* a sequence of pointers.                                                 *)
LEMMA OpenParts ==
  ASSUME Open
  PROVE  /\ num \in Nums /\ num \in Nat /\ base \in Bases /\ base \in Nat
         /\ IsQueue(ring) /\ num <= ring.capc /\ ring.capc \in Nat /\ ring.size \in Nat
         /\ Offsets \subseteq Nat /\ Offsets \subseteq Items
         /\ Blocks = {base + o : o \in Offsets}
         /\ Contents(ring) \in Seq(Offsets)
         /\ FreeList = Pointers(base, Contents(ring))
         /\ FreeList \in Seq(Nat)
         /\ IsFiniteSet(lent) /\ Cardinality(lent) \in Nat
         /\ Cardinality(lent) + ring.size = num
         /\ Free = Elements(FreeList)
<1>1. /\ num \in Nums /\ base \in Bases /\ IsQueue(ring) /\ num <= ring.capc
      /\ Contents(ring) \in Seq(Offsets) /\ IsFiniteSet(lent)
      /\ Cardinality(lent) + ring.size = num /\ phase = "open"
  BY DEF Open, RegionAndRing
<1>2. /\ num \in Nat /\ base \in Nat /\ Offsets \subseteq Nat /\ Offsets \subseteq Items
      /\ Blocks = {base + o : o \in Offsets}
  BY <1>1, RegionParts
<1>3. ring.capc \in Nat /\ ring.size \in Nat
  BY <1>1, QueueParts
<1>4. FreeList = Pointers(base, Contents(ring))
  BY <1>1, FreeListOfRing
<1>5. FreeList \in Seq(Nat)
  BY <1>1, <1>2, <1>4, PointersOfQueue
<1>6. Cardinality(lent) \in Nat
  BY <1>1, FS_CardinalityType
<1> QED
  BY <1>1, <1>2, <1>3, <1>4, <1>5, <1>6, FreeIsElements

(* A get by a client that holds fewer than num blocks lends the first of   *)
(* the free list.                                                          *)
LEMMA GetTidy ==
  ASSUME TidyInv, Cardinality(lent) < num,
         NEW b \in Bases, NEW ok \in BOOLEAN, GetMemory(b, ok)
  PROVE  TidyInv' /\ PoolStep /\ base' = base
<1>1. Open
  BY DEF GetMemory, TidyInv, NothingOpen, Creating
<1>2. ring.size > 0
  BY <1>1, OpenParts
<1>3. ~ ring_empty(ring)
  BY <1>1, <1>2, OpenParts, QueueParts DEF ring_empty
<1>4. Lend /\ UNCHANGED <<phase, base, num, left>>
  BY <1>3 DEF GetMemory
<1> DEFINE s == Contents(ring)
           p == FreeList
<1>5. /\ s # <<>> /\ Oldest(ring) = Head(s)
      /\ IsQueue(ring') /\ Contents(ring') = Tail(s)
      /\ ring'.capc = ring.capc /\ ring'.size = ring.size - 1
  <2>1. ring' = ring_pull(ring)
    BY <1>4 DEF Lend
  <2>2. ring_pull(ring).capc = ring.capc /\ ring_pull(ring).size = ring.size - 1
    BY DEF ring_pull, Struct
  <2> QED
    BY <1>1, <1>2, <2>1, <2>2, OpenParts, PullIsQueue
<1>6. /\ p # <<>> /\ Head(p) = base + Head(s)
      /\ Tail(p) = Pointers(base, Tail(s))
      /\ Head(s) \in Offsets /\ Tail(s) \in Seq(Offsets)
  <2>1. /\ base \in Nat /\ Offsets \in SUBSET Nat /\ s \in Seq(Offsets)
        /\ p = Pointers(base, s)
    BY <1>1, OpenParts
  <2> HIDE DEF s, p
  <2>2. Head(s) \in Offsets /\ Tail(s) \in Seq(Offsets)
    BY <1>5, <2>1, HeadTailProperties
  <2> QED
    BY <1>5, <2>1, <2>2, PointersOfQueue
<1>7. Pointer(Oldest(ring)) = Head(p)
  <2>1. Head(s) # Unset
    BY <1>1, <1>6, OpenParts, ItemsAssumption
  <2> QED
    BY <1>5, <1>6, <2>1 DEF Pointer
<1>8. phase' = "open" /\ base' = base /\ num' = num /\ left' = 0
  BY <1>1, <1>4 DEF Open
<1>9. FreeList' = Tail(p)
  BY <1>5, <1>6, <1>8, FreeListPrimed
<1>10. lent' = lent \cup {Head(p)} /\ got' = Head(p)
  BY <1>4, <1>7 DEF Lend
<1>11. /\ IsInjective(p) /\ lent \cup Elements(p) = Blocks /\ lent \cap Elements(p) = {}
  BY <1>1, OpenParts DEF Open
<1>12. /\ IsInjective(Tail(p)) /\ Head(p) \in Elements(p)
       /\ Elements(Tail(p)) = Elements(p) \ {Head(p)}
  BY <1>1, <1>6, <1>11, OpenParts, TailKeepsInjective
<1>13. IsFiniteSet(lent') /\ Cardinality(lent') = Cardinality(lent) + 1
  <2>1. Head(p) \notin lent
    BY <1>11, <1>12
  <2> QED
    BY <1>1, <1>10, <2>1, OpenParts, FS_AddElement
<1>14. Cardinality(lent') + ring'.size = num'
  BY <1>1, <1>5, <1>8, <1>13, OpenParts
<1>15. /\ lent' \cup Elements(FreeList') = Blocks /\ lent' \cap Elements(FreeList') = {}
  BY <1>9, <1>10, <1>11, <1>12
<1>16. Free' = Elements(FreeList') /\ Offsets' = Offsets /\ Blocks' = Blocks
  BY <1>8, FreeIsElements DEF Offsets, Blocks
<1>17. RegionAndRing'
  BY <1>1, <1>5, <1>8 DEF Open, RegionAndRing
<1>18. Contents(ring') \in Seq(Offsets') /\ IsInjective(FreeList')
  BY <1>5, <1>6, <1>9, <1>12, <1>16
<1> HIDE DEF s, p
<1>19. Open'
  BY <1>8, <1>13, <1>14, <1>15, <1>16, <1>17, <1>18 DEF Open
<1>20. Abstract!Lend
  BY <1>6, <1>9, <1>10 DEF Abstract!Lend, p
<1> QED
  BY <1>8, <1>19, <1>20 DEF TidyInv, PoolStep, Abstract!Next

(* A put appends the block to the free list; the ring never grows.         *)
LEMMA PutTidy ==
  ASSUME TidyInv, NEW q \in lent, NEW ok \in BOOLEAN, PutMemory(q, ok)
  PROVE  TidyInv' /\ PoolStep /\ base' = base
<1>1. Open
  BY DEF PutMemory, TidyInv, NothingOpen, Creating
<1> DEFINE s == Contents(ring)
           p == FreeList
<1>2. PICK o \in Offsets : q = base + o
  <2>1. q \in Blocks
    BY <1>1 DEF Open
  <2> QED
    BY <1>1, <2>1, OpenParts
<1>3. q - base = o /\ o \in Items
  BY <1>1, <1>2, OpenParts
<1>4. IsFiniteSet(lent') /\ Cardinality(lent') = Cardinality(lent) - 1 /\ lent' = lent \ {q}
  <2>1. lent' = lent \ {q}
    BY DEF PutMemory
  <2> QED
    BY <1>1, <2>1, OpenParts, FS_RemoveElement
<1>5. ring.size < ring.capc
  <2>1. Cardinality(lent') \in Nat
    BY <1>4, FS_CardinalityType
  <2> QED
    BY <1>1, <1>4, <2>1, OpenParts
<1>6. ring' = ring_push(ring, o, ok).ring
  BY <1>3 DEF PutMemory
<1>7. /\ ring_push(ring, o, ok).err = 0
      /\ IsQueue(ring') /\ ring'.capc = ring.capc /\ ring'.size = ring.size + 1
      /\ Contents(ring') = Append(s, o)
  BY <1>1, <1>3, <1>5, <1>6, OpenParts, PushWithRoom
<1>8. phase' = "open" /\ base' = base /\ num' = num /\ left' = 0 /\ got' = NoBlock
  <2>1. ring_push(ring, q - base, ok).err # -1
    BY <1>3, <1>7
  <2> QED
    BY <1>1, <2>1 DEF PutMemory, Open
<1>9. Append(p, q) = Pointers(base, Append(s, o)) /\ Append(s, o) \in Seq(Offsets)
  <2>1. /\ base \in Nat /\ Offsets \in SUBSET Nat /\ s \in Seq(Offsets)
        /\ p = Pointers(base, s)
    BY <1>1, OpenParts
  <2> HIDE DEF s, p
  <2>2. Append(s, o) \in Seq(Offsets)
    BY <2>1, AppendProperties
  <2> QED
    BY <1>2, <2>1, <2>2, PointersOfQueue
<1>10. FreeList' = Append(p, q)
  BY <1>7, <1>8, <1>9, FreeListPrimed
<1>11. /\ IsInjective(p) /\ lent \cup Elements(p) = Blocks /\ lent \cap Elements(p) = {}
       /\ q \in Nat
  BY <1>1, <1>2, OpenParts DEF Open
<1>12. /\ Elements(Append(p, q)) = Elements(p) \cup {q}
       /\ IsInjective(Append(p, q))
  <2>1. q \notin Elements(p)
    BY <1>11
  <2> QED
    BY <1>1, <1>11, <2>1, OpenParts, AppendKeepsInjective
<1>13. Cardinality(lent') + ring'.size = num'
  BY <1>1, <1>4, <1>7, <1>8, OpenParts
<1>14. /\ lent' \cup Elements(FreeList') = Blocks /\ lent' \cap Elements(FreeList') = {}
  BY <1>4, <1>10, <1>11, <1>12
<1>15. Free' = Elements(FreeList') /\ Offsets' = Offsets /\ Blocks' = Blocks
  BY <1>8, FreeIsElements DEF Offsets, Blocks
<1>16. RegionAndRing'
  BY <1>1, <1>7, <1>8 DEF Open, RegionAndRing
<1>17. Contents(ring') \in Seq(Offsets') /\ IsInjective(FreeList')
  BY <1>7, <1>9, <1>10, <1>12, <1>15
<1> HIDE DEF s, p
<1>18. Open'
  BY <1>4, <1>8, <1>13, <1>14, <1>15, <1>16, <1>17 DEF Open
<1>19. Abstract!Return
  BY <1>4, <1>8, <1>10 DEF Abstract!Return, p
<1> QED
  BY <1>8, <1>18, <1>19 DEF TidyInv, PoolStep, Abstract!Next

LEMMA TidyStep ==
  ASSUME TidyInv, [TidyNext]_vars
  PROVE  /\ TidyInv' /\ PoolStep
         /\ phase = "open" => base' = base \/ phase' = "none"
<1>1. CASE CreateFails
  BY <1>1, CreateFailsTidy DEF CreateFails
<1>2. ASSUME NEW n \in Nums, NEW b \in Bases, Create(n, b)
      PROVE  TidyInv' /\ PoolStep /\ phase # "open"
  BY <1>2, CreateTidy DEF Create
<1>3. ASSUME NEW ok \in BOOLEAN, Fill(ok)
      PROVE  TidyInv' /\ PoolStep /\ base' = base
  BY <1>3, FillTidy DEF Fill
<1>4. CASE Created
  BY <1>4, CreatedTidy DEF Created
<1>5. CASE Delete
  BY <1>5, DeleteTidy DEF Delete
<1>6. ASSUME Cardinality(lent) < num, NEW b \in Bases, NEW ok \in BOOLEAN, GetMemory(b, ok)
      PROVE  TidyInv' /\ PoolStep /\ base' = base
  BY <1>6, GetTidy
<1>7. ASSUME NEW p \in lent, NEW ok \in BOOLEAN, PutMemory(p, ok)
      PROVE  TidyInv' /\ PoolStep /\ base' = base
  BY <1>7, PutTidy
<1>8. CASE UNCHANGED vars
  <2>1. /\ UNCHANGED <<phase, base, num, ring, left, lent, got>>
    BY <1>8 DEF vars
  <2>2. TidyInv'
    <3>1. FreeList' = FreeList /\ Blocks' = Blocks /\ Offsets' = Offsets
      BY <2>1 DEF FreeList, Pointer, Blocks, Offsets
    <3>2. Free' = Free
      BY <3>1, FreeIsElements
    <3>3. NothingOpen => NothingOpen'
      BY <2>1 DEF NothingOpen
    <3>4. Creating => Creating'
      BY <2>1 DEF Creating, RegionAndRing
    <3>5. Open => Open'
      BY <2>1, <3>1, <3>2 DEF Open, RegionAndRing
    <3> QED
      BY <3>3, <3>4, <3>5 DEF TidyInv
  <2>3. PoolStep
    BY <2>1 DEF PoolStep, Abstract!vars, FreeList, Pointer
  <2> QED
    BY <2>1, <2>2, <2>3
<1> QED
  BY <1>1, <1>2, <1>3, <1>4, <1>5, <1>6, <1>7, <1>8 DEF TidyNext, Step

LEMMA TidyMeans == TidyInv => TypeOK /\ Conservation
<1>1. ASSUME NothingOpen PROVE TypeOK /\ Conservation
  BY <1>1, ZeroRingIsRing, FS_EmptySet DEF NothingOpen, TypeOK, Conservation, IsRing
<1>2. ASSUME Creating PROVE TypeOK /\ Conservation
  <2>1. num \in Nat /\ left \in 0 .. 2 * num
    BY <1>2, RegionParts DEF Creating, RegionAndRing
  <2> QED
    BY <1>2, <2>1, FS_EmptySet DEF Creating, RegionAndRing, TypeOK, Conservation, IsQueue, IsRing
<1>3. ASSUME Open PROVE TypeOK /\ Conservation
  <2>1. num \in Nat /\ left \in 0 .. 2 * num
    BY <1>3, RegionParts DEF Open, RegionAndRing
  <2> QED
    BY <1>3, <2>1 DEF Open, RegionAndRing, TypeOK, Conservation, IsQueue, IsRing
<1> QED
  BY <1>1, <1>2, <1>3 DEF TidyInv

-----------------------------------------------------------------------------
(* The variables keep their types; a tidy client's allocator never holds   *)
(* a ring that has lost its array.                                         *)
THEOREM AllocatorTypeOK == TidySpec => []TypeOK
<1>1. Init => TidyInv
  BY InitTidy
<1>2. TidyInv /\ [TidyNext]_vars => TidyInv'
  BY TidyStep
<1>3. TidyInv => TypeOK
  BY TidyMeans
<1> QED
  BY <1>1, <1>2, <1>3, PTL DEF TidySpec

(* Every block of the region is lent or in the ring, and only once.        *)
THEOREM AllocatorConserves == TidySpec => []Conservation
<1>1. Init => TidyInv
  BY InitTidy
<1>2. TidyInv /\ [TidyNext]_vars => TidyInv'
  BY TidyStep
<1>3. TidyInv => Conservation
  BY TidyMeans
<1> QED
  BY <1>1, <1>2, <1>3, PTL DEF TidySpec

(* No get of a tidy client moves the region or returns null.               *)
THEOREM AllocatorRegionStays == TidySpec => RegionStays
<1>1. Init => TidyInv
  BY InitTidy
<1>2. TidyInv /\ [TidyNext]_vars
      => TidyInv' /\ [phase = "open" => base' = base \/ phase' = "none"]_vars
  BY TidyStep
<1> QED
  BY <1>1, <1>2, PTL DEF TidySpec, RegionStays

(* An allocator implements the pool: get_memory lends the block that has   *)
(* been free longest and put_memory takes one back.                        *)
THEOREM AllocatorIsPool == TidySpec => IsPool
<1>1. Init => TidyInv /\ Abstract!Init
  BY InitTidy
<1>2. TidyInv /\ [TidyNext]_vars => TidyInv' /\ [Abstract!Next]_(Abstract!vars)
  BY TidyStep DEF PoolStep
<1> QED
  BY <1>1, <1>2, PTL DEF TidySpec, IsPool, Abstract!Spec
=============================================================================

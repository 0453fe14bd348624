--------------------------- MODULE RingOpsProofs ---------------------------
(***************************************************************************)
(* Lemmas about the functions of container/ring: each keeps a ring struct  *)
(* well formed with its indices inside its array, and each does to the     *)
(* sequence of its items what a queue does.                                *)
(***************************************************************************)
EXTENDS RingOps, SequenceTheorems, TLAPS

(* What TypeOK and IndicesInBounds say of one ring struct. *)
IsRing(r) ==
  /\ WellFormed(r)
  /\ r.head \in 0 .. r.capc
  /\ r.tail \in 0 .. r.capc

Values == Items \cup {Unset}

-----------------------------------------------------------------------------
(* Taking a ring struct apart and putting one together. *)

LEMMA NullArray == DOMAIN NULL = {} /\ \A c \in Nat : NULL \notin [0 .. c -> Values]
<1>1. DOMAIN NULL = {}
  BY DEF NULL
<1> QED
  BY <1>1

LEMMA RingParts ==
  ASSUME NEW r, IsRing(r)
  PROVE  /\ r.size \in Nat
         /\ r.capc \in Nat
         /\ r.capc + 1 \in Powers
         /\ r.head \in 0 .. r.capc
         /\ r.tail \in 0 .. r.capc
         /\ r.data = NULL \/ r.data \in [0 .. r.capc -> Values]
<1>1. /\ r.size \in Nat
      /\ r.capc \in {p - 1 : p \in Powers}
      /\ r.data = NULL \/ r.data \in [0 .. r.capc -> Values]
      /\ r.head \in 0 .. r.capc
      /\ r.tail \in 0 .. r.capc
  BY DEF IsRing, WellFormed, Usable, Values
<1>2. r.capc \in Nat /\ r.capc + 1 \in Powers
  BY <1>1, PowersAssumption
<1> QED
  BY <1>1, <1>2

LEMMA MakeRing ==
  ASSUME NEW c \in Nat, c + 1 \in Powers, NEW h \in 0 .. c, NEW t \in 0 .. c,
         NEW s \in Nat, NEW d, d = NULL \/ d \in [0 .. c -> Values]
  PROVE  IsRing(Struct(h, t, s, c, d))
<1>1. c \in {p - 1 : p \in Powers}
  <2>1. c = (c + 1) - 1
    OBVIOUS
  <2> QED
    BY <2>1
<1> DEFINE r == Struct(h, t, s, c, d)
<1>2. /\ r \in [head : Nat, tail : Nat, size : Nat,
                capc : {p - 1 : p \in Powers}, data : {d}]
      /\ r.data = d /\ r.capc = c /\ r.head = h /\ r.tail = t
  BY <1>1 DEF Struct
<1> HIDE DEF r
<1>3. IsRing(r)
  BY <1>2 DEF IsRing, WellFormed, Usable, Values
<1> QED
  BY <1>3 DEF r

-----------------------------------------------------------------------------
(* Slot numbers. *)

(* A masked index is a slot of the array. *)
LEMMA MaskedInside ==
  ASSUME NEW i \in Nat, NEW c \in Nat
  PROVE  Masked(i, c) \in 0 .. c
BY DEF Masked

(* The slot after the last one is slot 0. *)
LEMMA MaskedNext ==
  ASSUME NEW c \in Nat, NEW i \in 0 .. c
  PROVE  Masked(i + 1, c) = IF i = c THEN 0 ELSE i + 1
BY DEF Masked

(* next_power gives 0 or a power of two that is large enough. *)
LEMMA NextPowerCovers ==
  ASSUME NEW n \in Nat
  PROVE  next_power(n) = 0 \/ (next_power(n) \in Powers /\ next_power(n) >= n)
<1>1. CASE \E p \in Powers : IsNextPower(p, n)
  BY <1>1, PowersAssumption DEF next_power, IsNextPower
<1>2. CASE ~ \E p \in Powers : IsNextPower(p, n)
  BY <1>2 DEF next_power
<1> QED
  BY <1>1, <1>2

-----------------------------------------------------------------------------
(* The operations keep a ring a ring. *)

LEMMA ZeroRingIsRing == IsRing(ZeroRing)
<1>1. 0 + 1 \in Powers
  BY PowersAssumption
<1> QED
  BY <1>1, MakeRing DEF ZeroRing

LEMMA NewRingIsRing ==
  ASSUME NEW n \in Nat, SlotsFor(n) # 0
  PROVE  IsRing(NewRing(n))
<1> DEFINE c == SlotsFor(n) - 1
<1>1. SlotsFor(n) \in Powers
  <2>1. (IF n = 0 THEN 1 ELSE n) + 1 \in Nat
    OBVIOUS
  <2> QED
    BY <2>1, NextPowerCovers DEF SlotsFor
<1> HIDE DEF c
<1>2. c \in Nat /\ c + 1 \in Powers
  <2> DEFINE p == SlotsFor(n)
  <2>1. p \in Powers /\ p \in Nat \ {0} /\ c = p - 1
    BY <1>1, PowersAssumption DEF c
  <2> HIDE DEF p
  <2> QED
    BY <2>1
<1>3. NewRing(n) = Struct(0, 0, 0, c, [i \in 0 .. c |-> Unset])
  BY DEF NewRing, c
<1>4. [i \in 0 .. c |-> Unset] \in [0 .. c -> Values]
  BY DEF Values
<1>5. 0 \in 0 .. c /\ 0 \in Nat
  BY <1>2
<1> QED
  BY <1>2, <1>3, <1>4, <1>5, MakeRing

LEMMA EnlargedIsRing ==
  ASSUME NEW r, IsRing(r), NEW n \in Powers, n > r.capc + 1
  PROVE  IsRing(Enlarged(r, n))
<1> DEFINE len == n - r.capc - 1
           old == [i \in 0 .. n - 1 |->
                     IF i \in DOMAIN r.data THEN r.data[i] ELSE Unset]
           moved == [i \in 0 .. n - 1 |->
                       IF i >= r.head + len THEN old[i - len] ELSE old[i]]
           h == IF r.tail < r.head THEN r.head + len ELSE r.head
           d == IF r.tail < r.head THEN moved ELSE old
<1>1. /\ r.size \in Nat /\ r.capc \in Nat /\ r.head \in 0 .. r.capc /\ r.tail \in 0 .. r.capc
      /\ n \in Nat /\ n - 1 \in Nat /\ (n - 1) + 1 \in Powers
  BY RingParts, PowersAssumption
<1>2. old \in [0 .. n - 1 -> Values]
  <2> SUFFICES ASSUME NEW i \in DOMAIN r.data
               PROVE  r.data[i] \in Values
    BY DEF Values
  <2> QED
    BY RingParts, NullArray
<1>3. moved \in [0 .. n - 1 -> Values]
  <2> SUFFICES ASSUME NEW i \in 0 .. n - 1, i >= r.head + len
               PROVE  i - len \in 0 .. n - 1
    BY <1>2
  <2> QED
    BY <1>1
<1> HIDE DEF old, moved
<1>4. d \in [0 .. n - 1 -> Values]
  BY <1>2, <1>3
<1>5. h \in 0 .. n - 1 /\ r.tail \in 0 .. n - 1
  BY <1>1
<1>6. Enlarged(r, n) = Struct(h, r.tail, r.size, n - 1, d)
  BY DEF Enlarged, old, moved
<1> HIDE DEF h, d
<1> QED
  BY <1>1, <1>4, <1>5, <1>6, MakeRing

(* ring_realloc fails, leaves the ring alone, or enlarges it. *)
LEMMA ReallocCases ==
  ASSUME NEW r, IsRing(r), NEW n \in Nat, NEW ok \in BOOLEAN
  PROVE  \/ /\ n <= r.capc
            /\ ring_realloc(r, n, ok) = [ring |-> r, err |-> 0]
         \/ ring_realloc(r, n, ok) = [ring |-> Struct(r.head, r.tail, r.size, r.capc, NULL), err |-> -1]
         \/ /\ n > r.capc
            /\ \E m \in Powers : /\ m > r.capc + 1
                                 /\ ring_realloc(r, n, ok) = [ring |-> Enlarged(r, m), err |-> 0]
<1>1. next_power(n + 1) = 0 \/ (next_power(n + 1) \in Powers /\ next_power(n + 1) >= n + 1)
  BY NextPowerCovers
<1>2. r.capc \in Nat
  BY RingParts
<1>3. CASE n <= r.capc
  BY <1>3 DEF ring_realloc
<1>4. CASE n > r.capc /\ ~ Allocates(next_power(n + 1), ok)
  BY <1>2, <1>4 DEF ring_realloc
<1>5. CASE n > r.capc /\ Allocates(next_power(n + 1), ok)
  <2>1. next_power(n + 1) \in Powers /\ next_power(n + 1) >= n + 1
    BY <1>1, <1>5, MaxSlotsAssumption DEF Allocates
  <2>2. next_power(n + 1) > r.capc + 1
    <3> DEFINE m == next_power(n + 1)
    <3>1. m \in Nat /\ m >= n + 1
      BY <2>1, PowersAssumption
    <3> HIDE DEF m
    <3>2. m > r.capc + 1
      BY <1>2, <1>5, <3>1
    <3> QED
      BY <3>2 DEF m
  <2>3. ring_realloc(r, n, ok) = [ring |-> Enlarged(r, next_power(n + 1)), err |-> 0]
    BY <1>2, <1>5 DEF ring_realloc
  <2> QED
    BY <1>5, <2>1, <2>2, <2>3
<1> QED
  BY <1>2, <1>3, <1>4, <1>5

LEMMA LostIsRing ==
  ASSUME NEW r, IsRing(r)
  PROVE  IsRing(Struct(r.head, r.tail, r.size, r.capc, NULL))
BY MakeRing, RingParts

LEMMA ReallocIsRing ==
  ASSUME NEW r, IsRing(r), NEW n \in Nat, NEW ok \in BOOLEAN
  PROVE  IsRing(ring_realloc(r, n, ok).ring)
BY LostIsRing, ReallocCases, EnlargedIsRing

(* A push that grows the ring leaves a larger ring with the same tail. *)
LEMMA GrownIsRing ==
  ASSUME NEW r, IsRing(r), NEW ok \in BOOLEAN
  PROVE  /\ IsRing(Grown(r, ok).ring)
         /\ Grown(r, ok).ring.capc >= r.capc
<1>1. r.capc \in Nat /\ r.capc * 2 \in Nat
  BY RingParts
<1>2. CASE NextTail(r) # r.head
  BY <1>1, <1>2 DEF Grown
<1>3. CASE NextTail(r) = r.head
  <2>1. Grown(r, ok) = ring_realloc(r, r.capc * 2, ok)
    BY <1>3 DEF Grown
  <2>2. Struct(r.head, r.tail, r.size, r.capc, NULL).capc = r.capc
    BY DEF Struct
  <2>3. \A m \in Powers : m > r.capc + 1 => Enlarged(r, m).capc >= r.capc
    <3> TAKE m \in Powers
    <3>1. Enlarged(r, m).capc = m - 1
      BY DEF Enlarged, Struct
    <3> QED
      BY <1>1, <3>1, PowersAssumption
  <2>4. ring_realloc(r, r.capc * 2, ok).ring.capc >= r.capc
    <3>1. r.capc >= r.capc
      BY <1>1
    <3> QED
      BY <1>1, <2>2, <2>3, <3>1, ReallocCases
  <2> QED
    BY <1>1, <2>1, <2>4, ReallocIsRing
<1> QED
  BY <1>2, <1>3

LEMMA PushIsRing ==
  ASSUME NEW r, IsRing(r), NEW ok \in BOOLEAN, NEW v \in Items, PushDefined(r, ok)
  PROVE  IsRing(ring_push(r, v, ok).ring)
<1>1. CASE Grown(r, ok).err # 0
  BY <1>1, GrownIsRing DEF ring_push
<1>2. CASE Grown(r, ok).err = 0
  <2> DEFINE g == Grown(r, ok).ring
             d == [g.data EXCEPT ![r.tail] = v]
  <2>1. IsRing(g) /\ g.capc >= r.capc /\ r.tail \in DOMAIN g.data
    BY <1>2, GrownIsRing DEF PushDefined
  <2>2. ring_push(r, v, ok).ring = Struct(g.head, NextTail(r), g.size + 1, g.capc, d)
    BY <1>2 DEF ring_push, Stored
  <2> HIDE DEF g
  <2>3. NextTail(r) \in 0 .. r.capc /\ r.capc \in Nat
    <3>1. r.tail + 1 \in Nat /\ r.capc \in Nat
      BY RingParts
    <3> QED
      BY <3>1, MaskedInside DEF NextTail
  <2>4. NextTail(r) \in 0 .. g.capc
    BY <2>1, <2>3, RingParts
  <2>5. g.data \in [0 .. g.capc -> Values]
    BY <2>1, RingParts, NullArray
  <2>6. d \in [0 .. g.capc -> Values]
    BY <2>5 DEF Values
  <2>7. /\ g.size + 1 \in Nat
        /\ g.capc \in Nat
        /\ g.capc + 1 \in Powers
        /\ g.head \in 0 .. g.capc
    BY <2>1, RingParts
  <2> HIDE DEF d
  <2> QED
    BY <2>2, <2>4, <2>6, <2>7, MakeRing
<1> QED
  BY <1>1, <1>2

LEMMA PullIsRing ==
  ASSUME NEW r, IsRing(r), r.size > 0
  PROVE  IsRing(ring_pull(r))
<1>1. Masked(r.head + 1, r.capc) \in 0 .. r.capc
  <2>1. r.head + 1 \in Nat /\ r.capc \in Nat
    BY RingParts
  <2> QED
    BY <2>1, MaskedInside
<1>2. r.size - 1 \in Nat
  BY RingParts
<1> QED
  BY <1>1, <1>2, RingParts, MakeRing DEF ring_pull

-----------------------------------------------------------------------------
(* A ring that has its data array, with its counter and indices agreeing   *)
(* and pushed items in all the slots from head to tail.                    *)
IsQueue(r) ==
  /\ IsRing(r)
  /\ r.data # NULL
  /\ r.size = Span(r)
  /\ Contents(r) \in Seq(Items)

-----------------------------------------------------------------------------
LEMMA QueueParts ==
  ASSUME NEW r, IsQueue(r)
  PROVE  /\ r.capc \in Nat
         /\ r.head \in 0 .. r.capc
         /\ r.tail \in 0 .. r.capc
         /\ r.size \in 0 .. r.capc
         /\ r.data \in [0 .. r.capc -> Values]
         /\ Contents(r) \in Seq(Items)
         /\ Len(Contents(r)) = r.size
         /\ DOMAIN Contents(r) = 1 .. r.size
         /\ \A i \in 1 .. r.size : /\ Contents(r)[i] = r.data[SlotOf(r, i)]
                                   /\ Contents(r)[i] \in Items
         /\ r.size = 0 <=> r.head = r.tail
         /\ r.size = 0 <=> Contents(r) = <<>>
<1>1. /\ r.size \in Nat /\ r.capc \in Nat
      /\ r.head \in 0 .. r.capc /\ r.tail \in 0 .. r.capc
      /\ r.data \in [0 .. r.capc -> Values]
  BY RingParts DEF IsQueue
<1>2. /\ r.size \in 0 .. r.capc
      /\ r.size = 0 <=> r.head = r.tail
  BY <1>1 DEF IsQueue, Span
<1>3. /\ DOMAIN Contents(r) = 1 .. r.size
      /\ \A i \in 1 .. r.size : Contents(r)[i] = r.data[SlotOf(r, i)]
  BY DEF Contents
<1>4. Contents(r) \in Seq(Items)
  BY DEF IsQueue
<1> HIDE DEF Contents
<1>5. Len(Contents(r)) = r.size
  BY <1>1, <1>3, <1>4
<1>6. \A i \in 1 .. r.size : Contents(r)[i] \in Items
  BY <1>4, <1>5, ElementOfSeq
<1>7. r.size = 0 <=> Contents(r) = <<>>
  BY <1>4, <1>5, EmptySeq
<1> QED
  BY <1>1, <1>2, <1>3, <1>4, <1>5, <1>6, <1>7

(* The slots of the items are slots of the array, and none is the tail. *)
LEMMA SlotsOfItems ==
  ASSUME NEW r, IsQueue(r), NEW i \in 1 .. r.size
  PROVE  SlotOf(r, i) \in 0 .. r.capc /\ SlotOf(r, i) # r.tail
<1>1. r.size = Span(r)
  BY DEF IsQueue
<1> QED
  BY <1>1, QueueParts DEF SlotOf, Span

(* A ring is a queue when it has the items of a sequence in its slots. *)
LEMMA MakeQueue ==
  ASSUME NEW r, IsRing(r), r.data # NULL, r.size = Span(r),
         NEW s \in Seq(Items), Len(s) = r.size,
         \A i \in 1 .. r.size : r.data[SlotOf(r, i)] = s[i]
  PROVE  IsQueue(r) /\ Contents(r) = s
<1>1. s = [i \in 1 .. r.size |-> s[i]]
  OBVIOUS
<1>2. Contents(r) = s
  BY <1>1 DEF Contents
<1> QED
  BY <1>2 DEF IsQueue

LEMMA NewRingIsQueue ==
  ASSUME NEW n \in Nat, SlotsFor(n) # 0
  PROVE  IsQueue(NewRing(n)) /\ Contents(NewRing(n)) = <<>>
<1> DEFINE r == NewRing(n)
<1>1. IsRing(r)
  BY NewRingIsRing
<1>2. /\ r.head = 0 /\ r.tail = 0 /\ r.size = 0
      /\ r.data = [i \in 0 .. SlotsFor(n) - 1 |-> Unset]
  BY DEF NewRing, Struct
<1>3. SlotsFor(n) - 1 \in Nat
  <2> DEFINE m == SlotsFor(n)
  <2>1. m \in Nat \ {0}
    <3>1. (IF n = 0 THEN 1 ELSE n) + 1 \in Nat
      OBVIOUS
    <3> QED
      BY <3>1, NextPowerCovers, PowersAssumption DEF SlotsFor
  <2> HIDE DEF m
  <2>2. m - 1 \in Nat
    BY <2>1
  <2> QED
    BY <2>2 DEF m
<1>4. r.data # NULL
  <2>1. 0 \in DOMAIN r.data
    BY <1>2, <1>3
  <2> QED
    BY <2>1, NullArray
<1>5. r.size = Span(r)
  BY <1>2 DEF Span
<1>6. <<>> \in Seq(Items) /\ Len(<<>>) = 0
  OBVIOUS
<1>7. \A i \in 1 .. r.size : r.data[SlotOf(r, i)] = <<>>[i]
  BY <1>2
<1> HIDE DEF r
<1>8. IsQueue(r) /\ Contents(r) = <<>>
  BY <1>1, <1>2, <1>4, <1>5, <1>6, <1>7, MakeQueue
<1> QED
  BY <1>8 DEF r

(* Where ring_realloc leaves the i-th item of a ring when it adds len slots. *)
LEMMA EnlargedSlots ==
  ASSUME NEW r, NEW e, NEW len \in Nat, NEW i \in Nat, i >= 1, i <= r.size,
         r.capc \in Nat, r.size \in 0 .. r.capc, r.size = Span(r),
         r.head \in 0 .. r.capc, r.tail \in 0 .. r.capc,
         e.capc = r.capc + len,
         e.head = IF r.tail < r.head THEN r.head + len ELSE r.head
  PROVE  \/ /\ ~ (r.tail < r.head)
            /\ SlotOf(r, i) \in 0 .. r.capc
            /\ SlotOf(e, i) = SlotOf(r, i)
         \/ /\ r.tail < r.head
            /\ SlotOf(r, i) \in r.head .. r.capc
            /\ SlotOf(e, i) = SlotOf(r, i) + len
         \/ /\ r.tail < r.head
            /\ SlotOf(r, i) \in 0 .. r.head - 1
            /\ SlotOf(e, i) = SlotOf(r, i)
<1>1. CASE ~ (r.tail < r.head)
  BY <1>1 DEF SlotOf, Span
<1>2. CASE r.tail < r.head /\ r.head + i - 1 <= r.capc
  BY <1>2 DEF SlotOf
<1>3. CASE r.tail < r.head /\ ~ (r.head + i - 1 <= r.capc)
  BY <1>3 DEF SlotOf
<1> QED
  BY <1>1, <1>2, <1>3

(* Growing a ring moves its items with the slots and changes none.         *)
LEMMA EnlargedIsQueue ==
  ASSUME NEW r, IsQueue(r), NEW n \in Powers, n > r.capc + 1
  PROVE  IsQueue(Enlarged(r, n)) /\ Contents(Enlarged(r, n)) = Contents(r)
<1> DEFINE e == Enlarged(r, n)
           len == n - r.capc - 1
           old == [i \in 0 .. n - 1 |->
                     IF i \in DOMAIN r.data THEN r.data[i] ELSE Unset]
           moved == [i \in 0 .. n - 1 |->
                       IF i >= r.head + len THEN old[i - len] ELSE old[i]]
<1>1. IsRing(e)
  BY EnlargedIsRing DEF IsQueue
<1>a. /\ r.capc \in Nat /\ r.head \in 0 .. r.capc /\ r.tail \in 0 .. r.capc
      /\ r.size \in 0 .. r.capc /\ DOMAIN r.data = 0 .. r.capc
  BY QueueParts
<1>2. n \in Nat /\ n - 1 \in Nat /\ len \in Nat \ {0} /\ n = r.capc + 1 + len
  <2>1. n \in Nat
    BY PowersAssumption
  <2> QED
    BY <1>a, <2>1
<1>3. \A i \in 0 .. r.capc : i \in 0 .. n - 1 /\ old[i] = r.data[i]
  BY <1>2, <1>a
<1>4. \A i \in r.head .. r.capc :
        i + len \in 0 .. n - 1 /\ moved[i + len] = r.data[i]
  <2> TAKE i \in r.head .. r.capc
  <2> HIDE DEF len
  <2>a. i \in Nat /\ i >= r.head /\ i <= r.capc /\ r.head \in Nat
    BY <1>a
  <2>1. /\ i \in 0 .. r.capc /\ i + len \in 0 .. n - 1
        /\ i + len >= r.head + len /\ (i + len) - len = i
    BY <1>a, <1>2, <2>a
  <2> QED
    BY <1>3, <2>1
<1>5. \A i \in 0 .. r.head - 1 : moved[i] = r.data[i]
  BY <1>a, <1>2, <1>3
<1>6. DOMAIN old = 0 .. n - 1 /\ DOMAIN moved = 0 .. n - 1
  OBVIOUS
<1> HIDE DEF old, moved, len
<1>7. e = IF r.tail < r.head THEN Struct(r.head + len, r.tail, r.size, n - 1, moved)
                             ELSE Struct(r.head, r.tail, r.size, n - 1, old)
  BY DEF Enlarged, old, moved, len
<1>8. /\ e.tail = r.tail /\ e.size = r.size /\ e.capc = n - 1
      /\ e.head = IF r.tail < r.head THEN r.head + len ELSE r.head
  BY <1>7 DEF Struct
<1>b. e.data = IF r.tail < r.head THEN moved ELSE old
  BY <1>7 DEF Struct
<1> HIDE DEF e
<1>9. e.size = Span(e)
  <2>1. r.size = Span(r)
    BY DEF IsQueue
  <2> QED
    BY <1>a, <1>2, <1>8, <2>1 DEF Span
<1>10. e.data # NULL
  <2>1. 0 \in DOMAIN e.data
    BY <1>2, <1>6, <1>8, <1>b
  <2> QED
    BY <2>1, NullArray
<1>11. \A i \in 1 .. e.size : e.data[SlotOf(e, i)] = Contents(r)[i]
  <2> SUFFICES ASSUME NEW i \in 1 .. r.size
               PROVE  e.data[SlotOf(e, i)] = r.data[SlotOf(r, i)]
    BY <1>8, QueueParts
  <2>1. i \in Nat /\ i >= 1 /\ i <= r.size
    BY <1>a
  <2>2. r.size = Span(r)
    BY DEF IsQueue
  <2>3. e.capc = r.capc + len /\ len \in Nat
    BY <1>a, <1>2, <1>8
  <2>4. \/ /\ ~ (r.tail < r.head)
           /\ SlotOf(r, i) \in 0 .. r.capc
           /\ SlotOf(e, i) = SlotOf(r, i)
        \/ /\ r.tail < r.head
           /\ SlotOf(r, i) \in r.head .. r.capc
           /\ SlotOf(e, i) = SlotOf(r, i) + len
        \/ /\ r.tail < r.head
           /\ SlotOf(r, i) \in 0 .. r.head - 1
           /\ SlotOf(e, i) = SlotOf(r, i)
    BY <1>a, <1>8, <2>1, <2>2, <2>3, EnlargedSlots
  <2> QED
    BY <1>3, <1>4, <1>5, <1>b, <2>4
<1>12. IsQueue(e) /\ Contents(e) = Contents(r)
  BY <1>1, <1>8, <1>9, <1>10, <1>11, MakeQueue, QueueParts
<1> QED
  BY <1>12 DEF e

LEMMA ReallocIsQueue ==
  ASSUME NEW r, IsQueue(r), NEW n \in Nat, NEW ok \in BOOLEAN
  PROVE  \/ /\ ring_realloc(r, n, ok).err = 0
            /\ IsQueue(ring_realloc(r, n, ok).ring)
            /\ Contents(ring_realloc(r, n, ok).ring) = Contents(r)
         \/ /\ ring_realloc(r, n, ok).err = -1
            /\ ring_realloc(r, n, ok).ring.data = NULL
<1>1. Struct(r.head, r.tail, r.size, r.capc, NULL).data = NULL
  BY DEF Struct
<1>2. IsRing(r)
  BY DEF IsQueue
<1> QED
  BY <1>1, <1>2, ReallocCases, EnlargedIsQueue

(* Storing an item in the tail's slot appends it, if the next tail is the  *)
(* slot after the tail and is not the head.                                *)
LEMMA StoredIsQueue ==
  ASSUME NEW g, IsQueue(g), NEW v \in Items, NEW t,
         t = IF g.tail = g.capc THEN 0 ELSE g.tail + 1,
         t # g.head
  PROVE  /\ IsQueue(Stored(g, g.tail, v, t))
         /\ Contents(Stored(g, g.tail, v, t)) = Append(Contents(g), v)
<1> DEFINE d == [g.data EXCEPT ![g.tail] = v]
           r == Stored(g, g.tail, v, t)
           s == Append(Contents(g), v)
<1>1. /\ g.capc \in Nat /\ g.head \in 0 .. g.capc /\ g.tail \in 0 .. g.capc
      /\ g.size \in 0 .. g.capc /\ g.size = Span(g)
      /\ g.data \in [0 .. g.capc -> Values]
  BY QueueParts DEF IsQueue
<1>2. t \in 0 .. g.capc
  BY <1>1
<1>3. r.head = g.head /\ r.tail = t /\ r.size = g.size + 1 /\ r.capc = g.capc /\ r.data = d
  BY DEF Stored, Struct
<1>4. d \in [0 .. g.capc -> Values] /\ d[g.tail] = v
  BY <1>1 DEF Values
<1>5. \A j \in 0 .. g.capc : j # g.tail => d[j] = g.data[j]
  BY <1>1
<1>6. IsRing(r)
  <2>1. g.capc + 1 \in Powers /\ g.size + 1 \in Nat
    BY <1>1, RingParts DEF IsQueue
  <2> HIDE DEF d
  <2> QED
    BY <1>1, <1>2, <1>4, <2>1, MakeRing DEF Stored
<1>7. d # NULL
  <2>1. g.tail \in DOMAIN d
    BY <1>1
  <2> QED
    BY <2>1, NullArray
<1> HIDE DEF d, r
<1>8. r.size = Span(r)
  BY <1>1, <1>2, <1>3 DEF Span
<1>9. s \in Seq(Items) /\ Len(s) = r.size
  BY <1>3, QueueParts, AppendProperties
<1>10. \A i \in 1 .. r.size : r.data[SlotOf(r, i)] = s[i]
  <2> TAKE i \in 1 .. r.size
  <2>1. SlotOf(r, i) = SlotOf(g, i)
    BY <1>3 DEF SlotOf
  <2>2. CASE i \in 1 .. g.size
    <3>1. s[i] = Contents(g)[i]
      BY <2>2, QueueParts, AppendProperties
    <3>2. SlotOf(g, i) \in 0 .. g.capc /\ SlotOf(g, i) # g.tail
      BY <2>2, SlotsOfItems
    <3>3. Contents(g)[i] = g.data[SlotOf(g, i)]
      BY <2>2, QueueParts
    <3> QED
      BY <1>3, <1>5, <2>1, <3>1, <3>2, <3>3
  <2>3. CASE i = g.size + 1
    <3>1. s[i] = v
      BY <2>3, QueueParts, AppendProperties
    <3>2. SlotOf(g, g.size + 1) = g.tail
      BY <1>1 DEF SlotOf, Span
    <3> QED
      BY <1>3, <1>4, <2>1, <2>3, <3>1, <3>2
  <2>4. i \in 1 .. g.size \/ i = g.size + 1
    BY <1>1, <1>3
  <2> QED
    BY <2>2, <2>3, <2>4
<1>11. IsQueue(r) /\ Contents(r) = s
  BY <1>3, <1>6, <1>7, <1>8, <1>9, <1>10, MakeQueue
<1> QED
  BY <1>11 DEF r

(* A push that is not made at the excluded place appends, or it fails and  *)
(* the items are lost.                                                     *)
LEMMA PushIsQueue ==
  ASSUME NEW r, IsQueue(r), ~ (r.tail = r.capc /\ r.head = 0),
         NEW v \in Items, NEW ok \in BOOLEAN
  PROVE  \/ /\ ring_push(r, v, ok).err = 0
            /\ IsQueue(ring_push(r, v, ok).ring)
            /\ Contents(ring_push(r, v, ok).ring) = Append(Contents(r), v)
         \/ /\ ring_push(r, v, ok).err = -1
            /\ ring_push(r, v, ok).ring.data = NULL
<1>1. /\ r.capc \in Nat /\ r.capc * 2 \in Nat
      /\ r.head \in 0 .. r.capc /\ r.tail \in 0 .. r.capc
      /\ IsRing(r)
  BY QueueParts DEF IsQueue
<1>2. NextTail(r) = IF r.tail = r.capc THEN 0 ELSE r.tail + 1
  BY <1>1, MaskedNext DEF NextTail
<1>3. CASE NextTail(r) # r.head
  <2>1. Grown(r, ok) = [ring |-> r, err |-> 0]
    BY <1>3 DEF Grown
  <2>2. ring_push(r, v, ok) = [ring |-> Stored(r, r.tail, v, NextTail(r)), err |-> 0]
    BY <2>1 DEF ring_push
  <2>3. /\ IsQueue(Stored(r, r.tail, v, NextTail(r)))
        /\ Contents(Stored(r, r.tail, v, NextTail(r))) = Append(Contents(r), v)
    BY <1>2, <1>3, StoredIsQueue
  <2> QED
    BY <2>2, <2>3
<1>4. CASE NextTail(r) = r.head
  <2>1. r.tail < r.head /\ NextTail(r) = r.tail + 1 /\ r.capc > 0
    BY <1>1, <1>2, <1>4
  <2>2. Grown(r, ok) = ring_realloc(r, r.capc * 2, ok)
    BY <1>4 DEF Grown
  <2>3. CASE Grown(r, ok).err # 0
    BY <1>1, <2>2, <2>3, ReallocIsQueue DEF ring_push
  <2>4. CASE Grown(r, ok).err = 0
    <3> DEFINE g == Grown(r, ok).ring
    <3>1. ring_push(r, v, ok) = [ring |-> Stored(g, r.tail, v, NextTail(r)), err |-> 0]
      BY <2>4 DEF ring_push
    <3>2. IsQueue(g) /\ Contents(g) = Contents(r)
      BY <1>1, <2>2, <2>4, ReallocIsQueue
    <3>3. PICK m \in Powers : m > r.capc + 1 /\ g = Enlarged(r, m)
      <4>1. r.capc * 2 > r.capc
        BY <1>1, <2>1
      <4>2. ~ (r.capc * 2 <= r.capc)
        BY <1>1, <4>1
      <4> QED
        BY <1>1, <2>2, <2>4, <4>2, ReallocCases
    <3>4. m \in Nat
      BY PowersAssumption
    <3>5. /\ g.tail = r.tail /\ g.capc = m - 1
          /\ g.head = r.head + (m - r.capc - 1)
      BY <2>1, <3>3 DEF Enlarged, Struct
    <3> HIDE DEF g
    <3>6. /\ NextTail(r) = IF g.tail = g.capc THEN 0 ELSE g.tail + 1
          /\ NextTail(r) # g.head
      <4>1. r.tail < m - 1 /\ r.head + (m - r.capc - 1) # r.head
        BY <1>1, <3>3, <3>4
      <4>2. g.tail # g.capc
        BY <1>1, <3>4, <3>5, <4>1
      <4>3. NextTail(r) # g.head
        BY <1>4, <3>5, <4>1
      <4> QED
        BY <2>1, <3>5, <4>2, <4>3
    <3>7. /\ IsQueue(Stored(g, g.tail, v, NextTail(r)))
          /\ Contents(Stored(g, g.tail, v, NextTail(r))) = Append(Contents(g), v)
      BY <3>2, <3>6, StoredIsQueue
    <3> QED
      BY <3>1, <3>2, <3>5, <3>7
  <2> QED
    BY <2>3, <2>4
<1> QED
  BY <1>3, <1>4

LEMMA PullIsQueue ==
  ASSUME NEW r, IsQueue(r), r.size > 0
  PROVE  /\ Contents(r) # <<>>
         /\ Oldest(r) = Head(Contents(r))
         /\ IsQueue(ring_pull(r))
         /\ Contents(ring_pull(r)) = Tail(Contents(r))
<1> DEFINE p == ring_pull(r)
           s == Contents(r)
<1>1. /\ r.capc \in Nat /\ r.head \in 0 .. r.capc /\ r.tail \in 0 .. r.capc
      /\ r.size \in 0 .. r.capc /\ r.size = Span(r)
      /\ IsRing(r) /\ r.data # NULL
  BY QueueParts DEF IsQueue
<1>2. s # <<>> /\ s \in Seq(Items) /\ Len(s) = r.size
  BY QueueParts
<1>3. /\ p.head = IF r.head = r.capc THEN 0 ELSE r.head + 1
      /\ p.tail = r.tail /\ p.size = r.size - 1
      /\ p.capc = r.capc /\ p.data = r.data
  BY <1>1, MaskedNext DEF ring_pull, Struct
<1>4. IsRing(p)
  BY <1>1, PullIsRing
<1>5. Oldest(r) = Head(s)
  <2>1. 1 \in 1 .. r.size
    BY <1>1
  <2>2. SlotOf(r, 1) = r.head
    BY <1>1 DEF SlotOf
  <2>3. s[1] = r.data[r.head]
    BY <2>1, <2>2, QueueParts
  <2> QED
    BY <2>3 DEF Oldest
<1> HIDE DEF p
<1>6. p.size = Span(p)
  BY <1>1, <1>3 DEF Span
<1>7. Tail(s) \in Seq(Items) /\ Len(Tail(s)) = p.size
  BY <1>2, <1>3, HeadTailProperties
<1>8. \A i \in 1 .. p.size : p.data[SlotOf(p, i)] = Tail(s)[i]
  <2> TAKE i \in 1 .. p.size
  <2>1. i \in Nat /\ i >= 1 /\ i + 1 <= r.size /\ i + 1 \in 1 .. r.size
    BY <1>1, <1>3
  <2>2. SlotOf(p, i) = SlotOf(r, i + 1)
    BY <1>1, <1>3, <2>1 DEF SlotOf
  <2>3. Tail(s)[i] = s[i + 1]
    BY <1>2, <1>7, HeadTailProperties
  <2>4. s[i + 1] = r.data[SlotOf(r, i + 1)]
    BY <2>1, QueueParts
  <2> QED
    BY <1>3, <2>2, <2>3, <2>4
<1>9. IsQueue(p) /\ Contents(p) = Tail(s)
  BY <1>1, <1>3, <1>4, <1>6, <1>7, <1>8, MakeQueue
<1> QED
  BY <1>2, <1>5, <1>9 DEF p
=============================================================================

------------------------------ MODULE RingOps ------------------------------
(***************************************************************************)
(* The functions of container/ring/ring.c as operators on the C struct     *)
(*                                                                         *)
(*     struct ring { size_t head, tail, size, capc; cdata_t *data; }       *)
(*                                                                         *)
(* which is a record here; data is a function from slot numbers to items   *)
(* and the NULL pointer is the array with no slots.  A function that can   *)
(* allocate takes an argument ok: whether the malloc, calloc or realloc it *)
(* reaches, if it reaches one, can succeed.  Functions that return an      *)
(* error code give a record of the new ring and the code.                  *)
(***************************************************************************)
EXTENDS Integers, Sequences

CONSTANTS
  Powers,    \* the powers of two that a size_t holds
  MaxSlots,  \* no allocation of more than this many slots succeeds
  Items,     \* what is pushed
  Unset      \* what a slot holds that no push has written

ASSUME PowersAssumption ==
  /\ Powers \subseteq Nat \ {0}
  /\ 1 \in Powers
  /\ \A p \in Powers : p = 1 \/ \E q \in Powers : p = 2 * q

ASSUME MaxSlotsAssumption == MaxSlots \in Nat

ASSUME ItemsAssumption == Unset \notin Items

NULL == <<>>

(***************************************************************************)
(* next_power(n) is the least power of two that is not below n.  For an n  *)
(* above the largest power of two of a size_t the last n + 1 of the code   *)
(* wraps to 0.                                                             *)
(***************************************************************************)
IsNextPower(p, n) == p >= n /\ \A q \in Powers : q >= n => p <= q

next_power(n) ==
  IF \E p \in Powers : IsNextPower(p, n)
  THEN CHOOSE p \in Powers : IsNextPower(p, n)
  ELSE 0

(* i & capc, where capc + 1 is a power of two. *)
Masked(i, capc) == i % (capc + 1)

(***************************************************************************)
(* ring_create: the zeroed struct, without and with its data array.        *)
(***************************************************************************)
Struct(head, tail, size, capc, data) ==
  [head |-> head, tail |-> tail, size |-> size, capc |-> capc, data |-> data]

ZeroRing == Struct(0, 0, 0, 0, NULL)

(* Mutant of SlotsFor: no slot is left over. *)
SlotsForJust(size) == next_power(IF size = 0 THEN 1 ELSE size)

SlotsFor(size) == next_power((IF size = 0 THEN 1 ELSE size) + 1)

(* Mutant of NewRing: capc is the number of slots. *)
NewRingOffByOne(size) ==
  Struct(0, 0, 0, SlotsFor(size), [i \in 0 .. SlotsFor(size) - 1 |-> Unset])

NewRing(size) ==
  Struct(0, 0, 0, SlotsFor(size) - 1, [i \in 0 .. SlotsFor(size) - 1 |-> Unset])

(* Mutant of Enlarged: head moves and the items behind it do not. *)
EnlargedUnmoved(r, n) ==
  Struct(IF r.tail < r.head THEN r.head + n - r.capc - 1 ELSE r.head, r.tail, r.size, n - 1,
         [i \in 0 .. n - 1 |-> IF i \in DOMAIN r.data THEN r.data[i] ELSE Unset])

(***************************************************************************)
(* ring_realloc: realloc keeps the old slots (it has none to keep when     *)
(* data is NULL); when the items wrap, the memmove shifts the slots from   *)
(* head on to the end of the larger array.                                 *)
(***************************************************************************)
Enlarged(r, n) ==
  LET len   == n - r.capc - 1
      wraps == r.tail < r.head
      old   == [i \in 0 .. n - 1 |->
                  IF i \in DOMAIN r.data THEN r.data[i] ELSE Unset]
      moved == [i \in 0 .. n - 1 |->
                  IF i >= r.head + len THEN old[i - len] ELSE old[i]]
  IN  IF wraps THEN Struct(r.head + len, r.tail, r.size, n - 1, moved)
               ELSE Struct(r.head, r.tail, r.size, n - 1, old)

Allocates(n, ok) == ok /\ n \in 1 .. MaxSlots

ring_realloc(r, size, ok) ==
  IF size <= r.capc THEN [ring |-> r, err |-> 0]
  ELSE IF Allocates(next_power(size + 1), ok)
       THEN [ring |-> Enlarged(r, next_power(size + 1)), err |-> 0]
       ELSE [ring |-> Struct(r.head, r.tail, r.size, r.capc, NULL), err |-> -1]

(* Mutant of NextTail: the index is not masked. *)
NextTailUnmasked(r) == r.tail + 1

(***************************************************************************)
(* __ring_push computes next_tail from the capacity it finds on entry,     *)
(* grows the ring if that slot is the head, and then stores the item and   *)
(* next_tail.                                                              *)
(***************************************************************************)
NextTail(r) == Masked(r.tail + 1, r.capc)

Grown(r, ok) ==
  IF NextTail(r) = r.head THEN ring_realloc(r, r.capc * 2, ok)
                          ELSE [ring |-> r, err |-> 0]

Stored(r, slot, v, next_tail) ==
  Struct(r.head, next_tail, r.size + 1, r.capc, [r.data EXCEPT ![slot] = v])

ring_push(r, v, ok) ==
  IF Grown(r, ok).err # 0 THEN Grown(r, ok)
  ELSE [ring |-> Stored(Grown(r, ok).ring, r.tail, v, NextTail(r)), err |-> 0]

(* A push that stores writes data[tail] of an array that exists. *)
PushDefined(r, ok) ==
  Grown(r, ok).err = 0 => r.tail \in DOMAIN Grown(r, ok).ring.data

(* Mutant of ring_pull: the item is still counted. *)
ring_pull_counted(r) == Struct(Masked(r.head + 1, r.capc), r.tail, r.size, r.capc, r.data)

(* __ring_pull of a ring whose size is not 0. *)
ring_pull(r) ==
  Struct(Masked(r.head + 1, r.capc), r.tail, r.size - 1, r.capc, r.data)

(* Mutant of Oldest: head advances before the item is read. *)
OldestAfter(r) == r.data[Masked(r.head + 1, r.capc)]

Oldest(r) == r.data[r.head]

PullDefined(r) == r.size > 0 => r.head \in DOMAIN r.data

ring_empty(r) == r.head = r.tail

ring_full(r) == Masked(r.head, r.capc) = Masked(r.tail + 1, r.capc)

-----------------------------------------------------------------------------
(* The values of a ring struct.  capc is a mask, one less than a power of  *)
(* two; the data array has the slots that capc says or is NULL, lost in a  *)
(* failed allocation.                                                      *)

Usable(r) == r.data # NULL

WellFormed(r) ==
  /\ r \in [head : Nat, tail : Nat, size : Nat,
            capc : {p - 1 : p \in Powers}, data : {r.data}]
  /\ Usable(r) => r.data \in [0 .. r.capc -> Items \cup {Unset}]

(* The slot of the i-th oldest item, and the items from oldest to newest. *)
SlotOf(r, i) ==
  IF r.head + i - 1 <= r.capc THEN r.head + i - 1
                              ELSE r.head + i - 1 - (r.capc + 1)

Contents(r) == [i \in 1 .. r.size |-> r.data[SlotOf(r, i)]]

(* The number of slots from the head up to the tail. *)
Span(r) == IF r.head <= r.tail THEN r.tail - r.head
                               ELSE r.tail - r.head + r.capc + 1
=============================================================================

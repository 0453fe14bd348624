-------------------------------- MODULE Ring --------------------------------
(***************************************************************************)
(* A ring of container/ring and the calls made on it.  Each action is one  *)
(* whole call; ret is what it returned.                                    *)
(*                                                                         *)
(* A push that grows the ring stores the next_tail it computed for the old *)
(* capacity.  That is the right slot unless the tail was the last slot:    *)
(* then next_tail is 0, which is also the head, and the full ring looks    *)
(* empty.  Three clients are told apart:                                   *)
(*                                                                         *)
(*   Spec           makes any call the C code defines, also after a        *)
(*                  failed growth has left data NULL                       *)
(*   EagerSpec      drops a ring whose growth failed, pushes when it likes *)
(*   FifoClientSpec also does not push when the ring is full with its tail *)
(*                  in the last slot                                       *)
(***************************************************************************)
EXTENDS RingOps

CONSTANTS
  Sizes,   \* the sizes clients pass to ring_create and ring_realloc
  NoItem   \* the value of an answer that has none

(* A size so large that its slot count wraps to 0 is not passed. *)
ASSUME SizesAssumption ==
  /\ Sizes \subseteq Nat
  /\ \A n \in Sizes : SlotsFor(n) # 0

VARIABLES
  open,    \* the client has a ring: *ring is not 0
  ring,
  ret

vars == <<open, ring, ret>>

Answer(op, err, val) == [op |-> op, err |-> err, val |-> val]

Init ==
  /\ open = FALSE
  /\ ring = ZeroRing
  /\ ret = Answer("none", 0, NoItem)

(* The struct could not be allocated. *)
CreateNoRing ==
  /\ ~ open
  /\ ret' = Answer("create", -1, NoItem)
  /\ UNCHANGED <<open, ring>>

(* The struct was allocated; its data array is or is not. *)
Create(n, ok) ==
  /\ ~ open
  /\ open' = TRUE
  /\ LET made == Allocates(SlotsFor(n), ok)
     IN  /\ ring' = IF made THEN NewRing(n) ELSE ZeroRing
         /\ ret' = Answer("create", IF made THEN 0 ELSE -1, NoItem)

Realloc(n, ok) ==
  /\ open
  /\ ring' = ring_realloc(ring, n, ok).ring
  /\ ret' = Answer("realloc", ring_realloc(ring, n, ok).err, NoItem)
  /\ UNCHANGED open

Push(v, ok) ==
  /\ open
  /\ PushDefined(ring, ok)
  /\ ring' = ring_push(ring, v, ok).ring
  /\ ret' = Answer("push", ring_push(ring, v, ok).err, NoItem)
  /\ UNCHANGED open

Pull ==
  /\ open
  /\ PullDefined(ring)
  /\ IF ring.size <= 0
     THEN /\ UNCHANGED ring
          /\ ret' = Answer("pull", -1, NoItem)
     ELSE /\ ring' = ring_pull(ring)
          /\ ret' = Answer("pull", 0, Oldest(ring))
  /\ UNCHANGED open

Empty ==
  /\ open
  /\ ret' = Answer("empty", 0, ring_empty(ring))
  /\ UNCHANGED <<open, ring>>

Full ==
  /\ open
  /\ ret' = Answer("full", 0, ring_full(ring))
  /\ UNCHANGED <<open, ring>>

(* ring_delete frees the struct (and not the data array) and zeroes *ring. *)
Delete ==
  /\ open
  /\ open' = FALSE
  /\ ring' = ZeroRing
  /\ ret' = Answer("delete", 0, NoItem)

-----------------------------------------------------------------------------

Next ==
  \/ CreateNoRing
  \/ \E n \in Sizes, ok \in BOOLEAN : Create(n, ok)
  \/ \E n \in Sizes, ok \in BOOLEAN : Realloc(n, ok)
  \/ \E v \in Items, ok \in BOOLEAN : Push(v, ok)
  \/ Pull
  \/ Empty
  \/ Full
  \/ Delete

Spec == Init /\ [][Next]_vars

EagerNext ==
  \/ CreateNoRing
  \/ \E n \in Sizes, ok \in BOOLEAN : Create(n, ok)
  \/ Usable(ring) /\ \E n \in Sizes, ok \in BOOLEAN : Realloc(n, ok)
  \/ Usable(ring) /\ \E v \in Items, ok \in BOOLEAN : Push(v, ok)
  \/ Usable(ring) /\ Pull
  \/ Usable(ring) /\ Empty
  \/ Usable(ring) /\ Full
  \/ Delete

EagerSpec == Init /\ [][EagerNext]_vars

(* Full with the tail in the last slot, so the head is in slot 0. *)
FullAtEnd == ring.tail = ring.capc /\ ring.head = 0

FifoClientNext ==
  \/ CreateNoRing
  \/ \E n \in Sizes, ok \in BOOLEAN : Create(n, ok)
  \/ Usable(ring) /\ \E n \in Sizes, ok \in BOOLEAN : Realloc(n, ok)
  \/ Usable(ring) /\ ~ FullAtEnd /\ \E v \in Items, ok \in BOOLEAN : Push(v, ok)
  \/ Usable(ring) /\ Pull
  \/ Usable(ring) /\ Empty
  \/ Usable(ring) /\ Full
  \/ Delete

FifoClientSpec == Init /\ [][FifoClientNext]_vars

-----------------------------------------------------------------------------

Abstract == INSTANCE Fifo
            WITH queue <- IF Usable(ring) THEN Contents(ring) ELSE <<>>,
                 None <- NoItem

(* The values of the variables. *)
TypeOK == open \in BOOLEAN /\ WellFormed(ring)

(* Head and tail stay inside the array, so no push, pull or memmove goes   *)
(* outside the data array that the last calloc or realloc returned.        *)
(* RingProofs proves it of Spec, whose client calls on after items were    *)
(* lost or a growth failed; the client of the run drops a failed ring.     *)
IndicesInBounds ==
  /\ ring.head \in 0 .. ring.capc
  /\ ring.tail \in 0 .. ring.capc

(* The counter that ring_pull trusts and the indices that ring_empty and   *)
(* ring_full trust tell the same: the ring holds size items, with one slot *)
(* left over so that a full ring does not look empty.                      *)
CountsAgree == Usable(ring) => ring.size = Span(ring)

(* Between head and tail there is no slot that no push has written: a pull *)
(* never returns what realloc left in the new part of the array.           *)
NoUnsetItem == Usable(ring) => \A i \in 1 .. ring.size : ring.data[SlotOf(ring, i)] # Unset

(* The ring is a queue for its client: pulls return the pushed items, once *)
(* each and in order, across wrapping, growth and reallocation.            *)
IsFifo == Abstract!Spec
=============================================================================

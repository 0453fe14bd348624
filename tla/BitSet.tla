-------------------------------- MODULE BitSet --------------------------------
(***************************************************************************)
(* What a bitmap promises: a set of positions below its room.  A pop takes *)
(* out the least position if that lies in the first Width positions; when  *)
(* none does, it leaves the set alone and its answer means nothing.        *)
(***************************************************************************)
EXTENDS Integers

CONSTANTS Width, Positions

VARIABLES set, room, ret

vars == <<set, room, ret>>

(* What a call without a position is told by. *)
NoPos == -1

Answer(op, at, val) == [op |-> op, at |-> at, val |-> val]

Bool(b) == IF b THEN 1 ELSE 0

Init ==
  /\ set = {} /\ room = 0
  /\ ret = Answer("none", NoPos, 0)

Create ==
  /\ set' = {} /\ room' \in Nat
  /\ ret' = Answer("create", NoPos, 0)

Add(p) ==
  /\ p < room
  /\ set' = set \cup {p}
  /\ ret' = Answer("set", p, Bool(p \notin set))
  /\ UNCHANGED room

TakeOut(p) ==
  /\ p < room
  /\ set' = set \ {p}
  /\ ret' = Answer("unset", p, Bool(p \in set))
  /\ UNCHANGED room

Get(p) ==
  /\ p < room
  /\ ret' = Answer("get", p, Bool(p \in set))
  /\ UNCHANGED <<set, room>>

AddAll ==
  /\ set' = 0 .. room - 1
  /\ ret' = Answer("set_all", NoPos, 0)
  /\ UNCHANGED room

TakeOutAll ==
  /\ set' = {}
  /\ ret' = Answer("unset_all", NoPos, 0)
  /\ UNCHANGED room

PopLeast(p) ==
  /\ p < Width
  /\ \A q \in set : p <= q
  /\ set' = set \ {p}
  /\ ret' = Answer("pop", NoPos, p)
  /\ UNCHANGED room

PopNothing ==
  /\ \A q \in set : q >= Width
  /\ \E val \in -1 .. Width - 1 : ret' = Answer("pop", NoPos, val)
  /\ UNCHANGED <<set, room>>

Next ==
  \/ Create
  \/ \E p \in Positions : Add(p) \/ TakeOut(p) \/ Get(p)
  \/ AddAll
  \/ TakeOutAll
  \/ \E p \in set : PopLeast(p)
  \/ PopNothing

Spec == Init /\ [][Next]_vars
=============================================================================

-------------------------------- MODULE Pool --------------------------------
(***************************************************************************)
(* What a block allocator promises: it owns some blocks, lends each to one *)
(* holder at a time, and lends the block that has been free longest.       *)
(***************************************************************************)
EXTENDS Sequences, FiniteSets, Functions

CONSTANT NoBlock   \* the answer of an operation that lends nothing

VARIABLES
  free,   \* the blocks that can be lent, the next one first
  lent,   \* the blocks that are held
  got     \* what the last operation answered

vars == <<free, lent, got>>

Init ==
  /\ free = <<>>
  /\ lent = {}
  /\ got = NoBlock

(* The pool gets its blocks, each once, or returns all of them. *)
Stock ==
  /\ IsInjective(free')
  /\ lent' = {}
  /\ got' = NoBlock

Lend ==
  /\ free # <<>>
  /\ free' = Tail(free)
  /\ lent' = lent \cup {Head(free)}
  /\ got' = Head(free)

Return ==
  \E b \in lent :
    /\ free' = Append(free, b)
    /\ lent' = lent \ {b}
    /\ got' = NoBlock

Next == Stock \/ Lend \/ Return

Spec == Init /\ [][Next]_vars
=============================================================================

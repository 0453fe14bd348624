------------------------------ MODULE PutTwice ------------------------------
(***************************************************************************)
(* The allocator and a client without discipline: it gets blocks beyond the*)
(* number that there are, and puts back pointers that it has put back      *)
(* before.  It never makes a pointer up.                                   *)
(***************************************************************************)
EXTENDS Allocator

(* Every offset of the run's small regions, and every difference of two    *)
(* addresses, is an item.                                                  *)
MCItems == -300 .. 300

MCBases == {100, 200}

VARIABLE returned   \* history: the pointers put back and not lent again since

put_twice_vars == <<vars, returned>>

Remember ==
  returned' = IF phase' = "none" THEN {} ELSE (returned \cup (lent \ lent')) \ lent'

PutTwiceInit == Init /\ returned = {}

Calls ==
  \/ Step
  \/ Grew
  \/ \E b \in Bases, ok \in BOOLEAN : GetMemory(b, ok)
  \/ \E p \in (lent \cup returned) \ {Unset}, ok \in BOOLEAN : PutMemory(p, ok)

PutTwiceNext == Calls /\ Remember

PutTwiceSpec == PutTwiceInit /\ [][PutTwiceNext]_put_twice_vars

-----------------------------------------------------------------------------
(* A put of a pointer that was lent, put back and not lent again is        *)
(* reported.  The message at allocator.c:66, the only one of put_memory,   *)
(* says that a pointer returned more than once is what it complains about. *)
DoublePutReported ==
  [][\A p \in returned, ok \in BOOLEAN : PutMemory(p, ok) => got' = "reported"]_put_twice_vars
=============================================================================

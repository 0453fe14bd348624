--------------------------------- MODULE Dict ---------------------------------
(***************************************************************************)
(* What a trie promises: a dictionary from keys to values.  An insertion   *)
(* does not replace a value.  ret tells the last call, its key and what it *)
(* answered.                                                               *)
(***************************************************************************)
EXTENDS Integers

CONSTANTS Keys, Vals, None

VARIABLES dict, ret

vars == <<dict, ret>>

Answer(op, key, err, val) == [op |-> op, key |-> key, err |-> err, val |-> val]

Held == DOMAIN dict

Init ==
  /\ dict = [k \in {} |-> None]
  /\ ret = Answer("none", None, 0, None)

Clear ==
  /\ dict' = [k \in {} |-> None]
  /\ ret' \in {Answer("create", None, 0, None), Answer("delete", None, 0, None)}

Insert(k, v) ==
  /\ k \notin Held
  /\ dict' = [j \in Held \cup {k} |-> IF j = k THEN v ELSE dict[j]]
  /\ ret' = Answer("insert", k, 0, None)

Remove(k) ==
  /\ k \in Held
  /\ dict' = [j \in Held \ {k} |-> dict[j]]
  /\ ret' = Answer("remove", k, 0, dict[k])

Find(k) ==
  /\ k \in Held
  /\ UNCHANGED dict
  /\ ret' = Answer("search", k, 0, None)

InsertHeld(k) ==
  /\ k \in Held
  /\ UNCHANGED dict
  /\ ret' = Answer("insert", k, -1, None)

Miss(k) ==
  /\ k \notin Held
  /\ UNCHANGED dict
  /\ \E op \in {"remove", "search"} : ret' = Answer(op, k, -1, None)

Next ==
  \/ Clear
  \/ \E k \in Keys :
       \/ \E v \in Vals : Insert(k, v)
       \/ InsertHeld(k)
       \/ Remove(k)
       \/ Find(k)
       \/ Miss(k)

Spec == Init /\ [][Next]_vars
=============================================================================

----------------------------- MODULE OrderedBag -----------------------------
(***************************************************************************)
(* What ordered trees promise: each is a collection of elements, a key and *)
(* a value each, kept in the order of their keys.  Keys may repeat; a call *)
(* that names a key acts on one element that has it.  A call on a tree     *)
(* leaves the other trees alone.                                           *)
(***************************************************************************)
EXTENDS Integers, SequencesExt

CONSTANTS Trees, Keys, Vals, None

VARIABLES
  elems,   \* the elements of each tree, in order
  ret      \* the error code and value of the last call on each tree

vars == <<elems, ret>>

Answer(err, val) == [err |-> err, val |-> val]

Key(e) == e[1]
Val(e) == e[2]

Sorted(s) == \A i, j \in DOMAIN s : i < j => Key(s[i]) <= Key(s[j])

Init ==
  /\ elems = [t \in Trees |-> <<>>]
  /\ ret = [t \in Trees |-> Answer(0, None)]

(* The call on t leaves s and answers a. *)
Becomes(t, s, a) ==
  /\ elems' = [elems EXCEPT ![t] = s]
  /\ ret' = [ret EXCEPT ![t] = a]

Clear(t) == Becomes(t, <<>>, Answer(0, None))

Insert(t, k, v) ==
  \E i \in 1 .. Len(elems[t]) + 1 :
    LET s == InsertAt(elems[t], i, <<k, v>>)
    IN  Sorted(s) /\ Becomes(t, s, Answer(0, None))

(* A call that takes an element out may answer its value. *)
TakeOut(t, i) ==
  \E val \in {Val(elems[t][i]), None} : Becomes(t, RemoveAt(elems[t], i), Answer(0, val))

Update(t, i, v) ==
  Becomes(t, [elems[t] EXCEPT ![i] = <<Key(elems[t][i]), v>>], Answer(0, None))

(* The call finds no element to act on. *)
Miss(t) == Becomes(t, elems[t], Answer(-1, None))

Next ==
  \E t \in Trees :
    \/ Clear(t)
    \/ \E k \in Keys, v \in Vals : Insert(t, k, v)
    \/ \E i \in DOMAIN elems[t] : TakeOut(t, i) \/ \E v \in Vals : Update(t, i, v)
    \/ Miss(t)

Spec == Init /\ [][Next]_vars
=============================================================================

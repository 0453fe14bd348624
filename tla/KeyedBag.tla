------------------------------- MODULE KeyedBag -------------------------------
(***************************************************************************)
(* What one ordered tree promises, call by call: a collection of elements, *)
(* a key and a value each, in the order of their keys, which may repeat.   *)
(* A call that takes time begins in one step and takes effect in a later   *)
(* one; others do both at once.  ret tells the last call, what it was      *)
(* given, and its answer once it has one.                                  *)
(***************************************************************************)
EXTENDS Integers, SequencesExt

CONSTANTS Keys, Vals, Indexes, None, Pending

VARIABLES elems, ret

vars == <<elems, ret>>

Answer(op, arg, err, val) == [op |-> op, arg |-> arg, err |-> err, val |-> val]

Init == elems = <<>> /\ ret = Answer("none", <<>>, 0, None)

InProgress == ret.err = Pending

(* The call in progress is the one that answers. *)
Answers(op, arg, err, val) ==
  /\ InProgress => ret.op = op /\ ret.arg = arg
  /\ ret' = Answer(op, arg, err, val)

Begin(op, arg) ==
  /\ ~InProgress
  /\ ret' = Answer(op, arg, Pending, None)
  /\ UNCHANGED elems

Key(e) == e[1]
Val(e) == e[2]

Sorted(s) == \A i, j \in DOMAIN s : i < j => Key(s[i]) <= Key(s[j])

Places(k) == {i \in DOMAIN elems : Key(elems[i]) = k}

Clear == \E op \in {"create", "delete tree"} : elems' = <<>> /\ Answers(op, <<>>, 0, None)

Insert(k, v) ==
  /\ Answers("insert", <<k, v>>, 0, None)
  /\ \E i \in 1 .. Len(elems) + 1 :
       elems' = InsertAt(elems, i, <<k, v>>) /\ Sorted(elems')

Update(k, v) ==
  \E i \in Places(k) :
    Answers("update", <<k, v>>, 0, None) /\ elems' = [elems EXCEPT ![i] = <<k, v>>]

TakeOut(k) ==
  \E i \in Places(k) :
    Answers("remove", <<k>>, 0, Val(elems[i])) /\ elems' = RemoveAt(elems, i)

(* Indexes count from 0. *)
DeleteAt(i) ==
  /\ i < Len(elems)
  /\ Answers("delete", <<i>>, 0, Val(elems[i + 1])) /\ elems' = RemoveAt(elems, i + 1)

(* The iterator is at the i-th element. *)
Discard(i) == Answers("discard", <<i>>, 0, None) /\ elems' = RemoveAt(elems, i)

(* There is no element to act on. *)
Misses ==
  /\ UNCHANGED elems
  /\ \/ \E k \in Keys : Places(k) = {} /\
          \/ Answers("remove", <<k>>, -1, None)
          \/ \E v \in Vals : Answers("update", <<k, v>>, -1, None)
     \/ \E i \in Indexes : i >= Len(elems) /\ Answers("delete", <<i>>, -1, None)

Next ==
  \/ Clear
  \/ Misses
  \/ \E k \in Keys :
       \/ TakeOut(k) \/ Begin("remove", <<k>>)
       \/ \E v \in Vals : Insert(k, v) \/ Begin("insert", <<k, v>>) \/ Update(k, v)
  \/ \E i \in DOMAIN elems : Discard(i) \/ Begin("discard", <<i>>)
  \/ \E i \in Indexes : DeleteAt(i) \/ Begin("delete", <<i>>)

Spec == Init /\ [][Next]_vars
=============================================================================

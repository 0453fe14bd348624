------------------------------- MODULE BSearch -------------------------------
(***************************************************************************)
(* utils/bsearch: binary_search over a sorted array, one iteration of its  *)
(* loop per step, and binary_search_insert_pos, which turns its answer into*)
(* a position to insert at.  The client's comparator is the order of the   *)
(* integers; lengths are below INT_MAX, so that head, tail and the negative*)
(* answers are ints.                                                       *)
(***************************************************************************)
EXTENDS Integers

CONSTANTS
  Values,      \* what the arrays hold and clients look for
  MaxLen       \* the length of the longest array

ASSUME ValuesAssumption == Values \subseteq Int

ASSUME MaxLenAssumption == MaxLen \in Nat

VARIABLES
  len, arr, target,  \* the arguments of the last call
  head, tail,        \* the locals of binary_search
  answer,            \* its answer
  searching          \* it has not answered yet

bsearch_vars == <<len, arr, target, head, tail, answer, searching>>

Sorted(a, n) == \A i, j \in 0 .. n - 1 : i <= j => a[i] <= a[j]

(* No call yet: the same as a search of an array without elements. *)
BSearchInit ==
  /\ len = 0 /\ arr = [i \in {} |-> 0] /\ target = 0
  /\ head = -1 /\ tail = 0
  /\ answer = -1
  /\ searching = FALSE

(* The client calls binary_search. *)
binary_search(n, a, x) ==
  /\ ~searching
  /\ len' = n /\ arr' = a /\ target' = x
  /\ head' = -1 /\ tail' = n
  /\ searching' = TRUE
  /\ UNCHANGED answer

Mid == head + (tail - head) \div 2

cmp(a, b) == a - b

(* Mutant of Below: the search goes on to the right of an equal element. *)
BelowOrAt(i) == cmp(target, arr[i]) >= 0

Below(i) == cmp(target, arr[i]) > 0

Narrow ==
  /\ searching
  /\ head + 1 < tail
  /\ IF Below(Mid)
     THEN head' = Mid /\ UNCHANGED tail
     ELSE tail' = Mid /\ UNCHANGED head
  /\ UNCHANGED <<len, arr, target, answer, searching>>

Missing == tail = len \/ cmp(target, arr[tail]) # 0

AnswerSearch ==
  /\ searching
  /\ head + 1 >= tail
  /\ answer' = IF Missing THEN -1 - tail ELSE tail
  /\ searching' = FALSE
  /\ UNCHANGED <<len, arr, target, head, tail>>

BSearchLoop == Narrow \/ AnswerSearch

BSearchNext ==
  \/ \E n \in 0 .. MaxLen, x \in Values :
       \E a \in {b \in [0 .. n - 1 -> Values] : Sorted(b, n)} : binary_search(n, a, x)
  \/ BSearchLoop

(* A search does not stop in the middle. *)
BSearchSpec == BSearchInit /\ [][BSearchNext]_bsearch_vars /\ WF_bsearch_vars(BSearchLoop)

-----------------------------------------------------------------------------
(* What is left to look at lies in the array, and the loop reads inside it.*)
BSearchTypeOK ==
  /\ len \in 0 .. MaxLen
  /\ DOMAIN arr = 0 .. len - 1
  /\ \A i \in 0 .. len - 1 : arr[i] \in Int
  /\ target \in Int
  /\ head \in -1 .. len - 1
  /\ tail \in 0 .. len
  /\ answer \in Int
  /\ searching \in BOOLEAN

(* Everything up to head is below the target and nothing from tail on is:  *)
(* the loop of bsearch.c:5-12 never drops the place of the target.         *)
Bracketed ==
  /\ head < tail
  /\ \A i \in 0 .. head : arr[i] < target
  /\ \A i \in tail .. len - 1 : arr[i] >= target

(* The position after all smaller elements and before all others. *)
IsPlace(p) ==
  /\ p \in 0 .. len
  /\ \A i \in 0 .. p - 1 : arr[i] < target
  /\ \A i \in p .. len - 1 : arr[i] >= target

Holds == \E i \in 0 .. len - 1 : arr[i] = target

(* An answer that is not negative is the first of the elements equal to the*)
(* target; a negative one says that there is none, and -1 - answer is where*)
(* it goes, as the comments of bsearch.c:14 and bsearch.h:6-8 say.         *)
FindsPlace ==
  ~searching =>
    /\ answer >= 0 <=> Holds
    /\ IsPlace(IF answer >= 0 THEN answer ELSE -1 - answer)

insert_pos(idx) == IF idx > 0 THEN idx ELSE -1 - idx

(* What binary_search_insert_pos makes of an answer is where the target    *)
(* goes: bsearch.h:6-8 has an index that is not negative stand for itself  *)
(* and - ret - 1 for the others.                                           *)
InsertPosIsPlace == ~searching => IsPlace(insert_pos(answer))

(* The part that is left to look at shrinks with every iteration. *)
SearchShrinks == [][searching /\ searching' => tail' - head' < tail - head]_bsearch_vars
=============================================================================

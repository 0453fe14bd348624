-------------------------------- MODULE CList --------------------------------
(***************************************************************************)
(* container/list/clist.h: a circular doubly linked list.  The list is a   *)
(* node like the others, whose data counts them.  clist_destroy frees one  *)
(* node per step; the other calls are one step each.  A pop from an empty  *)
(* list would unlink and free the list itself: the client asks clist_size  *)
(* first.                                                                  *)
(***************************************************************************)
EXTENDS Integers, Sequences, FiniteSets

CONSTANTS
  Cells,      \* addresses of nodes
  Payloads,   \* what clients store
  Null,       \* the null pointer
  NoNode      \* what the heap has where no node is allocated

ASSUME CellsAssumption == IsFiniteSet(Cells) /\ Null \notin Cells

(* struct clist; its prev and next stand for those of its link. *)
ListNodes == [prev : Cells, next : Cells \cup {Null}, data : Payloads \cup Nat]

ASSUME NoNodeAssumption == NoNode \notin ListNodes

VARIABLES
  cells,      \* the nodes at their addresses
  clist,      \* the client's pointer to the list
  cursor,     \* the local node of clist_destroy, Null if it is not running
  clist_ret   \* history: the answer to the last call

clist_vars == <<cells, clist, cursor, clist_ret>>

Used == {n \in Cells : cells[n] # NoNode}

CListAnswer(op, err, val) == [op |-> op, err |-> err, val |-> val]

CListInit ==
  /\ cells = [n \in Cells |-> NoNode]
  /\ clist = Null /\ cursor = Null
  /\ clist_ret = CListAnswer("none", 0, Null)

Ready == clist # Null /\ cursor = Null

clist_size == cells[clist].data

clist_head == cells[clist].next

clist_tail == cells[clist].prev

clist_create ==
  /\ clist = Null
  /\ \E n \in Cells \ Used :
       /\ cells' = [cells EXCEPT ![n] = [prev |-> n, next |-> n, data |-> 0]]
       /\ clist' = n
  /\ clist_ret' = CListAnswer("create", 0, Null)
  /\ UNCHANGED cursor

(* Mutant of Linked: the list does not hear of its new last node. *)
LinkedOneWay(h, e, v, last) ==
  [h EXCEPT ![e] = [prev |-> last, next |-> h[last].next, data |-> v], ![last].next = e]

(* Mutant of Linked: the new node goes before the last one. *)
LinkedBefore(h, e, v, last) ==
  LET h1 == [h EXCEPT ![e] = [prev |-> h[last].prev, next |-> last, data |-> v]]
      h2 == [h1 EXCEPT ![h1[last].prev].next = e]
  IN  [h2 EXCEPT ![last].prev = e]

(* Node e with v between the last node and the one after it. *)
Linked(h, e, v, last) ==
  LET h1 == [h EXCEPT ![e] = [prev |-> last, next |-> h[last].next, data |-> v]]
      h2 == [h1 EXCEPT ![h1[last].next].prev = e]
  IN  [h2 EXCEPT ![last].next = e]

clist_push_back(v) ==
  /\ Ready
  /\ \E e \in Cells \ Used :
       cells' = [Linked(cells, e, v, clist_tail) EXCEPT ![clist].data = @ + 1]
  /\ clist_ret' = CListAnswer("push", 0, Null)
  /\ UNCHANGED <<clist, cursor>>

Unlinked(h, n) ==
  LET h1 == [h EXCEPT ![h[n].prev].next = h[n].next]
  IN  [h1 EXCEPT ![h1[n].next].prev = h1[n].prev]

clist_pop_front ==
  /\ Ready
  /\ clist_size > 0
  /\ LET n == clist_head
     IN  /\ cells' = [Unlinked(cells, n) EXCEPT ![n] = NoNode, ![clist].data = @ - 1]
         /\ clist_ret' = CListAnswer("pull", 0, cells[n].data)
  /\ UNCHANGED <<clist, cursor>>

(* Mutant of CutOpen: the circle is cut behind the list and not before it. *)
CutBehind(h, n) == [h EXCEPT ![n].next = Null]

(* The last node is to end the loop. *)
CutOpen(h, n) == [h EXCEPT ![h[n].prev].next = Null]

clist_destroy ==
  /\ Ready
  /\ cells' = CutOpen(cells, clist)
  /\ cursor' = clist
  /\ UNCHANGED <<clist, clist_ret>>

(* The loop frees the node it is at; the last time, the call returns. *)
DestroyNode ==
  /\ cursor # Null
  /\ cells' = [cells EXCEPT ![cursor] = NoNode]
  /\ cursor' = cells[cursor].next
  /\ IF cells[cursor].next = Null
     THEN clist' = Null /\ clist_ret' = CListAnswer("delete", 0, Null)
     ELSE UNCHANGED <<clist, clist_ret>>

CListNext ==
  \/ clist_create
  \/ \E v \in Payloads : clist_push_back(v)
  \/ clist_pop_front
  \/ clist_destroy
  \/ DestroyNode

CListSpec == CListInit /\ [][CListNext]_clist_vars /\ WF_clist_vars(DestroyNode)

-----------------------------------------------------------------------------
(* The nodes that the pointers f lead to from n on, before stop. *)
Walk(f, n, stop) ==
  LET at[k \in 0 .. Cardinality(Cells)] ==
        IF k = 0 THEN n ELSE IF at[k - 1] = stop THEN stop ELSE f[at[k - 1]]
      Met == {k \in 0 .. Cardinality(Cells) - 1 : at[k] # stop}
  IN  [i \in 1 .. Cardinality(Met) |-> at[i - 1]]

Nexts == [n \in Used |-> cells[n].next]

Prevs == [n \in Used |-> cells[n].prev]

Forward == Walk(Nexts, clist_head, clist)

Backward == Walk(Prevs, clist_tail, clist)

(* The next and the prev pointers give the same nodes in opposite orders,  *)
(* and the list counts them: pushes and pops rewrite both.                 *)
BothWays ==
  Ready =>
    /\ clist_size = Len(Forward)
    /\ Len(Backward) = Len(Forward)
    /\ \A i \in DOMAIN Forward : Backward[Len(Forward) + 1 - i] = Forward[i]

(* Every allocated node is on the list, or ahead of the loop that frees    *)
(* them: none is lost, and that loop frees each once and stops.            *)
NothingLost ==
  LET reached == CASE clist = Null -> <<>>
                   [] Ready        -> <<clist>> \o Forward
                   [] OTHER        -> Walk(Nexts, cursor, Null)
  IN  Used = {reached[i] : i \in DOMAIN reached}

Queue == IF Ready THEN [i \in DOMAIN Forward |-> cells[Forward[i]].data] ELSE <<>>

(* A list that is being destroyed is already gone for the client. *)
Told == IF cursor = Null THEN clist_ret ELSE CListAnswer("delete", 0, Null)

FifoAs == INSTANCE Fifo WITH Items <- Payloads, None <- Null, queue <- Queue, ret <- Told

(* Pushing back and popping the front make a queue. *)
IsQueue == FifoAs!Spec
=============================================================================

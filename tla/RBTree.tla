------------------------------- MODULE RBTree -------------------------------
(***************************************************************************)
(* container/rbtree/rbtree.c: red-black trees that share one head and one  *)
(* tail sentinel.  A call searches in one step and then changes the tree   *)
(* loop iteration by loop iteration: pc is the loop it is in, node the     *)
(* node it is at.  A failed assert ends the program (pc = "abort"); the    *)
(* library is built without NDEBUG.                                        *)
(*                                                                         *)
(* No call frees a node, so a node that leaves its tree is lost; the model *)
(* forgets it and may give its address to a later node.  Addresses are     *)
(* never compared in order, so that choice is fixed (see Fresh).           *)
(*                                                                         *)
(* A call writes the words of the sentinels before it reads them.  Between *)
(* calls an instance either keeps them or, to have fewer states, spoils    *)
(* them; a read of a spoilt word makes TLC fail.                           *)
(***************************************************************************)
EXTENDS RBHeap

CONSTANTS
  Trees,           \* the trees of the program
  Keys, Vals,      \* what the clients store; keys are integers
  key_cmp(_, _),   \* the comparator given to rbtree_create
  KeepsWords,      \* are the words of the sentinels kept between calls?
  NoTree,          \* the root of a tree that does not exist
  None             \* no value

ASSUME NodesAssumption == Nodes \subseteq Nat

ASSUME KeysAssumption == Keys \subseteq Int

ASSUME KeepsAssumption == KeepsWords \in BOOLEAN

(* struct rbtree_node *)
NodeStructs ==
  [size : Nat \ {0}, up : Nodes \cup {head}, idx : 0 .. 1, red : BOOLEAN,
   child : [0 .. 1 -> Nodes \cup {tail}], key : Keys, val : Vals]

ASSUME MarksAssumption ==
  Unallocated \notin NodeStructs /\ NoTree \notin Nodes \cup {tail} /\ None \notin Trees

VARIABLES
  heap,   \* the nodes and the sentinels
  root,   \* tree->root of each tree
  pc,     \* the loop the call in progress is in
  tree,   \* the tree it works on
  node,   \* the node it is at
  cut,    \* the locals node, parent and lchild or rchild of rbtree_iter_discard
  out,    \* what the call will store through its val argument
  seen,   \* history: the elements of each tree when a call on it last returned
  ret     \* history: what the last call on each tree answered

vars == <<heap, root, pc, tree, node, cut, out, seen, ret>>

NoCut == [victim |-> tail, parent |-> tail, child |-> tail]

Answer(err, val) == [err |-> err, val |-> val]

Free == Nodes \ Allocated(heap)

(* The address of a new node, free and otherwise arbitrary. *)
Fresh(k) == IF k \in Free THEN k ELSE CHOOSE n \in Free : \A m \in Free : n <= m

Live == {t \in Trees : root[t] # NoTree}

Members(t) == {NodesInOrder(heap, root[t])[i] : i \in DOMAIN NodesInOrder(heap, root[t])}

-----------------------------------------------------------------------------
(* Searches and iterators, which read the tree h below r. *)

(* __rbtree_iter_value; tail stands for -1, as in the rest of the module. *)
iter_value(h, r, k) ==
  Follow([n \in Places(h) |-> n = tail \/ key_cmp(k, h[n].key) = 0],
         [n \in Places(h) |-> h[n].child[IF key_cmp(k, h[n].key) > 0 THEN 1 ELSE 0]], r)

(* __rbtree_iter_index, by the sizes the nodes hold: a node, and the index *)
(* below it.                                                               *)
iter_index(h, r, i) ==
  LET lsize(n) == h[h[n].child[0]].size
  IN  Follow([x \in Places(h) \X Nat |-> x[1] = tail \/ x[2] = lsize(x[1])],
             [x \in Places(h) \X Nat |->
                IF x[2] > lsize(x[1]) THEN <<h[x[1]].child[1], x[2] - lsize(x[1]) - 1>>
                                      ELSE <<h[x[1]].child[0], x[2]>>], <<r, i>>)[1]

(* Mutant of InsertSide: the operands are swapped. *)
InsertSideSwapped(h, n, k) == IF h[n].key - k > 0 THEN 1 ELSE 0

(* The child of n to insert key k below: the comparator is not asked. *)
InsertSide(h, n, k) == IF k - h[n].key > 0 THEN 1 ELSE 0

(* The leaf to insert key k below. *)
InsertPoint(h, r, k) ==
  Follow([n \in Places(h) |-> h[n].child[InsertSide(h, n, k)] = tail],
         [n \in Places(h) |-> h[n].child[InsertSide(h, n, k)]], r)

(* The last node down from r that the child pointers i lead to. *)
Extreme(h, r, i) ==
  Follow([n \in Places(h) |-> h[n].child[i] = tail], [n \in Places(h) |-> h[n].child[i]], r)

iter_head(h, r) == Extreme(h, r, 0)

iter_tail(h, r) == Extreme(h, r, 1)

(* The nearest ancestor that has n or n's ancestor as its child i. *)
Climb(h, n, i) ==
  LET m == Follow([m \in Allocated(h) |-> h[m].up = head \/ h[m].idx = i],
                  [m \in Allocated(h) |-> h[m].up], n)
  IN  IF h[m].up = head THEN tail ELSE h[m].up

iter_next(h, n) ==
  IF h[n].child[1] # tail THEN Extreme(h, h[n].child[1], 0) ELSE Climb(h, n, 0)

(* Mutant of iter_prev: it climbs like iter_next. *)
iter_prev_climbing(h, n) ==
  IF h[n].child[0] # tail THEN Extreme(h, h[n].child[0], 1) ELSE Climb(h, n, 0)

iter_prev(h, n) ==
  IF h[n].child[0] # tail THEN Extreme(h, h[n].child[0], 1) ELSE Climb(h, n, 1)

-----------------------------------------------------------------------------
Init ==
  /\ heap = EmptyHeap
  /\ root = [t \in Trees |-> NoTree]
  /\ pc = "idle" /\ tree = None /\ node = tail /\ cut = NoCut /\ out = None
  /\ seen = [t \in Trees |-> <<>>]
  /\ ret = [t \in Trees |-> Answer(0, None)]

(* The heap without what the sentinels were last made to point at. *)
Spoilt(h) ==
  [h EXCEPT ![tail].up = Unallocated, ![tail].idx = 0,
            ![head].child[0] = Unallocated, ![head].size = 0]

(* What is kept of a heap between calls. *)
Residue(h) == IF KeepsWords THEN h ELSE Spoilt(h)

Idle(t) == pc = "idle" /\ t \in Live

(* The call on t returns; what it leaves is heap' and root'. *)
Return(t, err, val) ==
  /\ pc' = "idle" /\ tree' = None /\ node' = tail /\ cut' = NoCut /\ out' = None
  /\ seen' = [seen EXCEPT ![t] = IF root'[t] = NoTree THEN <<>> ELSE InOrder(heap', root'[t])]
  /\ ret' = [ret EXCEPT ![t] = Answer(err, val)]

(* The call goes on in loop l at node n. *)
Enter(l, n) ==
  /\ pc' = l /\ node' = n
  /\ UNCHANGED <<seen, ret>>

Abort == Enter("abort", node) /\ UNCHANGED <<heap, root, tree, cut, out>>

Create(t) ==
  /\ pc = "idle" /\ root[t] = NoTree
  /\ root' = [root EXCEPT ![t] = tail]
  /\ UNCHANGED heap
  /\ Return(t, 0, None)

(* The nodes that nothing reaches when the tree is gone. *)
Lost(t) == Members(t)

(* The loop that should free the nodes starts at the tail: it frees none. *)
Delete(t) ==
  /\ Idle(t)
  /\ root' = [root EXCEPT ![t] = NoTree]
  /\ heap' = Residue([n \in DOMAIN heap |-> IF n \in Lost(t) THEN Unallocated ELSE heap[n]])
  /\ Return(t, 0, None)

(* The first node of a tree becomes its root; the head is not told. *)
InsertFirst(t, k, v) ==
  /\ Idle(t) /\ Free # {} /\ root[t] = tail
  /\ heap' = [heap EXCEPT ![Fresh(k)] = FreshNode(k, v)]
  /\ root' = [root EXCEPT ![t] = Fresh(k)]
  /\ Return(t, 0, None)

Attached(h, n, k, v, p) ==
  set_red(attach_child([h EXCEPT ![n] = FreshNode(k, v)], p, InsertSide(h, p, k), n), n)

InsertBelow(t, k, v) ==
  /\ Idle(t) /\ Free # {} /\ root[t] # tail
  /\ heap' = Attached(heap, Fresh(k), k, v, InsertPoint(heap, root[t], k))
  /\ tree' = t
  /\ Enter("insert_balance", Fresh(k))
  /\ UNCHANGED <<root, cut, out>>

ElemUpdate(t, k, v) ==
  /\ Idle(t)
  /\ UNCHANGED root
  /\ LET n == iter_value(heap, root[t], k)
     IN  IF n = tail
         THEN UNCHANGED heap /\ Return(t, -1, None)
         ELSE heap' = [heap EXCEPT ![n].val = v] /\ Return(t, 0, None)

BeginDiscard(t, n, val) ==
  /\ tree' = t /\ out' = val
  /\ Enter("discard", n)
  /\ UNCHANGED <<heap, root, cut>>

(* What elem_delete and elem_remove do with the node the search found. *)
DiscardFound(t, n) ==
  \/ n = tail /\ UNCHANGED <<heap, root>> /\ Return(t, -1, None)
  \/ n # tail /\ BeginDiscard(t, n, heap[n].val)

(* Mutant of ElemDelete: indexes count from one. *)
ElemDeleteFromOne(t, i) == Idle(t) /\ DiscardFound(t, iter_index(heap, root[t], i + 1))

ElemDelete(t, i) == Idle(t) /\ DiscardFound(t, iter_index(heap, root[t], i))

ElemRemove(t, k) == Idle(t) /\ DiscardFound(t, iter_value(heap, root[t], k))

IterDiscard(t, n) == Idle(t) /\ n \in Members(t) /\ BeginDiscard(t, n, None)

-----------------------------------------------------------------------------
(* The loops. *)

ParentIsRed(h, n) == h[n].up # head /\ is_red(h, h[n].up)

(* Mutants of Split: the grandparent stays black, the uncle stays red. *)
SplitKeepsGparent(h, n) == set_black(set_black(h, uncle(h, n)), parent(h, n))

SplitKeepsUncle(h, n) == set_red(set_black(h, parent(h, n)), parent(h, parent(h, n)))

(* Red uncle: parent and uncle turn black, the grandparent red. *)
Split(h, n) ==
  set_red(set_black(set_black(h, uncle(h, n)), parent(h, n)), parent(h, parent(h, n)))

(* Black uncle: the middle one of node, parent and grandparent moves up. *)
Rotated(h, n) ==
  LET p   == parent(h, n)
      gp  == parent(h, p)
      ggp == parent(h, gp)
      h1  == set_red(h, gp)
  IN  IF h[n].idx # h[p].idx
      THEN set_black(rotate_return(rotate_return(h1, gp, p, n), ggp, gp, n), n)
      ELSE set_black(rotate_return(h1, ggp, gp, p), p)

InsertBalance ==
  /\ pc = "insert_balance"
  /\ LET gp == parent(heap, parent(heap, node))
     IN  \/ /\ ~ParentIsRed(heap, node)
            /\ Enter("maintain", node)
            /\ UNCHANGED <<heap, root, tree, cut, out>>
         \/ /\ ParentIsRed(heap, node) /\ is_red(heap, gp)
            /\ Abort
         \/ /\ ParentIsRed(heap, node) /\ ~is_red(heap, gp)
            /\ IF is_red(heap, uncle(heap, node))
               THEN heap' = Split(heap, node) /\ Enter("insert_balance", gp)
               ELSE heap' = Rotated(heap, node) /\ Enter("maintain", gp)
            /\ UNCHANGED <<root, tree, cut, out>>

(* Mutant of Up: the loop forgets to go up. *)
Stay(n) == n

(* node = parent, at the end of a loop's body. *)
Up(n) == parent(heap, n)

(* Mutant of NewRoot: one root is kept for all trees that have nodes. *)
NewRootOfAll(n) == [t \in Trees |-> IF root[t] \in Nodes THEN n ELSE root[t]]

(* rbtree_maintain ends at the root, which a rotation may have changed. *)
NewRoot(n) == [root EXCEPT ![tree] = n]

(* An iteration of rbtree_maintain, or its end and that of the call. *)
Maintain ==
  /\ pc = "maintain"
  /\ LET p == parent(heap, node)
     IN  \/ /\ p # head
            /\ heap' = resize(heap, p)
            /\ Enter("maintain", Up(node))
            /\ UNCHANGED <<root, tree, cut, out>>
         \/ /\ p = head
            /\ heap' = Residue(set_black(heap, node))
            /\ root' = NewRoot(node)
            /\ Return(tree, 0, out)

(* Mutant of Replacement: from the left child it goes down on the wrong side. *)
ReplacementFar(h, n) ==
  LET l == h[n].child[0]
      r == h[n].child[1]
  IN  IF h[l].size > h[r].size THEN Extreme(h, l, 0) ELSE Extreme(h, r, 0)

(* The node whose element moves to n: the nearest one in the larger child. *)
Replacement(h, n) ==
  LET l == h[n].child[0]
      r == h[n].child[1]
  IN  IF h[l].size > h[r].size THEN Extreme(h, l, 1) ELSE Extreme(h, r, 0)

(* Mutant of Moved: the value stays behind. *)
MovedKey(h, n, m) == [h EXCEPT ![n].key = h[m].key]

Moved(h, n, m) == [h EXCEPT ![n].key = h[m].key, ![n].val = h[m].val]

Discard ==
  /\ pc = "discard"
  /\ LET l == heap[node].child[0]
         r == heap[node].child[1]
         c == IF l = tail THEN r ELSE l
         m == Replacement(heap, node)
     IN  \/ /\ l # tail /\ r # tail
            /\ heap' = Moved(heap, node, m)
            /\ Enter("discard", m)
            /\ UNCHANGED <<root, tree, cut, out>>
         \/ /\ l = tail \/ r = tail
            /\ ~is_red(heap, node) /\ ~is_red(heap, c) /\ c # tail
            /\ Abort
         \/ /\ l = tail \/ r = tail
            /\ is_red(heap, node) \/ is_red(heap, c) \/ c = tail
            /\ cut' = [victim |-> node, parent |-> parent(heap, node), child |-> c]
            /\ Enter(IF is_red(heap, node) \/ is_red(heap, c) THEN "unlink" ELSE "delete_balance",
                     node)
            /\ UNCHANGED <<heap, root, tree, out>>

(* The last step of rbtree_delete_balance: n's parent and n's sibling lend *)
(* it a black node.  The cases are tried in the order of the code.         *)
CanBorrow(h, n) ==
  LET sib == sibling(h, n)
  IN  \E m \in {parent(h, n), sib, h[sib].child[0], h[sib].child[1]} : is_red(h, m)

Borrowed(h, n) ==
  LET p    == parent(h, n)
      gp   == parent(h, p)
      sib  == sibling(h, n)
      near == h[sib].child[h[n].idx]
      far  == h[sib].child[1 - h[n].idx]
  IN  IF is_red(h, p) THEN rotate_borrow(h, gp, p, n, sib)
      ELSE IF is_red(h, sib) THEN set_black(rotate_borrow(h, gp, p, n, sib), sib)
      ELSE IF is_red(h, near)
           THEN set_black(rotate_borrow(rotate_return(h, p, sib, near), gp, p, n, near), near)
      ELSE set_black(rotate_borrow(h, gp, p, n, sib), far)

DeleteBalance ==
  /\ pc = "delete_balance"
  /\ LET p   == parent(heap, node)
         sib == sibling(heap, node)
     IN  \/ /\ p = head
            /\ Enter("unlink", node)
            /\ UNCHANGED <<heap, root, tree, cut, out>>
         \/ /\ p # head /\ sib = tail
            /\ Abort
         \/ /\ p # head /\ sib # tail
            /\ IF CanBorrow(heap, node)
               THEN heap' = Borrowed(heap, node) /\ Enter("unlink", Up(node))
               ELSE heap' = set_red(heap, sib) /\ Enter("delete_balance", Up(node))
            /\ UNCHANGED <<root, tree, cut, out>>

(* Mutant of Unlinked: it asks the child, and not the node, for its index. *)
UnlinkedByChild(h, c) == attach_child(set_black(h, c.child), c.parent, h[c.child].idx, c.child)

(* The child takes the place of the discarded node below the parent that   *)
(* rbtree_iter_discard read before it balanced the tree.                   *)
Unlinked(h, c) == attach_child(set_black(h, c.child), c.parent, h[c.victim].idx, c.child)

Unlink ==
  /\ pc = "unlink"
  /\ heap' = [Unlinked(heap, cut) EXCEPT ![cut.victim] = Unallocated]
  /\ Enter("maintain", cut.child)
  /\ UNCHANGED <<root, tree, cut, out>>

-----------------------------------------------------------------------------
Loops == InsertBalance \/ Maintain \/ Discard \/ DeleteBalance \/ Unlink

Insert(t, k, v) == InsertFirst(t, k, v) \/ InsertBelow(t, k, v)

Calls(t) ==
  \/ Create(t)
  \/ Delete(t)
  \/ \E k \in Keys, v \in Vals : Insert(t, k, v) \/ ElemUpdate(t, k, v)
  \/ \E i \in 0 .. Cardinality(Nodes) : ElemDelete(t, i)
  \/ \E k \in Keys : ElemRemove(t, k)
  \/ \E n \in Nodes : IterDiscard(t, n)

(* The program has ended. *)
Aborted == pc = "abort" /\ UNCHANGED vars

Next == Loops \/ Aborted \/ \E t \in Trees : Calls(t)

(* A program does not stop inside a call. *)
Fairness == WF_vars(Loops)

Spec == Init /\ [][Next]_vars /\ Fairness

(* A program that uses its trees as priority queues: it adds elements and  *)
(* takes the first one out.                                                *)
PriorityNext ==
  \/ Loops \/ Aborted
  \/ \E t \in Trees :
       Create(t) \/ ElemDelete(t, 0) \/ \E k \in Keys, v \in Vals : Insert(t, k, v)

PrioritySpec == Init /\ [][PriorityNext]_vars /\ Fairness

(* A program that only ever adds to its trees and changes what is there. *)
GrowNext ==
  \/ InsertBalance \/ Maintain
  \/ \E t \in Trees :
       Create(t) \/ \E k \in Keys, v \in Vals : Insert(t, k, v) \/ ElemUpdate(t, k, v)

GrowSpec == Init /\ [][GrowNext]_vars /\ Fairness

-----------------------------------------------------------------------------
(* Properties. *)

Structs == [size : Nat, up : Allocated(heap) \cup {head}, idx : 0 .. 1, red : BOOLEAN,
            child : [0 .. 1 -> Allocated(heap) \cup {tail}], key : Keys, val : Vals]

(* Every variable has its type, and no node points at one that left its tree. *)
TypeOK ==
  /\ DOMAIN heap = Nodes \cup {head, tail}
  /\ \A n \in Nodes : heap[n] \in Structs \cup {Unallocated}
  /\ root \in [Trees -> Nodes \cup {tail, NoTree}]
  /\ pc = "idle" => \A t \in Live : root[t] \in Allocated(heap) \cup {tail}
  /\ pc \in {"idle", "insert_balance", "discard", "delete_balance", "unlink", "maintain", "abort"}
  /\ tree \in Live \cup {None} /\ (tree = None <=> pc = "idle")
  /\ node \in Allocated(heap) \cup {tail}
  /\ cut \in [victim : Nodes \cup {tail}, parent : Allocated(heap) \cup {head, tail},
              child : Allocated(heap) \cup {tail}]
  /\ ret \in [Trees -> [err : {0, -1}, val : Vals \cup {None}]]

(* Between calls the iterators visit the elements of a tree one by one in  *)
(* order, from iter_head with iter_next and from iter_tail with iter_prev, *)
(* and stop at the ends.  They walk the parent pointers and child indexes  *)
(* that the rotations rewrite.                                             *)
IteratesInOrder ==
  pc = "idle" =>
    \A t \in Live :
      LET s    == NodesInOrder(heap, root[t])
          N(i) == IF i \in DOMAIN s THEN s[i] ELSE tail
      IN  /\ iter_head(heap, root[t]) = N(1)
          /\ iter_tail(heap, root[t]) = N(Len(s))
          /\ \A i \in DOMAIN s : /\ iter_next(heap, s[i]) = N(i + 1)
                                /\ iter_prev(heap, s[i]) = N(i - 1)

(* Between calls a search for a key finds an element that has it whenever  *)
(* the tree has one: rotations and the moving of elements by discard keep  *)
(* equal keys where rbtree_iter_value looks for them.                      *)
FindsByKey ==
  pc = "idle" =>
    \A t \in Live, k \in Keys :
      LET n == iter_value(heap, root[t], k)
      IN  IF \E i \in DOMAIN seen[t] : seen[t][i][1] = k
          THEN n # tail /\ heap[n].key = k
          ELSE n = tail

(* Between calls the i-th element (from 0) is what rbtree_iter_index finds, *)
(* and there is none past the end.                                          *)
FindsByIndex ==
  pc = "idle" =>
    \A t \in Live :
      LET s == NodesInOrder(heap, root[t])
      IN  \A i \in 0 .. Len(s) :
            iter_index(heap, root[t], i) = IF i < Len(s) THEN s[i + 1] ELSE tail

(* A tree that no call is working on shows what its last call left, though *)
(* calls on other trees write the sentinels it shares with them.           *)
TreesApart ==
  \A t \in Live \ {tree} :
    /\ root[t] \in Allocated(heap) \cup {tail}
    /\ InOrder(heap, root[t]) = seen[t]

(* rbtree_iter_discard reads the node's parent before rbtree_delete_balance *)
(* rotates around the node and uses it after: it is the parent still, and   *)
(* the node has not gained another child.                                   *)
ParentStable ==
  pc \in {"delete_balance", "unlink"} =>
    /\ heap[cut.victim].up = cut.parent
    /\ \A i \in 0 .. 1 : heap[cut.victim].child[i] \in {cut.child, tail}
    /\ cut.parent # head => heap[cut.parent].child[heap[cut.victim].idx] = cut.victim

(* Every call returns, or an assert stops it: no balancing loop runs on. *)
CallsReturn == (pc # "idle") ~> (pc \in {"idle", "abort"})

Abstract == INSTANCE OrderedBag WITH elems <- seen

(* What the clients see are ordered bags: each call adds an element at its *)
(* place, takes one out and answers its value, changes one, or finds none. *)
IsOrderedBag == Abstract!Spec

(* If the step takes elements out of t, it takes the first and answers     *)
(* its value.                                                              *)
TakesFirstOf(t) ==
  Len(seen'[t]) < Len(seen[t]) =>
    seen'[t] = SubSeq(seen[t], 2, Len(seen[t])) /\ ret'[t] = Answer(0, seen[t][1][2])

(* A priority queue gives its elements up first to last, even when the     *)
(* tree is out of balance: what leaves is the first element and the answer *)
(* is its value.                                                           *)
TakesFirst == [][\A t \in Trees : TakesFirstOf(t)]_vars

(* No red node of the tree has a red parent, except for the nodes in except. *)
NoRedRed(t, except) ==
  \A n \in Members(t) \ except : ~(heap[n].red /\ ParentIsRed(heap, n))

EqualBlackHeights(t) == BlackHeight(heap, root[t]) # 0

(* Between calls every tree is a red-black tree. *)
RedBlack ==
  pc = "idle" =>
    \A t \in Live : ~heap[root[t]].red /\ NoRedRed(t, {}) /\ EqualBlackHeights(t)

(* In the insertion loop only the node it is at may have a red parent, and *)
(* every path has the same number of black nodes all along.                *)
OneRedRed ==
  pc = "insert_balance" =>
    heap[node].red /\ NoRedRed(tree, {node}) /\ EqualBlackHeights(tree)
=============================================================================

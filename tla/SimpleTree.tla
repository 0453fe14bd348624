----------------------------- MODULE SimpleTree -----------------------------
(***************************************************************************)
(* container/rbtree-simple/rbtree.c and rbtree_inline.h: a red-black tree  *)
(* whose nodes have no sizes.  A call searches in one step and changes the *)
(* tree loop iteration by loop iteration, as in RBTree: pc is the loop it  *)
(* is in, node the node it is at.  A failed assert ends the program        *)
(* (pc = "abort").  No call frees a node; one that has left the tree is    *)
(* forgotten and its address may be given to a later node.  The client     *)
(* keeps no iterator from call to call and addresses are never compared in *)
(* order: between calls the nodes are numbered in the order of the tree.   *)
(***************************************************************************)
EXTENDS Integers, Functions, Sequences, FiniteSets

CONSTANTS
  MaxNodes,        \* bound: the nodes of a tree
  head, tail,      \* the addresses of rbtree_head and rbtree_tail
  Unallocated,     \* no node, and no tree
  Keys, Vals,      \* what the client stores
  key_cmp(_, _),   \* the comparator given to rbtree_create
  None,            \* no value
  Pending          \* no answer yet

VARIABLES
  heap,   \* the nodes and the sentinels
  root,   \* tree->root
  pc,     \* the loop the call in progress is in
  node,   \* the node it is at
  cut,    \* the locals node, parent and lchild or rchild of rbtree_iter_discard
  out,    \* what the call will store through its val argument
  seen,   \* history: the elements when the last call returned
  ret     \* history: that call, or the one in progress, and what it answered

vars == <<heap, root, pc, node, cut, out, seen, ret>>

Nodes == 1 .. MaxNodes

View == INSTANCE RBHeap

NoChildren == [i \in 0 .. 1 |-> tail]

(* rbtree_node_create, with the key and value that elem_insert stores. *)
FreshNode(key, val) ==
  [up |-> head, idx |-> 0, red |-> FALSE, child |-> NoChildren, key |-> key, val |-> val]

(* The words of the sentinels are written before they are read, but for    *)
(* the children and the colour.                                            *)
Sentinel(red) == [up |-> Unallocated, idx |-> 0, red |-> red, child |-> NoChildren]

NoNodes ==
  [n \in Nodes \cup {head, tail} |->
     IF n \in Nodes THEN Unallocated ELSE Sentinel(n = head)]

Free == {n \in Nodes : heap[n] = Unallocated}

(* The address of a new node. *)
Fresh == CHOOSE n \in Free : TRUE

parent(h, n) == h[n].up

sibling(h, n) == h[h[n].up].child[1 - h[n].idx]

uncle(h, n) == sibling(h, h[n].up)

set_red(h, n) == [h EXCEPT ![n].red = TRUE]

set_black(h, n) == [h EXCEPT ![n].red = FALSE]

(* The child keeps its colour. *)
attach_child(h, n, i, c) == [h EXCEPT ![n].child[i] = c, ![c].up = n, ![c].idx = i]

(* Node takes its parent's place, the parent takes node's child 1 - i. *)
rotate(h, gp, p, n, i) ==
  LET g  == h[p].idx
      h1 == attach_child(h, p, i, h[n].child[1 - i])
  IN  attach_child(attach_child(h1, n, 1 - i, p), gp, g, n)

rotate_return(h, gp, p, n) == rotate(h, gp, p, n, h[n].idx)

rotate_borrow(h, gp, p, n, sib) == rotate(h, gp, p, sib, 1 - h[n].idx)

-----------------------------------------------------------------------------
(* Searches and iterators; tail stands for an answer of -1. *)

iter_value(k) ==
  LET from[n \in DOMAIN heap] ==
        IF n = tail \/ key_cmp(k, heap[n].key) = 0 THEN n
        ELSE from[heap[n].child[IF key_cmp(k, heap[n].key) > 0 THEN 1 ELSE 0]]
  IN  from[root]

(* The child of n to insert key k below. *)
InsertSide(h, n, k) == IF key_cmp(k, h[n].key) > 0 THEN 1 ELSE 0

InsertPoint(k) ==
  LET from[n \in DOMAIN heap] ==
        LET c == heap[n].child[InsertSide(heap, n, k)] IN IF c = tail THEN n ELSE from[c]
  IN  from[root]

(* The last node down from n that the child pointers i lead to. *)
Extreme(n, i) ==
  LET from[m \in DOMAIN heap] == IF heap[m].child[i] = tail THEN m ELSE from[heap[m].child[i]]
  IN  from[n]

iter_head == Extreme(root, 0)

iter_tail == Extreme(root, 1)

(* The nearest ancestor that has n or n's ancestor as its child i. *)
Climb(n, i) ==
  LET from[m \in DOMAIN heap] ==
        IF heap[m].up = head THEN tail
        ELSE IF heap[m].idx = i THEN heap[m].up ELSE from[heap[m].up]
  IN  from[n]

(* Mutant of iter_next: it climbs like iter_prev. *)
iter_next_climbing(n) ==
  IF heap[n].child[1] # tail THEN Extreme(heap[n].child[1], 0) ELSE Climb(n, 1)

iter_next(n) == IF heap[n].child[1] # tail THEN Extreme(heap[n].child[1], 0) ELSE Climb(n, 0)

iter_prev(n) == IF heap[n].child[0] # tail THEN Extreme(heap[n].child[0], 1) ELSE Climb(n, 1)

-----------------------------------------------------------------------------
NoCut == [victim |-> tail, parent |-> tail, child |-> tail]

Answer(op, arg, err, val) == [op |-> op, arg |-> arg, err |-> err, val |-> val]

Init ==
  /\ heap = NoNodes /\ root = Unallocated
  /\ pc = "idle" /\ node = tail /\ cut = NoCut /\ out = None
  /\ seen = <<>> /\ ret = Answer("none", <<>>, 0, None)

Exists == root # Unallocated

Members == Nodes \ Free

(* rbtree_maintain climbs from the root that the tree had, also when that  *)
(* node has just been removed: its child is then out of the tree's reach.  *)
Detached ==
  \E i \in 0 .. 1 :
    LET c == heap[root].child[i] IN c # tail /\ heap[c].up # root

(* The client calls; it only deletes a tree that has lost its nodes. *)
Idle == pc = "idle" /\ Exists /\ ~Detached

(* The call returns with answer a and leaves the nodes of h below r. *)
Return(h, r, a) ==
  \E s \in {IF r = Unallocated THEN <<>> ELSE View!NodesInOrder(h, r)} :
  \E num \in {[n \in {r, head, tail} \cup Range(s) |->
                IF n \in Range(s) THEN CHOOSE i \in DOMAIN s : s[i] = n ELSE n]} :
    /\ root' = num[r]
    /\ heap' = [n \in DOMAIN h |->
                  IF n \in DOMAIN s
                  THEN [h[s[n]] EXCEPT !.up = num[@], !.child = [i \in 0 .. 1 |-> num[@[i]]]]
                  ELSE NoNodes[n]]
    /\ pc' = "idle" /\ node' = tail /\ cut' = NoCut /\ out' = None
    /\ seen' = [i \in DOMAIN s |-> <<h[s[i]].key, h[s[i]].val>>]
    /\ ret' = a

(* The call goes on in loop l at node n. *)
GoTo(l, n) == pc' = l /\ node' = n /\ UNCHANGED seen

Enter(l, n) == GoTo(l, n) /\ UNCHANGED ret

(* A call of op with arg begins in loop l at node n. *)
Begin(op, arg, l, n) == GoTo(l, n) /\ ret' = Answer(op, arg, Pending, None)

Abort == Enter("abort", node) /\ UNCHANGED <<heap, root, cut, out>>

Create ==
  /\ pc = "idle" /\ ~Exists
  /\ Return(heap, tail, Answer("create", <<>>, 0, None))

(* The loop that should free the nodes starts at the tail: it frees none. *)
Delete ==
  /\ pc = "idle" /\ Exists
  /\ Return(heap, Unallocated, Answer("delete tree", <<>>, 0, None))

InsertFirst(k, v) ==
  /\ Idle /\ root = tail
  /\ Return([heap EXCEPT ![Fresh] = FreshNode(k, v)], Fresh,
            Answer("insert", <<k, v>>, 0, None))

InsertBelow(k, v) ==
  /\ Idle /\ Free # {} /\ root # tail
  /\ LET n == Fresh
         p == InsertPoint(k)
         h == [heap EXCEPT ![n] = FreshNode(k, v)]
     IN  /\ heap' = set_red(attach_child(h, p, InsertSide(h, p, k), n), n)
         /\ Begin("insert", <<k, v>>, "insert_balance", n)
  /\ UNCHANGED <<root, cut, out>>

ElemUpdate(k, v) ==
  /\ Idle
  /\ LET n == iter_value(k)
         Updated(err) == Answer("update", <<k, v>>, err, None)
     IN  IF n = tail THEN Return(heap, root, Updated(-1))
         ELSE Return([heap EXCEPT ![n].val = v], root, Updated(0))

(* __rbtree_iter_index always answers -1, so no index is ever deleted. *)
ElemDelete(i) == Idle /\ Return(heap, root, Answer("delete", <<i>>, -1, None))

BeginDiscard(op, arg, n, val) ==
  /\ out' = val
  /\ Begin(op, arg, "discard", n)
  /\ UNCHANGED <<heap, root, cut>>

ElemRemove(k) ==
  /\ Idle
  /\ LET n == iter_value(k)
     IN  \/ n = tail /\ Return(heap, root, Answer("remove", <<k>>, -1, None))
         \/ n # tail /\ BeginDiscard("remove", <<k>>, n, heap[n].val)

(* Between calls node n is the n-th of the tree. *)
IterDiscard(n) == Idle /\ n \in Members /\ BeginDiscard("discard", <<n>>, n, None)

-----------------------------------------------------------------------------
(* The loops. *)

(* rbtree_maintain: up from the tree's root to the node below the head. *)
Top(h) ==
  LET from[n \in DOMAIN h] == IF h[n].up = head THEN n ELSE from[h[n].up]
  IN  from[root]

(* Every path of rbtree_iter_discard and rbtree_insert_balance ends here.  *)
(* (The bound variables have TLC work h and its top out once.)             *)
MaintainAndReturn(h) ==
  \E h1 \in {h} : \E top \in {Top(h1)} :
    Return(set_black(h1, top), top, Answer(ret.op, ret.arg, 0, out))

ParentIsRed(h, n) == h[n].up # head /\ h[h[n].up].red

(* Red uncle: parent and uncle turn black, the grandparent red. *)
Split(h, n) ==
  set_red(set_black(set_black(h, uncle(h, n)), parent(h, n)), parent(h, parent(h, n)))

(* Black uncle: the middle one of node, parent and grandparent moves up. *)
Rotated(h, n) ==
  LET p   == parent(h, n)
      gp  == parent(h, p)
      ggp == parent(h, gp)
      h1  == set_red(h, gp)
  IN  IF h[n].idx # h[p].idx
      THEN set_black(rotate_return(rotate_return(h1, gp, p, n), ggp, gp, n), n)
      ELSE set_black(rotate_return(h1, ggp, gp, p), p)

InsertBalance ==
  /\ pc = "insert_balance"
  /\ LET gp == parent(heap, parent(heap, node))
     IN  \/ /\ ~ParentIsRed(heap, node)
            /\ MaintainAndReturn(heap)
         \/ /\ ParentIsRed(heap, node) /\ heap[gp].red
            /\ Abort
         \/ /\ ParentIsRed(heap, node) /\ ~heap[gp].red
            /\ IF heap[uncle(heap, node)].red
               THEN heap' = Split(heap, node) /\ Enter("insert_balance", gp)
                    /\ UNCHANGED <<root, cut, out>>
               ELSE MaintainAndReturn(Rotated(heap, node))

(* The node whose element moves to n: the first one of the right child. *)
Replacement(n) == Extreme(heap[n].child[1], 0)

Discard ==
  /\ pc = "discard"
  /\ LET l == heap[node].child[0]
         r == heap[node].child[1]
         c == IF l = tail THEN r ELSE l
         m == Replacement(node)
     IN  \/ /\ l # tail /\ r # tail
            /\ heap' = [heap EXCEPT ![node].key = heap[m].key, ![node].val = heap[m].val]
            /\ Enter("discard", m)
            /\ UNCHANGED <<root, cut, out>>
         \/ /\ l = tail \/ r = tail
            /\ ~heap[node].red /\ ~heap[c].red /\ c # tail
            /\ Abort
         \/ /\ l = tail \/ r = tail
            /\ heap[node].red \/ heap[c].red \/ c = tail
            /\ cut' = [victim |-> node, parent |-> parent(heap, node), child |-> c]
            /\ Enter(IF heap[node].red \/ heap[c].red THEN "unlink" ELSE "delete_balance", node)
            /\ UNCHANGED <<heap, root, out>>

(* The loop of rbtree_delete_balance ends by a loan from n's parent and    *)
(* n's sibling.  The cases are tried in the order of the code.             *)
CanBorrow(h, n) ==
  LET sib == sibling(h, n)
  IN  \E m \in {parent(h, n), sib, h[sib].child[0], h[sib].child[1]} : h[m].red

Borrowed(h, n) ==
  LET p    == parent(h, n)
      gp   == parent(h, p)
      sib  == sibling(h, n)
      near == h[sib].child[h[n].idx]
      far  == h[sib].child[1 - h[n].idx]
  IN  IF h[p].red THEN rotate_borrow(h, gp, p, n, sib)
      ELSE IF h[sib].red THEN set_black(rotate_borrow(h, gp, p, n, sib), sib)
      ELSE IF h[near].red
           THEN set_black(rotate_borrow(rotate_return(h, p, sib, near), gp, p, n, near), near)
      ELSE set_black(rotate_borrow(h, gp, p, n, sib), far)

Up(n) == parent(heap, n)

DeleteBalance ==
  /\ pc = "delete_balance"
  /\ LET sib == sibling(heap, node)
     IN  \/ /\ Up(node) = head
            /\ Enter("unlink", node)
            /\ UNCHANGED <<heap, root, cut, out>>
         \/ /\ Up(node) # head /\ sib = tail
            /\ Abort
         \/ /\ Up(node) # head /\ sib # tail
            /\ IF CanBorrow(heap, node)
               THEN heap' = Borrowed(heap, node) /\ Enter("unlink", Up(node))
               ELSE heap' = set_red(heap, sib) /\ Enter("delete_balance", Up(node))
            /\ UNCHANGED <<root, cut, out>>

(* Mutant of UnlinkedFrom: it asks the child, and not the node, for its index. *)
UnlinkedByChild(h, c) == attach_child(set_black(h, c.child), c.parent, h[c.child].idx, c.child)

(* The child takes the place of the discarded node below the parent that   *)
(* rbtree_iter_discard read before it balanced the tree.                   *)
UnlinkedFrom(h, c) == attach_child(set_black(h, c.child), c.parent, h[c.victim].idx, c.child)

(* The old root stays, whether it was removed or not. *)
Unlink ==
  /\ pc = "unlink"
  /\ MaintainAndReturn(UnlinkedFrom(heap, cut))

-----------------------------------------------------------------------------
Loops == InsertBalance \/ Discard \/ DeleteBalance \/ Unlink

(* Bound: one index that any tree with elements has, and one that none has. *)
Indexes == {0, MaxNodes}

Calls ==
  \/ Create
  \/ Delete
  \/ \E i \in Indexes : ElemDelete(i)
  \/ \E k \in Keys :
       \/ \E v \in Vals : InsertFirst(k, v) \/ InsertBelow(k, v) \/ ElemUpdate(k, v)
       \/ ElemRemove(k)
  \/ \E n \in Nodes : IterDiscard(n)

(* The program has ended. *)
Aborted == pc = "abort" /\ UNCHANGED vars

Next == Loops \/ Aborted \/ Calls

(* A program does not stop inside a call. *)
Spec == Init /\ [][Next]_vars /\ WF_vars(Loops)

-----------------------------------------------------------------------------
(* Between calls the iterators visit the elements one by one in order and  *)
(* a search finds a key whenever the tree has it, though a removal moves   *)
(* elements between nodes and rotations rewrite parents and indexes.       *)
(* ~Detached leaves out the trees that a removal of the root has broken,   *)
(* and no others.                                                          *)
IteratesAndFinds ==
  pc = "idle" /\ Exists /\ ~Detached =>
    LET s    == View!NodesInOrder(heap, root)
        N(i) == IF i \in DOMAIN s THEN s[i] ELSE tail
    IN  /\ iter_head = N(1) /\ iter_tail = N(Len(s))
        /\ \A i \in DOMAIN s : iter_next(s[i]) = N(i + 1) /\ iter_prev(s[i]) = N(i - 1)
        /\ \A k \in Keys :
             IF \E i \in DOMAIN seen : seen[i][1] = k
             THEN iter_value(k) # tail /\ heap[iter_value(k)].key = k
             ELSE iter_value(k) = tail

Calling == pc \notin {"idle", "abort"}

Bag == INSTANCE KeyedBag WITH elems <- seen

(* A removal of the root, when that lacks a child, answers like any other  *)
(* but leaves the tree with the element.                                   *)
RootStays ==
  /\ pc = "unlink" /\ cut.victim = root
  /\ seen' = seen /\ ret' = [ret EXCEPT !.err = 0, !.val = out]

(* A deletion by an index that the tree has says that it has none. *)
IndexMisses ==
  \E i \in Indexes :
    /\ pc = "idle" /\ i < Len(seen)
    /\ seen' = seen /\ ret' = Answer("delete", <<i>>, -1, None)

(* What the client sees is an ordered bag, but for removals that come to   *)
(* discard the root and for deletions by index: every other call does to   *)
(* the elements what its arguments say and answers so, and no rotation or  *)
(* removal loses or misplaces an element that the call is not about.       *)
IsBagButTwo == Bag!Init /\ [][Bag!Next \/ RootStays \/ IndexMisses]_<<seen, ret>>

(* The size field gives "a log(N) algorithm to find n-th element"          *)
(* (README.md:4) and rbtree_elem_delete takes that element out: a deletion *)
(* by an index that the tree has deletes the element there.                *)
DeletesByIndex == [][Bag!Next \/ RootStays]_<<seen, ret>>

(* rbtree_iter_discard is to "discard a node in the tree" (rbtree.c:292)   *)
(* and rbtree_maintain to "adjust the root" (rbtree.c:54): a removal takes *)
(* its element out of the tree, also when that is at the root.             *)
RemovesRoot == [][Bag!Next \/ IndexMisses]_<<seen, ret>>
=============================================================================

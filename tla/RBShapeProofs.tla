--------------------------- MODULE RBShapeProofs ---------------------------
(***************************************************************************)
(* The shape of the trees of RBTree, for all sets of nodes, trees, keys    *)
(* and values: what attach_child, a rotation and the other writes do to    *)
(* the links of a heap, that they keep the trees and their order, and what *)
(* the searches find in them.                                              *)
(* The trees are described by a view: which node is at the top of each     *)
(* tree, in which tree and at which place each node is, and from which to  *)
(* which place the nodes below it are. Walks along pointers end because    *)
(* these spans get smaller on the way down and larger on the way up, so no *)
(* lemma needs an induction over trees.                                    *)
(***************************************************************************)
EXTENDS RBTree, DataLemmas

-----------------------------------------------------------------------------
(* Recursion. *)

(* In D every place that the loop does not stop at leads to one of lower rank. *)
Descends(D, stop, next, rank) ==
  /\ DOMAIN next = D /\ rank \in [D -> Nat]
  /\ \A y \in D : ~stop[y] => next[y] \in D /\ rank[next[y]] < rank[y]

(* A loop whose places lead to ever lower ranks comes to a place where it  *)
(* stops, and to one of any set of places that it does not leave.          *)
LEMMA FollowReaches ==
  ASSUME NEW D, NEW stop, NEW next, NEW rank, Descends(D, stop, next, rank),
         NEW S \in SUBSET D, \A y \in S : ~stop[y] => next[y] \in S,
         NEW x \in S
  PROVE  Follow(stop, next, x) \in S /\ stop[Follow(stop, next, x)]
<1> DEFINE Body(g) == [y \in D |-> IF stop[y] THEN y ELSE g[next[y]]]
           step == [g \in [D -> D] |-> Body(g)]
           base == [y \in D |-> y]
           from == CHOOSE g : g = Body(g)
<1>1. /\ DOMAIN next = D /\ rank \in [D -> Nat]
      /\ \A y \in D : ~stop[y] => next[y] \in D /\ rank[next[y]] < rank[y]
  BY DEF Descends
<1>2. \A g \in [D -> D] : Body(g) \in [D -> D]
  BY <1>1
<1>3. base \in [D -> D] /\ step \in [[D -> D] -> [D -> D]]
  BY <1>2
<1>4. PICK F \in [Nat -> [D -> D]] : F[0] = base /\ \A k \in Nat : F[k + 1] = step[F[k]]
  <2> DEFINE R == [D -> D]
  <2>1. base \in R /\ step \in [R -> R]
    BY <1>3
  <2> HIDE DEF base, step, R, Body, from
  <2>2. \E F \in [Nat -> R] : F[0] = base /\ \A k \in Nat : F[k + 1] = step[F[k]]
    BY <2>1, Iteration
  <2> QED
    BY <2>2 DEF R
<1>5. \A k \in Nat, y \in D : F[k + 1][y] = IF stop[y] THEN y ELSE F[k][next[y]]
  <2> TAKE k \in Nat, y \in D
  <2>1. F[k] \in [D -> D] /\ F[k + 1] = Body(F[k])
    BY <1>4
  <2> QED
    BY <2>1
<1> HIDE DEF base, step
<1>6. \A k \in Nat : \A y \in D : rank[y] < k => F[k + 1][y] = F[k][y]
  <2> DEFINE T == {k \in Nat : \A y \in D : rank[y] < k => F[k + 1][y] = F[k][y]}
  <2>1. 0 \in T
    BY <1>1
  <2>2. ASSUME NEW k \in Nat, k \in T PROVE k + 1 \in T
    <3>1. SUFFICES ASSUME NEW y \in D, rank[y] < k + 1
                   PROVE  F[(k + 1) + 1][y] = F[k + 1][y]
      OBVIOUS
    <3>2. /\ F[(k + 1) + 1][y] = IF stop[y] THEN y ELSE F[k + 1][next[y]]
          /\ F[k + 1][y] = IF stop[y] THEN y ELSE F[k][next[y]]
      <4>1. k + 1 \in Nat
        OBVIOUS
      <4> QED
        BY <1>5, <4>1
    <3>3. CASE stop[y]
      BY <3>2, <3>3
    <3>4. CASE ~stop[y]
      <4>1. next[y] \in D /\ rank[next[y]] < k
        BY <1>1, <3>1, <3>4
      <4>2. F[k + 1][next[y]] = F[k][next[y]]
        BY <2>2, <4>1
      <4> QED
        BY <3>2, <3>4, <4>2
    <3> QED
      BY <3>3, <3>4
  <2>3. Nat \subseteq T
    BY <2>1, <2>2, NatSetInduction
  <2> QED
    BY <2>3
<1>7. \A j \in Nat : \A y \in D : F[rank[y] + 1 + j][y] = F[rank[y] + 1][y]
  <2> DEFINE T == {j \in Nat : \A y \in D : F[rank[y] + 1 + j][y] = F[rank[y] + 1][y]}
  <2>1. 0 \in T
    BY <1>1
  <2>2. ASSUME NEW j \in Nat, j \in T PROVE j + 1 \in T
    <3>1. SUFFICES ASSUME NEW y \in D
                   PROVE  F[rank[y] + 1 + (j + 1)][y] = F[rank[y] + 1][y]
      OBVIOUS
    <3> DEFINE k == rank[y] + 1 + j
    <3>2. k \in Nat /\ rank[y] < k /\ rank[y] + 1 + (j + 1) = k + 1
      BY <1>1
    <3>3. F[k] [y] = F[rank[y] + 1][y]
      BY <2>2
    <3> HIDE DEF k
    <3>4. F[k + 1][y] = F[k][y]
      BY <1>6, <3>2
    <3> QED
      BY <3>2, <3>3, <3>4
  <2>3. Nat \subseteq T
    BY <2>1, <2>2, NatSetInduction
  <2> QED
    BY <2>3
<1> DEFINE f == [y \in D |-> F[rank[y] + 1][y]]
<1>8. f = Body(f)
  <2>1. SUFFICES ASSUME NEW y \in D
                 PROVE  f[y] = IF stop[y] THEN y ELSE f[next[y]]
    BY <1>1
  <2>2. CASE stop[y]
    BY <1>1, <1>5, <2>2
  <2>3. CASE ~stop[y]
    <3>1. next[y] \in D /\ rank[next[y]] < rank[y]
      BY <1>1, <2>3
    <3> DEFINE j == rank[y] - (rank[next[y]] + 1)
    <3>2. j \in Nat /\ rank[next[y]] + 1 + j = rank[y]
      BY <1>1, <3>1
    <3>3. F[rank[y]][next[y]] = F[rank[next[y]] + 1][next[y]]
      <4> HIDE DEF j
      <4> QED
        BY <1>7, <3>1, <3>2
    <3>4. F[rank[y] + 1][y] = F[rank[y]][next[y]]
      BY <1>1, <1>5, <2>3
    <3>5. f[y] = F[rank[y] + 1][y] /\ f[next[y]] = F[rank[next[y]] + 1][next[y]]
      BY <3>1
    <3> HIDE DEF f
    <3>6. f[y] = f[next[y]]
      BY <3>3, <3>4, <3>5
    <3> QED
      BY <2>3, <3>6
  <2> QED
    BY <2>2, <2>3
<1>9. from = Body(from)
  <2> HIDE DEF f
  <2> QED
    BY <1>8
<1> HIDE DEF from, f
<1>10. \A y \in D : from[y] = IF stop[y] THEN y ELSE from[next[y]]
  BY <1>9
<1>11. \A k \in Nat : \A y \in S : rank[y] < k => from[y] \in S /\ stop[from[y]]
  <2> DEFINE T == {k \in Nat : \A y \in S : rank[y] < k => from[y] \in S /\ stop[from[y]]}
  <2>1. 0 \in T
    BY <1>1
  <2>2. ASSUME NEW k \in Nat, k \in T PROVE k + 1 \in T
    <3>1. SUFFICES ASSUME NEW y \in S, rank[y] < k + 1
                   PROVE  from[y] \in S /\ stop[from[y]]
      OBVIOUS
    <3>2. CASE stop[y]
      BY <1>10, <3>2
    <3>3. CASE ~stop[y]
      <4>1. next[y] \in S /\ rank[next[y]] < k
        BY <1>1, <3>1, <3>3
      <4>2. from[next[y]] \in S /\ stop[from[next[y]]]
        BY <2>2, <4>1
      <4> QED
        BY <1>10, <3>3, <4>2
    <3> QED
      BY <3>2, <3>3
  <2>3. Nat \subseteq T
    BY <2>1, <2>2, NatSetInduction
  <2> QED
    BY <2>3
<1>12. rank[x] + 1 \in Nat /\ rank[x] < rank[x] + 1
  BY <1>1
<1>13. from[x] \in S /\ stop[from[x]]
  BY <1>11, <1>12
<1> QED
  BY <1>1, <1>13 DEF Follow, from

(* A set of natural numbers has a least member, so a free address is found. *)
LEMMA FreshIsFree ==
  ASSUME Free # {}, NEW k
  PROVE  Fresh(k) \in Free
<1>1. CASE k \in Free
  BY <1>1 DEF Fresh
<1>2. CASE k \notin Free
  <2>1. \E n \in Free : \A m \in Free : n <= m
    <3> SUFFICES ASSUME \A n \in Free : \E m \in Free : ~(n <= m)
                 PROVE  FALSE
      OBVIOUS
    <3> DEFINE T == {n \in Nat : \A m \in Free : m > n}
    <3>1. Free \subseteq Nat
      BY NodesAssumption DEF Free
    <3>2. 0 \in T
      <4>1. SUFFICES ASSUME NEW m \in Free PROVE m > 0
        OBVIOUS
      <4>2. PICK l \in Free : ~(m <= l)
        OBVIOUS
      <4> QED
        BY <3>1, <4>2
    <3>3. ASSUME NEW n \in Nat, n \in T PROVE n + 1 \in T
      <4>1. SUFFICES ASSUME NEW m \in Free PROVE m > n + 1
        OBVIOUS
      <4>2. PICK l \in Free : ~(m <= l)
        OBVIOUS
      <4>3. m \in Nat /\ l \in Nat /\ l > n
        BY <3>1, <3>3
      <4> QED
        BY <4>2, <4>3
    <3>4. Nat \subseteq T
      BY <3>2, <3>3, NatSetInduction
    <3>5. PICK n \in Free : TRUE
      OBVIOUS
    <3>6. n \in Nat /\ n \in T
      BY <3>1, <3>4
    <3>7. n > n
      BY <3>6
    <3> QED
      BY <3>6, <3>7
  <2> QED
    BY <1>2, <2>1 DEF Fresh
<1> QED
  BY <1>1, <1>2

-----------------------------------------------------------------------------
(* Structs and heaps. *)

TailStructs ==
  [size : {0}, up : Nodes \cup {head, Unallocated}, idx : 0 .. 1, red : {FALSE},
   child : {NoChildren}]

HeadStructs ==
  [size : Nat, up : {head}, idx : {0}, red : {TRUE},
   child : [0 .. 1 -> Nodes \cup {tail, Unallocated}]]

(* What every heap is that the calls make. *)
IsHeap(h) ==
  /\ DOMAIN h = Nodes \cup {head, tail} /\ h = [n \in DOMAIN h |-> h[n]]
  /\ \A n \in Nodes : h[n] \in NodeStructs \cup {Unallocated}
  /\ h[tail] \in TailStructs
  /\ h[head] \in HeadStructs /\ h[head].child[1] = tail

(* The same nodes with the same elements. *)
SameElements(h, h2) ==
  /\ Allocated(h2) = Allocated(h)
  /\ \A m \in Allocated(h) : h2[m].key = h[m].key /\ h2[m].val = h[m].val

WithChild(r, i, c, size) == [r EXCEPT !.child[i] = c, !.size = size]

WithParent(r, p, i) == [r EXCEPT !.up = p, !.idx = i]

(* A struct with another colour and another size. *)
Tinted(r, red, size) == [r EXCEPT !.red = red, !.size = size]

(* What a heap has: nodes with the fields of struct rbtree_node, a tail  *)
(* that is black, of size 0 and its own child, and a red head.           *)
LEMMA HeapParts ==
  ASSUME NEW h, IsHeap(h)
  PROVE  /\ Allocated(h) \subseteq Nodes
         /\ head \notin Allocated(h) /\ tail \notin Allocated(h) /\ head # tail
         /\ \A n \in Allocated(h) : h[n] \in NodeStructs
         /\ \A n \in Nodes : n \notin Allocated(h) => h[n] = Unallocated
         /\ \A n \in Allocated(h) \cup {tail, head} : h[n].size \in Nat
         /\ \A n \in Allocated(h) : /\ h[n].size > 0 /\ h[n].idx \in 0 .. 1
                                   /\ h[n].up \in Nodes \cup {head}
                                   /\ h[n].child[0] \in Nodes \cup {tail}
                                   /\ h[n].child[1] \in Nodes \cup {tail}
                                   /\ h[n].red \in BOOLEAN
                                   /\ h[n].key \in Keys /\ h[n].val \in Vals
         /\ h[tail].size = 0 /\ h[tail].red = FALSE /\ h[tail].child[0] = tail
         /\ h[tail].child[1] = tail /\ h[head].red = TRUE /\ h[head].child[1] = tail
<1>1. \A n \in Allocated(h) : n \in Nodes /\ h[n] \in NodeStructs
  BY DEF IsHeap, Allocated
<1>2. \A n \in Allocated(h) : /\ h[n].size \in Nat /\ h[n].size > 0 /\ h[n].idx \in 0 .. 1
                                   /\ h[n].up \in Nodes \cup {head}
                                   /\ h[n].child[0] \in Nodes \cup {tail}
                                   /\ h[n].child[1] \in Nodes \cup {tail}
                                   /\ h[n].red \in BOOLEAN
                                   /\ h[n].key \in Keys /\ h[n].val \in Vals
  BY <1>1 DEF NodeStructs
<1>3. /\ h[tail].size = 0 /\ h[tail].red = FALSE /\ h[tail].child = NoChildren
      /\ h[head].red = TRUE /\ h[head].child[1] = tail /\ h[head].size \in Nat
  BY Zenon DEF IsHeap, TailStructs, HeadStructs
<1>4. h[tail].child[0] = tail /\ h[tail].child[1] = tail
  BY <1>3 DEF NoChildren
<1>5. head \notin Allocated(h) /\ tail \notin Allocated(h) /\ head # tail
  BY <1>1, SentinelsAssumption
<1>6. \A n \in Nodes : n \notin Allocated(h) => h[n] = Unallocated
  BY DEF Allocated
<1>7. \A n \in Allocated(h) \cup {tail, head} : h[n].size \in Nat
  BY <1>2, <1>3
<1> QED
  BY <1>1, <1>2, <1>3, <1>4, <1>5, <1>6, <1>7

(* What updates of one struct leave. *)
ChildWritten(q, r, i, c, s) ==
  /\ q \in NodeStructs /\ q.size = s /\ q.up = r.up /\ q.idx = r.idx /\ q.red = r.red
  /\ q.key = r.key /\ q.val = r.val
  /\ q.child[i] = c /\ q.child[1 - i] = r.child[1 - i]

(* Another child and another size leave a struct, with the other fields  *)
(* as they were.                                                         *)
LEMMA ChildStruct ==
  ASSUME NEW r \in NodeStructs, NEW i \in 0 .. 1, NEW c \in Nodes \cup {tail}, NEW s \in Nat \ {0}
  PROVE  ChildWritten(WithChild(r, i, c, s), r, i, c, s)
<1> DEFINE q == WithChild(r, i, c, s)
           kids == [r.child EXCEPT ![i] = c]
<1>1. r.child \in [0 .. 1 -> Nodes \cup {tail}]
  BY DEF NodeStructs
<1>2. /\ kids \in [0 .. 1 -> Nodes \cup {tail}] /\ 1 - i \in 0 .. 1 /\ 1 - i # i
      /\ kids[i] = c /\ kids[1 - i] = r.child[1 - i]
  BY <1>1
<1>3. q = [r EXCEPT !.child = kids, !.size = s]
  BY DEF WithChild
<1> HIDE DEF kids, q
<1>4. /\ q \in NodeStructs /\ q.size = s /\ q.up = r.up /\ q.idx = r.idx /\ q.red = r.red
      /\ q.key = r.key /\ q.val = r.val /\ q.child = kids
  BY <1>2, <1>3, Zenon DEF NodeStructs
<1> QED
  BY <1>2, <1>4 DEF q, ChildWritten

(* So does another parent. *)
LEMMA ParentStruct ==
  ASSUME NEW r \in NodeStructs, NEW i \in 0 .. 1, NEW p \in Nodes \cup {head}
  PROVE  LET q == WithParent(r, p, i)
         IN  /\ q \in NodeStructs /\ q.size = r.size /\ q.up = p /\ q.idx = i /\ q.red = r.red
             /\ q.key = r.key /\ q.val = r.val /\ q.child = r.child
BY Zenon DEF NodeStructs, WithParent

(* So do another colour and another size. *)
LEMMA TintedStruct ==
  ASSUME NEW r \in NodeStructs, NEW b \in BOOLEAN, NEW s \in Nat \ {0}
  PROVE  LET q == Tinted(r, b, s)
         IN  /\ q \in NodeStructs /\ q.size = s /\ q.up = r.up /\ q.idx = r.idx /\ q.red = b
             /\ q.key = r.key /\ q.val = r.val /\ q.child = r.child
BY Zenon DEF NodeStructs, Tinted

(* The tail may be given any parent: attach_child writes its parent word *)
(* when a child is missing.                                              *)
LEMMA TailStruct ==
  ASSUME NEW r \in TailStructs, NEW i \in 0 .. 1, NEW p \in Nodes \cup {head}
  PROVE  LET q == WithParent(r, p, i)
         IN  q \in TailStructs /\ q.up = p /\ q.idx = i
BY Zenon DEF TailStructs, WithParent

(* The head may be given any child 0 and any size: attach_child writes   *)
(* them for the node at the top of a tree.                               *)
LEMMA HeadStruct ==
  ASSUME NEW r \in HeadStructs, NEW c \in Nodes \cup {tail}, NEW s \in Nat, r.child[1] = tail
  PROVE  LET q == WithChild(r, 0, c, s)
         IN  q \in HeadStructs /\ q.child[1] = tail
<1> DEFINE q == WithChild(r, 0, c, s)
           kids == [r.child EXCEPT ![0] = c]
<1>1. r.child \in [0 .. 1 -> Nodes \cup {tail, Unallocated}]
  BY DEF HeadStructs
<1>2. kids \in [0 .. 1 -> Nodes \cup {tail, Unallocated}] /\ kids[1] = tail
  BY <1>1
<1>3. q = [r EXCEPT !.child = kids, !.size = s]
  BY DEF WithChild
<1> HIDE DEF kids, q
<1>4. q \in HeadStructs /\ q.child = kids
  BY <1>2, <1>3, Zenon DEF HeadStructs
<1> QED
  BY <1>2, <1>4 DEF q

(* What attach_child is called with. *)
Attachable(h, n, i, c) ==
  /\ n \in Allocated(h) \cup {head} /\ c \in Allocated(h) \cup {tail}
  /\ i \in 0 .. 1 /\ n # c
  /\ n = head => i = 0
  /\ n # head => h[n].child[1 - i] \in Allocated(h) \cup {tail}

(* Two structs are written. *)
LinkedStructs(h, h2, n, i, c, s) ==
  /\ DOMAIN h2 = Nodes \cup {head, tail} /\ h2 = [m \in DOMAIN h2 |-> h2[m]]
  /\ h2[n] = WithChild(h[n], i, c, s)
  /\ h2[c] = WithParent(h[c], n, i)
  /\ \A m \in Nodes \cup {head, tail} : m # n /\ m # c => h2[m] = h[m]

(* link_child writes a child and a size to one struct and a parent to    *)
(* another, and no other struct.                                         *)
LEMMA LinkWrites ==
  ASSUME NEW h, IsHeap(h), NEW n, NEW i, NEW c, Attachable(h, n, i, c), NEW s
  PROVE  LinkedStructs(h, link_child(h, n, i, c, s), n, i, c, s)
<1> DEFINE h2 == link_child(h, n, i, c, s)
<1>1. h2 = [h EXCEPT ![n].child[i] = c, ![n].size = s, ![c].up = n, ![c].idx = i]
  BY DEF link_child
<1>2. DOMAIN h = Nodes \cup {head, tail} /\ n \in DOMAIN h /\ c \in DOMAIN h /\ n # c
  BY DEF IsHeap, Allocated, Attachable
<1> HIDE DEF h2
<1>3. DOMAIN h2 = Nodes \cup {head, tail} /\ h2 = [m \in DOMAIN h2 |-> h2[m]]
  BY <1>1, <1>2, Zenon
<1>4. h2[n] = WithChild(h[n], i, c, s)
  BY <1>1, <1>2, Zenon DEF WithChild
<1>5. h2[c] = WithParent(h[c], n, i)
  BY <1>1, <1>2, Zenon DEF WithParent
<1>6. \A m \in Nodes \cup {head, tail} : m # n /\ m # c => h2[m] = h[m]
  BY <1>1, <1>2
<1> QED
  BY <1>3, <1>4, <1>5, <1>6 DEF h2, LinkedStructs

(* A heap whose nodes are still nodes with the same elements. *)
LEMMA WrittenHeap ==
  ASSUME NEW h, IsHeap(h), NEW h2,
         DOMAIN h2 = Nodes \cup {head, tail}, h2 = [m \in DOMAIN h2 |-> h2[m]],
         \A m \in Allocated(h) : h2[m] \in NodeStructs /\ h2[m].key = h[m].key /\ h2[m].val = h[m].val,
         \A m \in Nodes : m \notin Allocated(h) => h2[m] = h[m],
         h2[tail] \in TailStructs,
         h2[head] \in HeadStructs /\ h2[head].child[1] = tail
  PROVE  IsHeap(h2) /\ SameElements(h, h2)
<1>1. \A m \in Nodes : m \notin Allocated(h) => h2[m] = Unallocated
  <2>1. \A m \in Nodes : m \notin Allocated(h) => h[m] = Unallocated
    BY DEF Allocated
  <2> QED
    BY <2>1
<1>2. \A m \in Nodes : h2[m] \in NodeStructs \cup {Unallocated}
  BY <1>1
<1>3. Allocated(h2) = Allocated(h)
  BY <1>1, MarksAssumption DEF Allocated
<1> QED
  BY <1>2, <1>3 DEF IsHeap, SameElements

(* What a rotation does to the links, for a child of p and the node above  *)
(* it that are where they should be.                                       *)
Rotatable(h, gp, p, n, c, i) ==
  /\ p \in Allocated(h) /\ n \in Allocated(h)
  /\ gp \in Allocated(h) \cup {head} /\ c \in Allocated(h) \cup {tail}
  /\ i \in 0 .. 1 /\ c = h[n].child[1 - i]
  /\ p # n /\ p # c /\ p # gp /\ n # c /\ n # gp /\ c # gp
  /\ h[p].child[1 - i] \in Allocated(h) \cup {tail}
  /\ h[n].child[i] \in Allocated(h) \cup {tail}
  /\ gp = head => h[p].idx = 0
  /\ gp # head => h[gp].child[1 - h[p].idx] \in Allocated(h) \cup {tail}

RotatedLinks(h, h2, gp, p, n, c, i) ==
  /\ h2[p].up = n /\ h2[p].idx = 1 - i
  /\ h2[p].child[i] = c /\ h2[p].child[1 - i] = h[p].child[1 - i]
  /\ h2[n].up = gp /\ h2[n].idx = h[p].idx
  /\ h2[n].child[1 - i] = p /\ h2[n].child[i] = h[n].child[i]
  /\ c # tail => h2[c].up = p /\ h2[c].idx = i /\ h2[c].child = h[c].child
  /\ gp # head => /\ h2[gp].child[h[p].idx] = n
                  /\ h2[gp].child[1 - h[p].idx] = h[gp].child[1 - h[p].idx]
                  /\ h2[gp].up = h[gp].up /\ h2[gp].idx = h[gp].idx
  /\ \A m \in Allocated(h) \ {p, n, c, gp} :
       h2[m].up = h[m].up /\ h2[m].idx = h[m].idx /\ h2[m].child = h[m].child

SameColours(h, h2) == \A m \in Allocated(h) : h2[m].red = h[m].red

-----------------------------------------------------------------------------
(* What the other writes do. *)

(* The links of the nodes are the same. *)
SameLinks(h, h2) ==
  \A m \in Allocated(h) :
    h2[m].up = h[m].up /\ h2[m].idx = h[m].idx /\ h2[m].child = h[m].child

Put(h, n, r) == [h EXCEPT ![n] = r]

(* A struct is put at an address and at no other. *)
LEMMA PutParts ==
  ASSUME NEW h, IsHeap(h), NEW n \in Nodes, NEW r
  PROVE  /\ DOMAIN Put(h, n, r) = Nodes \cup {head, tail}
         /\ Put(h, n, r) = [m \in DOMAIN Put(h, n, r) |-> Put(h, n, r)[m]]
         /\ Put(h, n, r)[n] = r
         /\ \A m \in Nodes \cup {head, tail} : m # n => Put(h, n, r)[m] = h[m]
BY DEF IsHeap, Put

(* A struct put at an address makes it a node. *)
LEMMA PutNode ==
  ASSUME NEW h, IsHeap(h), NEW n \in Nodes, NEW r \in NodeStructs
  PROVE  /\ IsHeap(Put(h, n, r)) /\ Allocated(Put(h, n, r)) = Allocated(h) \cup {n}
         /\ Put(h, n, r)[n] = r
         /\ \A m \in Nodes \cup {head, tail} : m # n => Put(h, n, r)[m] = h[m]
<1> DEFINE h2 == Put(h, n, r)
<1>1. /\ DOMAIN h2 = Nodes \cup {head, tail} /\ h2 = [m \in DOMAIN h2 |-> h2[m]]
      /\ h2[n] = r /\ \A m \in Nodes \cup {head, tail} : m # n => h2[m] = h[m]
  BY PutParts
<1> HIDE DEF h2
<1>2. n # head /\ n # tail /\ r # Unallocated
  BY SentinelsAssumption, MarksAssumption
<1>3. IsHeap(h2)
  BY <1>1, <1>2 DEF IsHeap
<1>4. Allocated(h2) = Allocated(h) \cup {n}
  BY <1>1, <1>2 DEF Allocated
<1> QED
  BY <1>1, <1>3, <1>4 DEF h2

(* A node is given up: the heap has one node less. *)
LEMMA DropNode ==
  ASSUME NEW h, IsHeap(h), NEW n \in Nodes
  PROVE  LET h2 == [h EXCEPT ![n] = Unallocated]
         IN  /\ IsHeap(h2) /\ Allocated(h2) = Allocated(h) \ {n}
             /\ \A m \in Nodes \cup {head, tail} : m # n => h2[m] = h[m]
<1> DEFINE h2 == Put(h, n, Unallocated)
<1>1. /\ DOMAIN h2 = Nodes \cup {head, tail} /\ h2 = [m \in DOMAIN h2 |-> h2[m]]
      /\ h2[n] = Unallocated /\ \A m \in Nodes \cup {head, tail} : m # n => h2[m] = h[m]
  BY PutParts
<1>2. h2 = [h EXCEPT ![n] = Unallocated]
  BY DEF Put
<1> HIDE DEF h2
<1>3. n # head /\ n # tail
  BY SentinelsAssumption
<1>4. IsHeap(h2)
  BY <1>1, <1>3 DEF IsHeap
<1>5. Allocated(h2) = Allocated(h) \ {n}
  BY <1>1, <1>3 DEF Allocated
<1> QED
  BY <1>1, <1>2, <1>4, <1>5

(* Writes to a node that leave its links and its element. *)
LEMMA TintLinks ==
  ASSUME NEW h, IsHeap(h), NEW n \in Allocated(h), NEW b \in BOOLEAN, NEW s \in Nat \ {0}
  PROVE  LET h2 == Put(h, n, Tinted(h[n], b, s))
         IN  /\ IsHeap(h2) /\ SameElements(h, h2) /\ SameLinks(h, h2)
             /\ h2[n].red = b /\ \A m \in Nodes \cup {head, tail} : m # n => h2[m] = h[m]
<1> DEFINE r == Tinted(h[n], b, s)
           h2 == Put(h, n, r)
<1>1. n \in Nodes /\ h[n] \in NodeStructs
  BY HeapParts
<1>2. /\ r \in NodeStructs /\ r.up = h[n].up /\ r.idx = h[n].idx /\ r.red = b
      /\ r.key = h[n].key /\ r.val = h[n].val /\ r.child = h[n].child
  BY <1>1, TintedStruct
<1> HIDE DEF r
<1>3. /\ IsHeap(h2) /\ Allocated(h2) = Allocated(h) \cup {n} /\ h2[n] = r
      /\ \A m \in Nodes \cup {head, tail} : m # n => h2[m] = h[m]
  BY <1>1, <1>2, PutNode
<1> HIDE DEF h2
<1>4. \A m \in Allocated(h) : m \in Nodes
  BY DEF Allocated
<1>5. SameElements(h, h2)
  BY <1>2, <1>3, <1>4 DEF SameElements
<1>6. SameLinks(h, h2)
  BY <1>1, <1>2, <1>3, <1>4, SentinelsAssumption DEF SameLinks
<1> QED
  BY <1>2, <1>3, <1>5, <1>6 DEF h2, r

(* set_red and set_black write one colour and no link. *)
LEMMA ColourLinks ==
  ASSUME NEW h, IsHeap(h), NEW n \in Allocated(h)
  PROVE  /\ LET h2 == set_red(h, n)
            IN  /\ IsHeap(h2) /\ SameElements(h, h2) /\ SameLinks(h, h2)
                /\ h2[n].red = TRUE /\ \A m \in Nodes \cup {head, tail} : m # n => h2[m] = h[m]
         /\ LET h2 == set_black(h, n)
            IN  /\ IsHeap(h2) /\ SameElements(h, h2) /\ SameLinks(h, h2)
                /\ h2[n].red = FALSE /\ \A m \in Nodes \cup {head, tail} : m # n => h2[m] = h[m]
<1>1. n \in Nodes /\ h[n] \in NodeStructs
  BY HeapParts
<1>2. h[n].size \in Nat \ {0}
  BY <1>1 DEF NodeStructs
<1>3. n \in DOMAIN h
  BY <1>1 DEF IsHeap
<1>4. n \in Nodes /\ h[n] \in NodeStructs /\ h[n].size \in Nat \ {0} /\ n \in DOMAIN h
  BY <1>1, <1>2, <1>3
<1>5. \A b \in BOOLEAN : [h[n] EXCEPT !.red = b] = Tinted(h[n], b, h[n].size)
  BY <1>4 DEF Tinted, NodeStructs
<1>6. /\ set_red(h, n) = Put(h, n, Tinted(h[n], TRUE, h[n].size))
      /\ set_black(h, n) = Put(h, n, Tinted(h[n], FALSE, h[n].size))
  <2>1. /\ set_red(h, n) = Put(h, n, [h[n] EXCEPT !.red = TRUE])
        /\ set_black(h, n) = Put(h, n, [h[n] EXCEPT !.red = FALSE])
    BY <1>4 DEF set_red, set_black, Put
  <2> QED
    BY <1>5, <2>1
<1>7. TRUE \in BOOLEAN /\ FALSE \in BOOLEAN
  OBVIOUS
<1> DEFINE s == h[n].size
           Done(h2, b) == /\ IsHeap(h2) /\ SameElements(h, h2) /\ SameLinks(h, h2)
                          /\ h2[n].red = b
                          /\ \A m \in Nodes \cup {head, tail} : m # n => h2[m] = h[m]
<1>8. s \in Nat \ {0}
  BY <1>4
<1> HIDE DEF s
<1>9. ASSUME NEW b \in BOOLEAN PROVE Done(Put(h, n, Tinted(h[n], b, s)), b)
  BY <1>8, TintLinks
<1> HIDE DEF Done
<1>10. Done(Put(h, n, Tinted(h[n], TRUE, s)), TRUE) /\ Done(Put(h, n, Tinted(h[n], FALSE, s)), FALSE)
  BY <1>7, <1>9
<1> QED
  BY <1>6, <1>10 DEF Done, s

(* rbtree_set_black of the tail changes nothing: the tail is black. *)
LEMMA BlackTail ==
  ASSUME NEW h, IsHeap(h)
  PROVE  set_black(h, tail) = h
<1>1. /\ tail \in DOMAIN h /\ h = [n \in DOMAIN h |-> h[n]]
      /\ h[tail] \in TailStructs
  BY DEF IsHeap
<1>2. [h[tail] EXCEPT !.red = FALSE] = h[tail]
  BY <1>1 DEF TailStructs
<1>3. set_black(h, tail) = [h EXCEPT ![tail] = [h[tail] EXCEPT !.red = FALSE]]
  BY DEF set_black
<1> QED
  BY <1>1, <1>2, <1>3

(* resize writes one size: no link and no colour. *)
LEMMA ResizeLinks ==
  ASSUME NEW h, IsHeap(h), NEW n \in Allocated(h),
         h[n].child[0] \in Allocated(h) \cup {tail}, h[n].child[1] \in Allocated(h) \cup {tail}
  PROVE  LET h2 == resize(h, n)
         IN  /\ IsHeap(h2) /\ SameElements(h, h2) /\ SameLinks(h, h2)
             /\ h2[n].red = h[n].red /\ \A m \in Nodes \cup {head, tail} : m # n => h2[m] = h[m]
<1> DEFINE s == h[h[n].child[0]].size + h[h[n].child[1]].size + 1
<1>1. s \in Nat \ {0}
  <2>1. \A m \in Allocated(h) \cup {tail, head} : h[m].size \in Nat
    BY HeapParts
  <2>2. h[h[n].child[0]].size \in Nat /\ h[h[n].child[1]].size \in Nat
    BY <2>1
  <2> QED
    BY <2>2
<1>2. n \in Nodes /\ h[n] \in NodeStructs /\ n \in DOMAIN h /\ h[n].red \in BOOLEAN
  BY HeapParts DEF IsHeap
<1>3. resize(h, n) = Put(h, n, [h[n] EXCEPT !.size = s])
  BY <1>2 DEF resize, Put
<1> HIDE DEF s
<1>4. [h[n] EXCEPT !.size = s] = Tinted(h[n], h[n].red, s)
  BY <1>2 DEF Tinted, NodeStructs
<1> DEFINE b  == h[n].red
           h2 == Put(h, n, Tinted(h[n], b, s))
<1>5. resize(h, n) = h2
  BY <1>3, <1>4
<1>6. b \in BOOLEAN
  BY <1>2
<1> HIDE DEF b
<1>7. /\ IsHeap(h2) /\ SameElements(h, h2) /\ SameLinks(h, h2)
      /\ h2[n].red = b /\ \A m \in Nodes \cup {head, tail} : m # n => h2[m] = h[m]
  BY <1>1, <1>6, TintLinks
<1> QED
  BY <1>5, <1>7 DEF b

(* What attach_child does to the links. *)
AttachedLinks(h, h2, n, i, c) ==
  /\ n # head => /\ h2[n].child[i] = c /\ h2[n].child[1 - i] = h[n].child[1 - i]
                 /\ h2[n].up = h[n].up /\ h2[n].idx = h[n].idx
  /\ h2[c].up = n
  /\ c # tail => h2[c].idx = i /\ h2[c].child = h[c].child
  /\ \A m \in Allocated(h) \ {n, c} :
       h2[m].up = h[m].up /\ h2[m].idx = h[m].idx /\ h2[m].child = h[m].child

(* link_child changes one child pointer and the parent of that child:    *)
(* the heap has the same nodes with the same elements and colours.       *)
LEMMA LinkLinks ==
  ASSUME NEW h, IsHeap(h), NEW n, NEW i, NEW c, Attachable(h, n, i, c),
         NEW s \in Nat \ {0}
  PROVE  LET h2 == link_child(h, n, i, c, s)
         IN  /\ IsHeap(h2) /\ SameElements(h, h2) /\ SameColours(h, h2)
             /\ AttachedLinks(h, h2, n, i, c)
<1> DEFINE h2 == link_child(h, n, i, c, s)
<1>1. /\ n \in Allocated(h) \cup {head} /\ c \in Allocated(h) \cup {tail}
      /\ i \in 0 .. 1 /\ n # c /\ (n = head => i = 0)
  BY DEF Attachable
<1>2. /\ DOMAIN h2 = Nodes \cup {head, tail} /\ h2 = [m \in DOMAIN h2 |-> h2[m]]
      /\ h2[n] = WithChild(h[n], i, c, s)
      /\ h2[c] = WithParent(h[c], n, i)
      /\ \A m \in Nodes \cup {head, tail} : m # n /\ m # c => h2[m] = h[m]
  <2>1. LinkedStructs(h, h2, n, i, c, s)
    BY LinkWrites
  <2> QED
    BY <2>1 DEF LinkedStructs
<1>3. /\ Allocated(h) \subseteq Nodes
      /\ head \notin Allocated(h) /\ tail \notin Allocated(h) /\ head # tail
      /\ \A m \in Allocated(h) : h[m] \in NodeStructs
      /\ \A m \in Allocated(h) \cup {tail, head} : h[m].size \in Nat
      /\ h[tail] \in TailStructs /\ h[head] \in HeadStructs /\ h[head].child[1] = tail
  BY HeapParts DEF IsHeap
<1>4. s \in Nat \ {0} /\ 1 - i \in 0 .. 1
  BY <1>1
<1> HIDE DEF h2
<1>5. IF c = tail THEN h2[tail] \in TailStructs /\ h2[tail].up = n
      ELSE /\ h2[c] \in NodeStructs /\ h2[c].red = h[c].red /\ h2[c].key = h[c].key /\ h2[c].val = h[c].val
           /\ h2[c].up = n /\ h2[c].idx = i /\ h2[c].child = h[c].child
  <2>1. h2[c] = WithParent(h[c], n, i) /\ i \in 0 .. 1 /\ n \in Nodes \cup {head}
    BY <1>1, <1>2, <1>3
  <2>2. CASE c = tail
    <3> DEFINE q == WithParent(h[tail], n, i)
    <3>1. h[tail] \in TailStructs
      BY <1>3
    <3>2. q \in TailStructs /\ q.up = n
      BY <2>1, <3>1, TailStruct
    <3> HIDE DEF q
    <3>3. h2[tail] = q
      BY <2>1, <2>2 DEF q
    <3> QED
      BY <2>2, <3>2, <3>3
  <2>3. CASE c # tail
    <3> DEFINE q == WithParent(h[c], n, i)
    <3>1. h[c] \in NodeStructs
      BY <1>1, <1>3, <2>3
    <3>2. /\ q \in NodeStructs /\ q.red = h[c].red /\ q.key = h[c].key /\ q.val = h[c].val
          /\ q.up = n /\ q.idx = i /\ q.child = h[c].child
      BY <2>1, <3>1, ParentStruct
    <3> HIDE DEF q
    <3>3. h2[c] = q
      BY <2>1 DEF q
    <3> QED
      BY <2>3, <3>2, <3>3
  <2> QED
    BY <2>2, <2>3
<1>6. IF n = head THEN h2[head] \in HeadStructs /\ h2[head].child[1] = tail
      ELSE /\ h2[n] \in NodeStructs /\ h2[n].red = h[n].red
           /\ h2[n].key = h[n].key /\ h2[n].val = h[n].val
           /\ h2[n].up = h[n].up /\ h2[n].idx = h[n].idx
           /\ h2[n].child[i] = c /\ h2[n].child[1 - i] = h[n].child[1 - i]
  <2>1. c \in Nodes \cup {tail}
    BY <1>1, <1>3
  <2>2. CASE n = head
    <3>1. /\ h2[head] = WithChild(h[head], 0, c, s) /\ s \in Nat
          /\ h[head] \in HeadStructs /\ h[head].child[1] = tail
      BY <1>1, <1>2, <1>3, <1>4, <2>2
    <3> DEFINE q == WithChild(h[head], 0, c, s)
    <3>2. q \in HeadStructs /\ q.child[1] = tail
      BY <2>1, <3>1, HeadStruct
    <3> HIDE DEF q
    <3>3. h2[head] = q
      BY <3>1 DEF q
    <3> QED
      BY <2>2, <3>2, <3>3
  <2>3. CASE n # head
    <3>1. /\ h2[n] = WithChild(h[n], i, c, s) /\ s \in Nat \ {0}
          /\ h[n] \in NodeStructs /\ i \in 0 .. 1
      BY <1>1, <1>2, <1>3, <1>4, <2>3
    <3> DEFINE q == WithChild(h[n], i, c, s)
    <3>2. ChildWritten(q, h[n], i, c, s)
      BY <2>1, <3>1, ChildStruct
    <3> HIDE DEF q
    <3>3. h2[n] = q
      BY <3>1 DEF q
    <3> QED
      BY <2>3, <3>2, <3>3 DEF ChildWritten
  <2> QED
    BY <2>2, <2>3
<1>7. \A m \in Allocated(h) \ {n, c} : h2[m] = h[m]
  BY <1>2, <1>3
<1>8. \A m \in Allocated(h) : h2[m] \in NodeStructs /\ h2[m].key = h[m].key /\ h2[m].val = h[m].val
  BY <1>3, <1>5, <1>6, <1>7
<1>9. SameColours(h, h2)
  BY <1>3, <1>5, <1>6, <1>7 DEF SameColours
<1>10. h2[tail] \in TailStructs /\ h2[head] \in HeadStructs /\ h2[head].child[1] = tail
  BY <1>1, <1>2, <1>3, <1>5, <1>6
<1>11. \A m \in Nodes : m \notin Allocated(h) => h2[m] = h[m]
  <2>1. \A m \in Nodes : m \notin Allocated(h) => m \notin {n, c}
    BY <1>1, SentinelsAssumption
  <2> QED
    BY <1>2, <2>1
<1>12. IsHeap(h2) /\ SameElements(h, h2)
  BY <1>2, <1>8, <1>10, <1>11, WrittenHeap
<1>13. AttachedLinks(h, h2, n, i, c)
  BY <1>5, <1>6, <1>7 DEF AttachedLinks
<1> QED
  BY <1>9, <1>12, <1>13 DEF h2

(* So does attach_child, with the size it computes from both children. *)
LEMMA AttachLinks ==
  ASSUME NEW h, IsHeap(h), NEW n, NEW i, NEW c, Attachable(h, n, i, c)
  PROVE  LET h2 == attach_child(h, n, i, c)
         IN  /\ IsHeap(h2) /\ SameElements(h, h2) /\ SameColours(h, h2)
             /\ AttachedLinks(h, h2, n, i, c)
<1> DEFINE s  == h[c].size + h[h[n].child[1 - i]].size + 1
<1>1. /\ n \in Allocated(h) \cup {head} /\ c \in Allocated(h) \cup {tail}
      /\ i \in 0 .. 1 /\ (n = head => i = 0)
  BY DEF Attachable
<1>2. /\ \A m \in Allocated(h) \cup {tail, head} : h[m].size \in Nat
      /\ h[head].child[1] = tail
  BY HeapParts
<1>3. s \in Nat \ {0} /\ 1 - i \in 0 .. 1
  <2>1. h[c].size \in Nat /\ 1 - i \in 0 .. 1
    BY <1>1, <1>2
  <2>2. h[h[n].child[1 - i]].size \in Nat
    <3>1. CASE n = head
      <4>1. h[n].child[1 - i] = tail
        BY <1>1, <1>2, <3>1
      <4> QED
        BY <1>2, <4>1
    <3>2. CASE n # head
      BY <1>2, <3>2 DEF Attachable
    <3> QED
      BY <3>1, <3>2
  <2> QED
    BY <2>1, <2>2
<1> HIDE DEF s
<1>4. attach_child(h, n, i, c) = link_child(h, n, i, c, s)
  BY DEF attach_child, s
<1> QED
  BY <1>3, <1>4, LinkLinks

(* A rotation, which is three calls of attach_child, makes the links     *)
(* that RotatedLinks says, on either side and when the child it moves is *)
(* missing or the node above is the head.                                *)
LEMMA RotateLinks ==
  ASSUME NEW h, IsHeap(h), NEW gp, NEW p, NEW n, NEW c, NEW i, Rotatable(h, gp, p, n, c, i)
  PROVE  LET h2 == rotate(h, gp, p, n, i)
         IN  /\ IsHeap(h2) /\ SameElements(h, h2) /\ SameColours(h, h2)
             /\ RotatedLinks(h, h2, gp, p, n, c, i)
<1> DEFINE g  == h[p].idx
           ps == h[c].size + h[h[p].child[1 - i]].size + 1
           ns == ps + h[h[n].child[i]].size + 1
           gs == ns + h[h[gp].child[1 - g]].size + 1
           h1 == link_child(h, p, i, c, ps)
           hm == link_child(h1, n, 1 - i, p, ns)
           h2 == link_child(hm, gp, g, n, gs)
<1>1. /\ p \in Allocated(h) /\ n \in Allocated(h)
      /\ gp \in Allocated(h) \cup {head} /\ c \in Allocated(h) \cup {tail}
      /\ i \in 0 .. 1 /\ c = h[n].child[1 - i]
      /\ p # n /\ p # c /\ p # gp /\ n # c /\ n # gp /\ c # gp
      /\ h[p].child[1 - i] \in Allocated(h) \cup {tail}
      /\ h[n].child[i] \in Allocated(h) \cup {tail}
      /\ gp = head => g = 0
      /\ gp # head => h[gp].child[1 - g] \in Allocated(h) \cup {tail}
  BY Zenon DEF Rotatable
<1>2. head \notin Allocated(h) /\ tail \notin Allocated(h) /\ head # tail /\ h[p].idx \in 0 .. 1
  BY <1>1, HeapParts
<1>3. 1 - i \in 0 .. 1 /\ 1 - (1 - i) = i /\ g \in 0 .. 1 /\ 1 - g \in 0 .. 1 /\ i # 1 - i /\ g # 1 - g
  BY <1>1, <1>2
<1>4. rotate(h, gp, p, n, i) = h2
  BY <1>1, Zenon DEF rotate
<1> HIDE DEF h1, hm, h2, g
<1>5. /\ \A m \in Allocated(h) \cup {tail, head} : h[m].size \in Nat
      /\ h[head].child[1] = tail
  BY HeapParts
<1>6. ps \in Nat \ {0} /\ ns \in Nat \ {0} /\ gs \in Nat \ {0}
  <2>1. h[c].size \in Nat /\ h[h[p].child[1 - i]].size \in Nat /\ h[h[n].child[i]].size \in Nat
    BY <1>1, <1>5
  <2>2. h[h[gp].child[1 - g]].size \in Nat
    <3>1. CASE gp = head
      <4>1. h[gp].child[1 - g] = tail
        BY <1>1, <1>5, <3>1
      <4> QED
        BY <1>5, <4>1
    <3>2. CASE gp # head
      BY <1>1, <1>5, <3>2
    <3> QED
      BY <3>1, <3>2
  <2> QED
    BY <2>1, <2>2
<1> HIDE DEF ps, ns, gs
<1>7. Attachable(h, p, i, c)
  BY <1>1, <1>2 DEF Attachable
<1>8. IsHeap(h1) /\ SameElements(h, h1) /\ SameColours(h, h1) /\ AttachedLinks(h, h1, p, i, c)
  BY <1>7, <1>6, LinkLinks DEF h1
<1>9. Allocated(h1) = Allocated(h)
  BY <1>8 DEF SameElements
<1>10. /\ h1[p].child[i] = c /\ h1[p].child[1 - i] = h[p].child[1 - i]
       /\ h1[p].up = h[p].up /\ h1[p].idx = h[p].idx
       /\ c # tail => h1[c].up = p /\ h1[c].idx = i /\ h1[c].child = h[c].child
       /\ \A m \in Allocated(h) \ {p, c} :
             h1[m].up = h[m].up /\ h1[m].idx = h[m].idx /\ h1[m].child = h[m].child
  BY <1>1, <1>2, <1>8 DEF AttachedLinks
<1>11. Attachable(h1, n, 1 - i, p)
  BY <1>1, <1>2, <1>3, <1>9, <1>10 DEF Attachable
<1>12. IsHeap(hm) /\ SameElements(h1, hm) /\ SameColours(h1, hm) /\ AttachedLinks(h1, hm, n, 1 - i, p)
  BY <1>8, <1>11, <1>6, LinkLinks DEF hm
<1>13. Allocated(hm) = Allocated(h)
  BY <1>9, <1>12 DEF SameElements
<1>14. /\ hm[n].child[1 - i] = p /\ hm[n].child[i] = h1[n].child[i]
       /\ hm[n].up = h1[n].up /\ hm[n].idx = h1[n].idx
       /\ hm[p].up = n /\ hm[p].idx = 1 - i /\ hm[p].child = h1[p].child
       /\ \A m \in Allocated(h) \ {n, p} :
             hm[m].up = h1[m].up /\ hm[m].idx = h1[m].idx /\ hm[m].child = h1[m].child
  BY <1>1, <1>2, <1>3, <1>9, <1>12 DEF AttachedLinks
<1>15. Attachable(hm, gp, g, n)
  <2>1. gp # head => hm[gp].child = h[gp].child
    BY <1>1, <1>10, <1>14
  <2> QED
    BY <1>1, <1>2, <1>3, <1>13, <2>1 DEF Attachable
<1>16. IsHeap(h2) /\ SameElements(hm, h2) /\ SameColours(hm, h2) /\ AttachedLinks(hm, h2, gp, g, n)
  BY <1>12, <1>15, <1>6, LinkLinks DEF h2
<1>17. /\ gp # head => /\ h2[gp].child[g] = n /\ h2[gp].child[1 - g] = hm[gp].child[1 - g]
                       /\ h2[gp].up = hm[gp].up /\ h2[gp].idx = hm[gp].idx
       /\ h2[n].up = gp /\ h2[n].idx = g /\ h2[n].child = hm[n].child
       /\ \A m \in Allocated(h) \ {gp, n} :
             h2[m].up = hm[m].up /\ h2[m].idx = hm[m].idx /\ h2[m].child = hm[m].child
  BY <1>1, <1>2, <1>13, <1>16 DEF AttachedLinks
<1>18. RotatedLinks(h, h2, gp, p, n, c, i)
  <2>1. /\ h2[p].up = n /\ h2[p].idx = 1 - i
        /\ h2[p].child[i] = c /\ h2[p].child[1 - i] = h[p].child[1 - i]
    BY <1>1, <1>10, <1>14, <1>17
  <2>2. /\ h2[n].up = gp /\ h2[n].idx = h[p].idx
        /\ h2[n].child[1 - i] = p /\ h2[n].child[i] = h[n].child[i]
    BY <1>1, <1>10, <1>14, <1>17 DEF g
  <2>3. c # tail => h2[c].up = p /\ h2[c].idx = i /\ h2[c].child = h[c].child
    BY <1>1, <1>10, <1>14, <1>17
  <2>4. gp # head => /\ h2[gp].child[h[p].idx] = n
                     /\ h2[gp].child[1 - h[p].idx] = h[gp].child[1 - h[p].idx]
                     /\ h2[gp].up = h[gp].up /\ h2[gp].idx = h[gp].idx
    BY <1>1, <1>10, <1>14, <1>17 DEF g
  <2>5. \A m \in Allocated(h) \ {p, n, c, gp} :
          h2[m].up = h[m].up /\ h2[m].idx = h[m].idx /\ h2[m].child = h[m].child
    BY <1>10, <1>14, <1>17
  <2> QED
    BY <2>1, <2>2, <2>3, <2>4, <2>5 DEF RotatedLinks
<1>19. SameElements(h, h2) /\ SameColours(h, h2)
  BY <1>8, <1>9, <1>12, <1>13, <1>16 DEF SameElements, SameColours
<1> QED
  BY <1>4, <1>16, <1>18, <1>19, Zenon

-----------------------------------------------------------------------------
(* Trees.  A view of a heap says, for each tree, which node is at its top  *)
(* and which elements it holds and, for each node, which tree it is in, at *)
(* which place in the tree's order, and from which to which place the      *)
(* nodes below it are (lo and hi).                                         *)

LeftFits(h, v, n) ==
  LET c == h[n].child[0]
  IN  IF c = tail THEN v.lo[n] = v.at[n]
      ELSE /\ c \in Allocated(h) /\ h[c].up = n /\ h[c].idx = 0
           /\ v.own[c] = v.own[n] /\ v.lo[c] = v.lo[n] /\ v.hi[c] = v.at[n] - 1

RightFits(h, v, n) ==
  LET c == h[n].child[1]
  IN  IF c = tail THEN v.hi[n] = v.at[n]
      ELSE /\ c \in Allocated(h) /\ h[c].up = n /\ h[c].idx = 1
           /\ v.own[c] = v.own[n] /\ v.lo[c] = v.at[n] + 1 /\ v.hi[c] = v.hi[n]

UpFits(h, v, n) ==
  IF h[n].up = head THEN h[n].idx = 0 /\ v.top[v.own[n]] = n
  ELSE h[n].up \in Allocated(h) /\ h[h[n].up].child[h[n].idx] = n

SpanFits(h, v, n) ==
  /\ v.lo[n] \in Nat /\ v.at[n] \in Nat /\ v.hi[n] \in Nat
  /\ 1 <= v.lo[n] /\ v.lo[n] <= v.at[n] /\ v.at[n] <= v.hi[n]
  /\ v.own[n] \in Trees /\ v.top[v.own[n]] \in Allocated(h)
  /\ v.hi[n] <= v.hi[v.top[v.own[n]]]

TopFits(h, v, t) ==
  v.top[t] \notin {tail, NoTree} =>
    /\ v.top[t] \in Allocated(h) /\ v.own[v.top[t]] = t
    /\ h[v.top[t]].up = head /\ v.lo[v.top[t]] = 1

Apart(h, v) ==
  \A m, n \in Allocated(h) : v.own[m] = v.own[n] /\ v.at[m] = v.at[n] => m = n

(* The links of the nodes make them the trees of the view. *)
Shape(h, v) ==
  /\ \A n \in Allocated(h) :
       LeftFits(h, v, n) /\ RightFits(h, v, n) /\ UpFits(h, v, n) /\ SpanFits(h, v, n)
  /\ \A t \in Trees : TopFits(h, v, t)
  /\ Apart(h, v)

(* How many elements a tree of the view has. *)
Extent(v, t) == IF v.top[t] \in {tail, NoTree} THEN 0 ELSE v.hi[v.top[t]]

(* A heap with the same links has the same trees. *)
LEMMA SameShape ==
  ASSUME NEW h, NEW h2, NEW v, Shape(h, v), Allocated(h2) = Allocated(h), SameLinks(h, h2)
  PROVE  Shape(h2, v)
<1>1. ASSUME NEW n \in Allocated(h)
      PROVE  LeftFits(h2, v, n) /\ RightFits(h2, v, n) /\ UpFits(h2, v, n) /\ SpanFits(h2, v, n)
  <2>1. LeftFits(h, v, n) /\ RightFits(h, v, n) /\ UpFits(h, v, n) /\ SpanFits(h, v, n)
    BY DEF Shape
  <2>2. LeftFits(h2, v, n)
    BY <2>1 DEF LeftFits, SameLinks
  <2>3. RightFits(h2, v, n)
    BY <2>1 DEF RightFits, SameLinks
  <2>4. UpFits(h2, v, n)
    BY <2>1 DEF UpFits, SameLinks
  <2>5. SpanFits(h2, v, n)
    BY <2>1 DEF SpanFits
  <2> QED
    BY <2>2, <2>3, <2>4, <2>5
<1>2. \A t \in Trees : TopFits(h2, v, t)
  BY DEF Shape, TopFits, SameLinks
<1>3. Apart(h2, v)
  BY DEF Shape, Apart
<1> QED
  BY <1>1, <1>2, <1>3 DEF Shape

(* A node's children are where they should be. *)
LEMMA ShapeParts ==
  ASSUME NEW h, IsHeap(h), NEW v, Shape(h, v), NEW n \in Allocated(h)
  PROVE  /\ v.lo[n] \in Nat /\ v.at[n] \in Nat /\ v.hi[n] \in Nat
         /\ 1 <= v.lo[n] /\ v.lo[n] <= v.at[n] /\ v.at[n] <= v.hi[n]
         /\ v.own[n] \in Trees /\ v.top[v.own[n]] \in Allocated(h)
         /\ v.hi[n] <= v.hi[v.top[v.own[n]]]
         /\ h[n].child[0] \in Allocated(h) \cup {tail} /\ h[n].child[1] \in Allocated(h) \cup {tail}
         /\ h[n].up \in Allocated(h) \cup {head} /\ h[n].idx \in 0 .. 1
         /\ h[n].up = head => h[n].idx = 0 /\ v.top[v.own[n]] = n
         /\ h[n].up # head => h[h[n].up].child[h[n].idx] = n
         /\ h[n].child[0] = tail => v.lo[n] = v.at[n]
         /\ h[n].child[1] = tail => v.hi[n] = v.at[n]
<1>1. LeftFits(h, v, n) /\ RightFits(h, v, n) /\ UpFits(h, v, n) /\ SpanFits(h, v, n)
  BY DEF Shape
<1>2. h[n].idx \in 0 .. 1
  BY HeapParts
<1>3. h[n].child[0] \in Allocated(h) \cup {tail} /\ (h[n].child[0] = tail => v.lo[n] = v.at[n])
  BY <1>1 DEF LeftFits
<1>4. h[n].child[1] \in Allocated(h) \cup {tail} /\ (h[n].child[1] = tail => v.hi[n] = v.at[n])
  BY <1>1 DEF RightFits
<1> QED
  BY <1>1, <1>2, <1>3, <1>4 DEF UpFits, SpanFits

(* The left child of a node has the span before it. *)
LEMMA LeftParts ==
  ASSUME NEW h, NEW v, Shape(h, v), NEW n \in Allocated(h), h[n].child[0] # tail
  PROVE  LET c == h[n].child[0]
         IN  /\ c \in Allocated(h) /\ h[c].up = n /\ h[c].idx = 0
             /\ v.own[c] = v.own[n] /\ v.lo[c] = v.lo[n] /\ v.hi[c] = v.at[n] - 1
             /\ v.at[c] < v.at[n] /\ v.lo[n] <= v.at[c]
<1>1. LeftFits(h, v, n) /\ SpanFits(h, v, n)
  BY DEF Shape
<1> DEFINE c == h[n].child[0]
<1>2. /\ c \in Allocated(h) /\ h[c].up = n /\ h[c].idx = 0
      /\ v.own[c] = v.own[n] /\ v.lo[c] = v.lo[n] /\ v.hi[c] = v.at[n] - 1
  BY <1>1 DEF LeftFits
<1> HIDE DEF c
<1>3. SpanFits(h, v, c)
  BY <1>2 DEF Shape
<1>4. v.at[c] < v.at[n] /\ v.lo[n] <= v.at[c]
  BY <1>1, <1>2, <1>3 DEF SpanFits
<1> QED
  BY <1>2, <1>4 DEF c

(* The right child of a node has the span behind it. *)
LEMMA RightParts ==
  ASSUME NEW h, NEW v, Shape(h, v), NEW n \in Allocated(h), h[n].child[1] # tail
  PROVE  LET c == h[n].child[1]
         IN  /\ c \in Allocated(h) /\ h[c].up = n /\ h[c].idx = 1
             /\ v.own[c] = v.own[n] /\ v.lo[c] = v.at[n] + 1 /\ v.hi[c] = v.hi[n]
             /\ v.at[n] < v.at[c] /\ v.at[c] <= v.hi[n]
<1>1. RightFits(h, v, n) /\ SpanFits(h, v, n)
  BY DEF Shape
<1> DEFINE c == h[n].child[1]
<1>2. /\ c \in Allocated(h) /\ h[c].up = n /\ h[c].idx = 1
      /\ v.own[c] = v.own[n] /\ v.lo[c] = v.at[n] + 1 /\ v.hi[c] = v.hi[n]
  BY <1>1 DEF RightFits
<1> HIDE DEF c
<1>3. SpanFits(h, v, c)
  BY <1>2 DEF Shape
<1>4. v.at[n] < v.at[c] /\ v.at[c] <= v.hi[n]
  BY <1>1, <1>2, <1>3 DEF SpanFits
<1> QED
  BY <1>2, <1>4 DEF c

(* A node below another is in its span, and the other is not in the node's. *)
LEMMA UpParts ==
  ASSUME NEW h, IsHeap(h), NEW v, Shape(h, v), NEW n \in Allocated(h), h[n].up # head
  PROVE  LET p == h[n].up
         IN  /\ p \in Allocated(h) /\ p # n /\ h[p].child[h[n].idx] = n /\ v.own[p] = v.own[n]
             /\ h[n].idx = 0 => v.lo[n] = v.lo[p] /\ v.hi[n] = v.at[p] - 1
             /\ h[n].idx = 1 => v.lo[n] = v.at[p] + 1 /\ v.hi[n] = v.hi[p]
             /\ v.lo[p] <= v.lo[n] /\ v.hi[n] <= v.hi[p] /\ v.at[p] \notin v.lo[n] .. v.hi[n]
<1> DEFINE p == h[n].up
<1>1. /\ p \in Allocated(h) /\ h[p].child[h[n].idx] = n /\ h[n].idx \in 0 .. 1
  BY ShapeParts
<1>2. n # tail
  <2>1. tail \notin Allocated(h)
    BY HeapParts
  <2> QED
    BY <2>1
<1>3. SpanFits(h, v, n) /\ SpanFits(h, v, p)
  BY <1>1 DEF Shape
<1> HIDE DEF p
<1>4. CASE h[n].idx = 0
  <2>1. h[p].child[0] # tail /\ h[p].child[0] = n
    BY <1>1, <1>2, <1>4
  <2>2. v.own[p] = v.own[n] /\ v.lo[n] = v.lo[p] /\ v.hi[n] = v.at[p] - 1 /\ v.at[n] < v.at[p]
    BY <1>1, <2>1, LeftParts
  <2> QED
    BY <1>1, <1>3, <1>4, <2>2 DEF SpanFits, p
<1>5. CASE h[n].idx = 1
  <2>1. h[p].child[1] # tail /\ h[p].child[1] = n
    BY <1>1, <1>2, <1>5
  <2>2. v.own[p] = v.own[n] /\ v.lo[n] = v.at[p] + 1 /\ v.hi[n] = v.hi[p] /\ v.at[p] < v.at[n]
    BY <1>1, <2>1, RightParts
  <2> QED
    BY <1>1, <1>3, <1>5, <2>2 DEF SpanFits, p
<1>6. h[n].idx = 0 \/ h[n].idx = 1
  BY <1>1
<1> QED
  BY <1>4, <1>5, <1>6

-----------------------------------------------------------------------------
(* Rotations. *)

(* The view after a rotation. *)
Turned(v, gp, p, n, i) ==
  [top |-> [t \in Trees |-> IF gp = head /\ t = v.own[p] THEN n ELSE v.top[t]],
   own |-> v.own, at |-> v.at, held |-> v.held,
   lo |-> [m \in Nodes |-> IF i = 0 /\ m = p THEN v.at[n] + 1
                           ELSE IF i = 1 /\ m = n THEN v.lo[p] ELSE v.lo[m]],
   hi |-> [m \in Nodes |-> IF i = 0 /\ m = n THEN v.hi[p]
                           ELSE IF i = 1 /\ m = p THEN v.at[n] - 1 ELSE v.hi[m]]]

(* Views of the same trees, but for which node is at the top of one. *)
SameTrees(v, v2, o) ==
  /\ v2.own = v.own /\ v2.at = v.at /\ v2.held = v.held
  /\ \A t \in Trees : /\ t # o => v2.top[t] = v.top[t]
                      /\ v2.top[t] = tail <=> v.top[t] = tail
                      /\ v2.top[t] = NoTree <=> v.top[t] = NoTree
                      /\ Extent(v2, t) = Extent(v, t)

(* A node with a child on side i may be rotated: the four structs that   *)
(* the rotation writes are different ones.                               *)
LEMMA RotationFits ==
  ASSUME NEW h, IsHeap(h), NEW v, Shape(h, v), NEW p \in Allocated(h), NEW i \in 0 .. 1,
         h[p].child[i] # tail
  PROVE  Rotatable(h, h[p].up, p, h[p].child[i], h[h[p].child[i]].child[1 - i], i)
<1> DEFINE n  == h[p].child[i]
           c  == h[n].child[1 - i]
           gp == h[p].up
<1>1. tail \notin Allocated(h) /\ head \notin Allocated(h) /\ head # tail
  BY HeapParts
<1>2. /\ h[p].child[0] \in Allocated(h) \cup {tail} /\ h[p].child[1] \in Allocated(h) \cup {tail}
      /\ gp \in Allocated(h) \cup {head} /\ (gp = head => h[p].idx = 0)
      /\ v.lo[p] \in Nat /\ v.at[p] \in Nat /\ v.hi[p] \in Nat
      /\ v.lo[p] <= v.at[p] /\ v.at[p] <= v.hi[p]
  BY ShapeParts
<1>3. i = 0 \/ i = 1
  OBVIOUS
<1>4. n \in Allocated(h)
  BY <1>2, <1>3
<1>5. /\ v.at[n] \in Nat /\ v.lo[p] <= v.at[n] /\ v.at[n] <= v.hi[p] /\ v.at[n] # v.at[p]
      /\ i = 0 => v.hi[n] = v.at[p] - 1
      /\ i = 1 => v.lo[n] = v.at[p] + 1
      /\ v.lo[p] <= v.lo[n] /\ v.hi[n] <= v.hi[p]
      /\ v.lo[n] \in Nat /\ v.hi[n] \in Nat /\ v.lo[n] <= v.at[n] /\ v.at[n] <= v.hi[n]
  <2>1. /\ v.lo[n] \in Nat /\ v.at[n] \in Nat /\ v.hi[n] \in Nat
        /\ v.lo[n] <= v.at[n] /\ v.at[n] <= v.hi[n]
    BY <1>4, ShapeParts
  <2>2. CASE i = 0
    <3>1. /\ v.lo[n] = v.lo[p] /\ v.hi[n] = v.at[p] - 1
      BY <2>2, LeftParts
    <3> HIDE DEF n
    <3> QED
      BY <1>2, <2>1, <2>2, <3>1
  <2>3. CASE i = 1
    <3>1. /\ v.hi[n] = v.hi[p] /\ v.lo[n] = v.at[p] + 1
      BY <2>3, RightParts
    <3> HIDE DEF n
    <3> QED
      BY <1>2, <2>1, <2>3, <3>1
  <2> QED
    BY <1>3, <2>2, <2>3
<1> HIDE DEF n
<1>6. h[n].child[0] \in Allocated(h) \cup {tail} /\ h[n].child[1] \in Allocated(h) \cup {tail}
  BY <1>4, ShapeParts
<1>7. c # tail => /\ c \in Allocated(h) /\ v.at[c] \in Nat /\ v.lo[n] <= v.at[c] /\ v.at[c] <= v.hi[n]
                  /\ v.at[c] # v.at[n]
  <2> SUFFICES ASSUME c # tail
               PROVE  /\ c \in Allocated(h) /\ v.at[c] \in Nat /\ v.lo[n] <= v.at[c] /\ v.at[c] <= v.hi[n]
                      /\ v.at[c] # v.at[n]
    OBVIOUS
  <2>1. c \in Allocated(h)
    BY <1>3, <1>6
  <2>2. v.lo[c] \in Nat /\ v.at[c] \in Nat /\ v.hi[c] \in Nat /\ v.lo[c] <= v.at[c] /\ v.at[c] <= v.hi[c]
    BY <2>1, ShapeParts
  <2>3. CASE i = 0
    <3>1. h[n].child[1] = c
      BY <2>3
    <3>2. v.lo[c] = v.at[n] + 1 /\ v.hi[c] = v.hi[n]
      BY <1>4, <3>1, RightParts
    <3> HIDE DEF c
    <3> QED
      BY <1>5, <2>1, <2>2, <3>2
  <2>4. CASE i = 1
    <3>1. h[n].child[0] = c
      BY <2>4
    <3>2. v.lo[c] = v.lo[n] /\ v.hi[c] = v.at[n] - 1
      BY <1>4, <3>1, LeftParts
    <3> HIDE DEF c
    <3> QED
      BY <1>5, <2>1, <2>2, <3>2
  <2> QED
    BY <1>3, <2>3, <2>4
<1>8. gp # head => /\ gp # p /\ v.at[gp] \notin v.lo[p] .. v.hi[p] /\ v.at[gp] \in Nat
                   /\ h[gp].child[0] \in Allocated(h) \cup {tail}
                   /\ h[gp].child[1] \in Allocated(h) \cup {tail} /\ h[p].idx \in 0 .. 1
  <2> SUFFICES ASSUME gp # head
               PROVE  /\ gp # p /\ v.at[gp] \notin v.lo[p] .. v.hi[p] /\ v.at[gp] \in Nat
                      /\ h[gp].child[0] \in Allocated(h) \cup {tail}
                      /\ h[gp].child[1] \in Allocated(h) \cup {tail} /\ h[p].idx \in 0 .. 1
    OBVIOUS
  <2>1. gp # p /\ v.at[gp] \notin v.lo[p] .. v.hi[p]
    BY UpParts
  <2>2. gp \in Allocated(h)
    BY <1>2
  <2> HIDE DEF gp
  <2>3. /\ v.at[gp] \in Nat /\ h[gp].child[0] \in Allocated(h) \cup {tail}
        /\ h[gp].child[1] \in Allocated(h) \cup {tail}
    BY <2>2, ShapeParts
  <2>4. h[p].idx \in 0 .. 1
    BY ShapeParts
  <2> QED
    BY <2>1, <2>3, <2>4
<1> HIDE DEF gp, c
<1>9. p # n /\ p # c /\ n # c
  <2>1. p # n
    BY <1>5
  <2>2. p # c /\ n # c
    <3>1. CASE c = tail
      BY <1>1, <1>4, <3>1
    <3>2. CASE c # tail
      <4>1. v.at[c] # v.at[n]
        BY <1>7, <3>2
      <4>2. v.at[c] # v.at[p]
        BY <1>2, <1>3, <1>5, <1>7, <3>2
      <4> QED
        BY <4>1, <4>2
    <3> QED
      BY <3>1, <3>2
  <2> QED
    BY <2>1, <2>2
<1>10. p # gp /\ n # gp /\ c # gp
  <2>1. CASE gp = head
    BY <1>1, <1>4, <1>7, <2>1
  <2>2. CASE gp # head
    <3>1. n # gp
      BY <1>2, <1>5, <1>8, <2>2
    <3>2. c # gp
      <4>1. CASE c = tail
        BY <1>1, <1>2, <2>2, <4>1
      <4>2. CASE c # tail
        <5>1. v.at[c] \in v.lo[p] .. v.hi[p]
          BY <1>2, <1>5, <1>7, <4>2
        <5> QED
          BY <1>8, <2>2, <5>1
      <4> QED
        BY <4>1, <4>2
    <3> QED
      BY <1>8, <2>2, <3>1, <3>2
  <2> QED
    BY <2>1, <2>2
<1>11. /\ c \in Allocated(h) \cup {tail} /\ h[n].child[i] \in Allocated(h) \cup {tail}
       /\ h[p].child[1 - i] \in Allocated(h) \cup {tail}
  BY <1>2, <1>3, <1>6 DEF c
<1>12. gp # head => h[gp].child[1 - h[p].idx] \in Allocated(h) \cup {tail}
  BY <1>8
<1>13. Rotatable(h, gp, p, n, c, i)
  BY <1>2, <1>4, <1>9, <1>10, <1>11, <1>12 DEF Rotatable, c
<1> QED
  BY <1>13 DEF n, c, gp

(* A rotation that brings the left child up keeps the order of the       *)
(* trees: the view changes in two spans, and in the top if there is no   *)
(* node above.                                                           *)
LEMMA TurnsLeft ==
  ASSUME NEW h, IsHeap(h), NEW v, Shape(h, v), NEW p \in Allocated(h), h[p].child[0] # tail,
         NEW h2, IsHeap(h2), Allocated(h2) = Allocated(h),
         RotatedLinks(h, h2, h[p].up, p, h[p].child[0], h[h[p].child[0]].child[1], 0)
  PROVE  LET v2 == Turned(v, h[p].up, p, h[p].child[0], 0)
         IN  Shape(h2, v2) /\ SameTrees(v, v2, v.own[p])
<1> DEFINE n  == h[p].child[0]
           c  == h[n].child[1]
           gp == h[p].up
           g  == h[p].idx
           A  == Allocated(h)
           v2 == Turned(v, gp, p, n, 0)
<1>1. Rotatable(h, gp, p, n, c, 0)
  <2>1. 0 \in 0 .. 1
    OBVIOUS
  <2>2. Rotatable(h, gp, p, n, h[n].child[1 - 0], 0)
    BY <2>1, RotationFits
  <2> QED
    BY <2>2
<1>2. /\ p \in A /\ n \in A /\ gp \in A \cup {head} /\ c \in A \cup {tail} /\ A \subseteq Nodes
      /\ p # n /\ p # c /\ p # gp /\ n # c /\ n # gp /\ c # gp
      /\ head \notin A /\ tail \notin A
  <2>1. head \notin A /\ tail \notin A /\ A \subseteq Nodes
    BY HeapParts, Zenon
  <2> QED
    BY <1>1, <2>1, Zenon DEF Rotatable
<1>3. \A m \in A : LeftFits(h, v, m) /\ RightFits(h, v, m) /\ UpFits(h, v, m) /\ SpanFits(h, v, m)
  BY DEF Shape
<1>4. /\ h[n].up = p /\ h[n].idx = 0 /\ v.own[n] = v.own[p]
      /\ v.lo[n] = v.lo[p] /\ v.hi[n] = v.at[p] - 1 /\ v.at[n] < v.at[p]
  BY LeftParts
<1>5. RotatedLinks(h, h2, gp, p, n, c, 0)
  OBVIOUS
<1>6. /\ gp # head => /\ h[gp].child[g] = p /\ v.own[gp] = v.own[p]
                      /\ g = 0 => v.lo[p] = v.lo[gp] /\ v.hi[p] = v.at[gp] - 1
                      /\ g = 1 => v.lo[p] = v.at[gp] + 1 /\ v.hi[p] = v.hi[gp]
  BY UpParts
<1>7. g \in 0 .. 1 /\ (gp = head => g = 0 /\ v.top[v.own[p]] = p)
  BY ShapeParts
<1>8. /\ g \in 0 .. 1
      /\ gp # head => /\ h[gp].child[g] = p /\ v.own[gp] = v.own[p]
                      /\ g = 0 => v.lo[p] = v.lo[gp] /\ v.hi[p] = v.at[gp] - 1
                      /\ g = 1 => v.lo[p] = v.at[gp] + 1 /\ v.hi[p] = v.hi[gp]
      /\ gp = head => g = 0 /\ v.top[v.own[p]] = p
  BY <1>6, <1>7
<1>9. h[p].up = gp /\ h[p].idx = g
  OBVIOUS
<1> HIDE DEF n
<1>10. c # tail => h[c].up = n /\ h[c].idx = 1 /\ v.own[c] = v.own[n] /\ v.lo[c] = v.at[n] + 1 /\ v.hi[c] = v.hi[n]
  <2> SUFFICES ASSUME c # tail
               PROVE  /\ h[c].up = n /\ h[c].idx = 1 /\ v.own[c] = v.own[n]
                      /\ v.lo[c] = v.at[n] + 1 /\ v.hi[c] = v.hi[n]
    OBVIOUS
  <2>1. n \in Allocated(h) /\ h[n].child[1] # tail
    BY <1>2
  <2> DEFINE d == h[n].child[1]
  <2>2. /\ h[d].up = n /\ h[d].idx = 1 /\ v.own[d] = v.own[n]
        /\ v.lo[d] = v.at[n] + 1 /\ v.hi[d] = v.hi[n]
    BY <2>1, RightParts
  <2> QED
    BY <2>2
<1>11. c = tail => v.hi[n] = v.at[n]
  BY <1>2, ShapeParts
<1> HIDE DEF c, gp, g, A, v2
<1>12. /\ v2.own = v.own /\ v2.at = v.at /\ v2.held = v.held
       /\ \A t \in Trees : v2.top[t] = IF gp = head /\ t = v.own[p] THEN n ELSE v.top[t]
       /\ \A m \in A : /\ v2.lo[m] = IF m = p THEN v.at[n] + 1 ELSE v.lo[m]
                       /\ v2.hi[m] = IF m = n THEN v.hi[p] ELSE v.hi[m]
  <2>1. v2.own = v.own /\ v2.at = v.at /\ v2.held = v.held
    BY DEF Turned, v2
  <2>2. \A t \in Trees : v2.top[t] = IF gp = head /\ t = v.own[p] THEN n ELSE v.top[t]
    BY DEF Turned, v2
  <2>3. \A m \in Nodes : v2.lo[m] = IF m = p THEN v.at[n] + 1 ELSE v.lo[m]
    BY DEF Turned, v2
  <2>4. \A m \in Nodes : v2.hi[m] = IF m = n THEN v.hi[p] ELSE v.hi[m]
    BY DEF Turned, v2
  <2> QED
    BY <1>2, <2>1, <2>2, <2>3, <2>4
<1>13. 1 - 0 = 1 /\ 1 - 1 = 0
  OBVIOUS
<1>14. /\ h2[p].up = n /\ h2[p].idx = 1 /\ h2[p].child[0] = c /\ h2[p].child[1] = h[p].child[1]
       /\ h2[n].up = gp /\ h2[n].idx = g /\ h2[n].child[1] = p /\ h2[n].child[0] = h[n].child[0]
       /\ c # tail => h2[c].up = p /\ h2[c].idx = 0
       /\ gp # head => h2[gp].child[g] = n /\ h2[gp].child[1 - g] = h[gp].child[1 - g]
       /\ \A m \in A \ {p, n, c} : h2[m].up = h[m].up /\ h2[m].idx = h[m].idx
       /\ \A m \in A \ {p, n, gp} : h2[m].child = h[m].child
  <2>1. /\ h2[p].up = n /\ h2[p].idx = 1 /\ h2[p].child[0] = c /\ h2[p].child[1] = h[p].child[1]
        /\ h2[n].up = gp /\ h2[n].idx = g /\ h2[n].child[1] = p /\ h2[n].child[0] = h[n].child[0]
        /\ c # tail => h2[c].up = p /\ h2[c].idx = 0 /\ h2[c].child = h[c].child
        /\ gp # head => /\ h2[gp].child[g] = n /\ h2[gp].child[1 - g] = h[gp].child[1 - g]
                        /\ h2[gp].up = h[gp].up /\ h2[gp].idx = h[gp].idx
    BY <1>5, <1>13 DEF RotatedLinks, g
  <2>2. \A m \in A \ {p, n, c, gp} :
          h2[m].up = h[m].up /\ h2[m].idx = h[m].idx /\ h2[m].child = h[m].child
    BY <1>5 DEF RotatedLinks, A
  <2>3. \A m \in A : m # head /\ m # tail
    BY <1>2
  <2> QED
    BY <2>1, <2>2, <2>3
<1>15. \A m \in A : v.lo[m] \in Nat /\ v.at[m] \in Nat /\ v.hi[m] \in Nat
  BY <1>3 DEF SpanFits
<1>16. \A m \in A : h[m].idx \in 0 .. 1
  BY HeapParts, Zenon DEF A
<1>17. ASSUME NEW m \in A PROVE LeftFits(h2, v2, m)
  <2> DEFINE d == h[m].child[0]
  <2>1. IF d = tail THEN v.lo[m] = v.at[m]
        ELSE /\ d \in A /\ h[d].up = m /\ h[d].idx = 0
             /\ v.own[d] = v.own[m] /\ v.lo[d] = v.lo[m] /\ v.hi[d] = v.at[m] - 1
    BY <1>3 DEF LeftFits, A
  <2>2. CASE m = p
    BY <1>2, <1>12, <1>14, <1>4, <1>10, <1>11, <1>15, <2>1, <2>2 DEF LeftFits, A
  <2>3. CASE m = n
    <3>1. h2[m].child[0] = d
      BY <1>14, <2>3
    <3>2. d # tail => d \notin {p, n, c}
      BY <1>2, <1>4, <1>10, <1>8, <2>1, <2>3 DEF gp
    <3> QED
      BY <1>2, <1>12, <1>14, <2>1, <2>3, <3>1, <3>2 DEF LeftFits, A
  <2>4. CASE m = gp /\ g = 0
    BY <1>2, <1>12, <1>14, <1>4, <1>8, <1>15, <2>1, <2>4 DEF LeftFits, A
  <2>5. CASE m = gp /\ g = 1
    <3>1. h2[m].child[0] = d
      BY <1>2, <1>14, <2>5
    <3>2. d # tail => d \notin {p, n, c}
      <4>1. d # tail => h[d].up = gp /\ h[d].idx # g
        BY <1>8, <2>1, <2>5
      <4> QED
        BY <1>2, <1>4, <1>10, <1>9, <4>1
    <3> QED
      BY <1>2, <1>12, <1>14, <2>1, <2>5, <3>1, <3>2 DEF LeftFits, A
  <2>6. CASE m \notin {p, n, gp}
    <3>1. h2[m].child[0] = d
      BY <1>14, <2>6
    <3>2. d # tail => d \notin {p, n, c}
      BY <1>2, <1>4, <1>10, <2>1, <2>6 DEF gp
    <3> QED
      BY <1>2, <1>12, <1>14, <2>1, <2>6, <3>1, <3>2 DEF LeftFits, A
  <2> QED
    BY <1>8, <2>2, <2>3, <2>4, <2>5, <2>6
<1>18. ASSUME NEW m \in A PROVE RightFits(h2, v2, m)
  <2> DEFINE d == h[m].child[1]
  <2>1. IF d = tail THEN v.hi[m] = v.at[m]
        ELSE /\ d \in A /\ h[d].up = m /\ h[d].idx = 1
             /\ v.own[d] = v.own[m] /\ v.lo[d] = v.at[m] + 1 /\ v.hi[d] = v.hi[m]
    BY <1>3 DEF RightFits, A
  <2>2. CASE m = n
    BY <1>2, <1>12, <1>14, <1>4, <1>10, <1>11, <1>15, <2>1, <2>2 DEF RightFits, A
  <2>3. CASE m = p
    <3>1. h2[m].child[1] = d
      BY <1>14, <2>3
    <3>2. d # tail => d \notin {p, n, c}
      BY <1>2, <1>4, <1>10, <1>8, <2>1, <2>3 DEF gp
    <3> QED
      BY <1>2, <1>12, <1>14, <2>1, <2>3, <3>1, <3>2 DEF RightFits, A
  <2>4. CASE m = gp /\ g = 1
    BY <1>2, <1>12, <1>14, <1>4, <1>8, <1>15, <2>1, <2>4 DEF RightFits, A
  <2>5. CASE m = gp /\ g = 0
    <3>1. h2[m].child[1] = d
      BY <1>2, <1>14, <2>5
    <3>2. d # tail => d \notin {p, n, c}
      <4>1. d # tail => h[d].up = gp /\ h[d].idx # g
        BY <1>8, <2>1, <2>5
      <4> QED
        BY <1>2, <1>4, <1>10, <1>9, <4>1
    <3> QED
      BY <1>2, <1>12, <1>14, <2>1, <2>5, <3>1, <3>2 DEF RightFits, A
  <2>6. CASE m \notin {p, n, gp}
    <3>1. h2[m].child[1] = d
      BY <1>14, <2>6
    <3>2. d # tail => d \notin {p, n, c}
      BY <1>2, <1>4, <1>10, <2>1, <2>6 DEF gp
    <3> QED
      BY <1>2, <1>12, <1>14, <2>1, <2>6, <3>1, <3>2 DEF RightFits, A
  <2> QED
    BY <1>8, <2>2, <2>3, <2>4, <2>5, <2>6
<1>19. \A m \in A : /\ v.own[m] \in Trees /\ v.top[v.own[m]] \in A
                    /\ v.hi[m] <= v.hi[v.top[v.own[m]]]
                    /\ 1 <= v.lo[m] /\ v.lo[m] <= v.at[m] /\ v.at[m] <= v.hi[m]
                    /\ h[m].up = head => h[m].idx = 0 /\ v.top[v.own[m]] = m
                    /\ h[m].up # head => h[m].up \in A /\ h[h[m].up].child[h[m].idx] = m
  BY <1>3 DEF SpanFits, UpFits, A
<1>20. \A t \in Trees : v.top[t] \notin {tail, NoTree} =>
         v.top[t] \in A /\ v.own[v.top[t]] = t /\ h[v.top[t]].up = head /\ v.lo[v.top[t]] = 1
  BY DEF Shape, TopFits, A
<1>21. ASSUME NEW m \in A PROVE UpFits(h2, v2, m)
  <2>1. CASE m = p
    BY <1>2, <1>14, <2>1 DEF UpFits, A
  <2>2. CASE m = n
    <3>1. h2[n].up = gp /\ h2[n].idx = g
      BY <1>14
    <3>2. gp = head => g = 0 /\ v2.top[v2.own[n]] = n
      BY <1>2, <1>12, <1>4, <1>8, <1>19
    <3>3. gp # head => gp \in Allocated(h2) /\ h2[gp].child[g] = n
      BY <1>2, <1>14 DEF A
    <3> QED
      BY <2>2, <3>1, <3>2, <3>3 DEF UpFits
  <2>3. CASE m = c
    BY <1>2, <1>14, <2>3 DEF UpFits, A
  <2>4. CASE m \notin {p, n, c} /\ h[m].up = head
    <3>1. h2[m].up = head /\ h2[m].idx = 0 /\ v.top[v.own[m]] = m /\ v.own[m] \in Trees
      BY <1>14, <1>19, <2>4
    <3>2. v2.top[v2.own[m]] = m
      BY <1>12, <1>8, <2>4, <3>1
    <3> QED
      BY <3>1, <3>2 DEF UpFits
  <2>5. CASE m \notin {p, n, c} /\ h[m].up # head
    <3> DEFINE q == h[m].up
               j == h[m].idx
    <3>1. q \in A /\ h[q].child[j] = m /\ j \in 0 .. 1 /\ h2[m].up = q /\ h2[m].idx = j /\ q # head
      BY <1>14, <1>16, <1>19, <2>5
    <3> HIDE DEF q, j
    <3>2. h2[q].child[j] = m
      <4>1. CASE q = p
        <5>1. j # 0
          BY <2>5, <3>1, <4>1 DEF n
        <5>2. j = 1
          BY <3>1, <5>1
        <5> QED
          BY <1>14, <3>1, <4>1, <5>2
      <4>2. CASE q = n
        <5>1. j # 1
          BY <2>5, <3>1, <4>2 DEF c
        <5>2. j = 0
          BY <3>1, <5>1
        <5> QED
          BY <1>14, <3>1, <4>2, <5>2
      <4>3. CASE q = gp
        <5>1. j # g
          BY <1>8, <2>5, <3>1, <4>3
        <5>2. j = 1 - g
          BY <1>8, <3>1, <5>1
        <5> QED
          BY <1>14, <3>1, <4>3, <5>2
      <4>4. CASE q \notin {p, n, gp}
        BY <1>14, <3>1, <4>4
      <4> QED
        BY <4>1, <4>2, <4>3, <4>4
    <3> QED
      BY <3>1, <3>2 DEF UpFits, A
  <2> QED
    BY <2>1, <2>2, <2>3, <2>4, <2>5
<1>22. ASSUME NEW t \in Trees
       PROVE  /\ v2.top[t] \in A <=> v.top[t] \in A
              /\ v.top[t] \in A => v2.hi[v2.top[t]] = v.hi[v.top[t]]
              /\ t # v.own[p] => v2.top[t] = v.top[t]
              /\ v2.top[t] = tail <=> v.top[t] = tail
              /\ v2.top[t] = NoTree <=> v.top[t] = NoTree
              /\ TopFits(h2, v2, t)
  <2>1. NoTree \notin A /\ NoTree # tail
    BY <1>2, MarksAssumption
  <2>2. CASE gp = head /\ t = v.own[p]
    <3>1. v2.top[t] = n /\ v.top[t] = p
      BY <1>12, <1>8, <2>2
    <3>2. v2.hi[n] = v.hi[p]
      BY <1>2, <1>12, <1>4
    <3>3. h2[n].up = head /\ v2.own[n] = t /\ v2.lo[n] = 1
      <4>1. v.lo[p] = 1
        BY <1>2, <1>20, <2>1, <3>1
      <4> QED
        BY <1>2, <1>12, <1>14, <1>4, <2>2, <4>1
    <3> QED
      BY <1>2, <2>1, <2>2, <3>1, <3>2, <3>3 DEF TopFits, A
  <2>3. CASE ~(gp = head /\ t = v.own[p])
    <3>1. v2.top[t] = v.top[t]
      BY <1>12, <2>3
    <3>2. CASE v.top[t] \in {tail, NoTree}
      BY <1>2, <2>1, <3>1, <3>2 DEF TopFits
    <3>3. CASE v.top[t] \notin {tail, NoTree}
      <4> DEFINE r == v.top[t]
      <4>1. r \in A /\ v.own[r] = t /\ h[r].up = head /\ v.lo[r] = 1
        BY <1>20, <3>3
      <4> HIDE DEF r
      <4>2. r # n /\ r # c /\ r # p
        <5>1. r # n
          BY <1>2, <1>4, <4>1
        <5>2. r # c
          BY <1>2, <1>10, <4>1
        <5>3. r # p
          BY <2>3, <4>1 DEF gp
        <5> QED
          BY <5>1, <5>2, <5>3
      <4>3. v2.lo[r] = 1 /\ v2.hi[r] = v.hi[r] /\ h2[r].up = head /\ v2.own[r] = t
        BY <1>12, <1>14, <4>1, <4>2
      <4> QED
        BY <3>1, <3>3, <4>1, <4>3 DEF TopFits, A, r
    <3> QED
      BY <3>2, <3>3
  <2> QED
    BY <2>2, <2>3
<1>23. ASSUME NEW m \in A PROVE SpanFits(h2, v2, m)
  <2> DEFINE t == v.own[m]
  <2>1. t \in Trees /\ v.top[t] \in A /\ v.hi[m] <= v.hi[v.top[t]]
    BY <1>19
  <2>2. v2.own[m] = t /\ v2.top[t] \in A /\ v2.hi[v2.top[t]] = v.hi[v.top[t]]
    BY <1>12, <1>22, <2>1
  <2>3. v2.hi[m] <= v.hi[v.top[t]]
    <3>1. v.own[n] = v.own[p] /\ v.hi[p] <= v.hi[v.top[v.own[p]]]
      BY <1>2, <1>4, <1>19
    <3>2. CASE m = p \/ m = n
      <4>1. v2.hi[m] <= v.hi[p] /\ t = v.own[p]
        BY <1>2, <1>12, <1>4, <1>15, <1>19, <3>1, <3>2
      <4>2. v2.hi[m] \in Int /\ v.hi[p] \in Int /\ v.hi[v.top[t]] \in Int
        BY <1>2, <1>12, <1>15, <2>1
      <4> HIDE DEF t
      <4> QED
        BY <3>1, <4>1, <4>2
    <3>3. CASE m # p /\ m # n
      BY <1>12, <2>1, <3>3
    <3> QED
      BY <3>2, <3>3
  <2>4. /\ v2.lo[m] \in Nat /\ v2.at[m] \in Nat /\ v2.hi[m] \in Nat
        /\ 1 <= v2.lo[m] /\ v2.lo[m] <= v2.at[m] /\ v2.at[m] <= v2.hi[m]
    BY <1>2, <1>12, <1>4, <1>15, <1>19
  <2> QED
    BY <2>1, <2>2, <2>3, <2>4 DEF SpanFits, A
<1>24. Apart(h2, v2)
  BY <1>12 DEF Shape, Apart
<1>25. Shape(h2, v2)
  BY <1>17, <1>18, <1>21, <1>22, <1>23, <1>24 DEF Shape, A
<1>26. \A t \in Trees : Extent(v2, t) = Extent(v, t)
  <2> SUFFICES ASSUME NEW t \in Trees PROVE Extent(v2, t) = Extent(v, t)
    OBVIOUS
  <2>1. v.top[t] \in {tail, NoTree} <=> v2.top[t] \in {tail, NoTree}
    BY <1>22
  <2>2. v.top[t] \notin {tail, NoTree} => v2.hi[v2.top[t]] = v.hi[v.top[t]]
    BY <1>20, <1>22
  <2> QED
    BY <2>1, <2>2 DEF Extent
<1>27. SameTrees(v, v2, v.own[p])
  BY <1>12, <1>22, <1>26 DEF SameTrees
<1> QED
  BY <1>25, <1>27 DEF v2, gp, n

(* So does a rotation that brings the right child up. *)
LEMMA TurnsRight ==
  ASSUME NEW h, IsHeap(h), NEW v, Shape(h, v), NEW p \in Allocated(h), h[p].child[1] # tail,
         NEW h2, IsHeap(h2), Allocated(h2) = Allocated(h),
         RotatedLinks(h, h2, h[p].up, p, h[p].child[1], h[h[p].child[1]].child[0], 1)
  PROVE  LET v2 == Turned(v, h[p].up, p, h[p].child[1], 1)
         IN  Shape(h2, v2) /\ SameTrees(v, v2, v.own[p])
<1> DEFINE n  == h[p].child[1]
           c  == h[n].child[0]
           gp == h[p].up
           g  == h[p].idx
           A  == Allocated(h)
           v2 == Turned(v, gp, p, n, 1)
<1>1. Rotatable(h, gp, p, n, c, 1)
  <2>1. 1 \in 0 .. 1
    OBVIOUS
  <2>2. Rotatable(h, gp, p, n, h[n].child[1 - 1], 1)
    BY <2>1, RotationFits
  <2> QED
    BY <2>2
<1>2. /\ p \in A /\ n \in A /\ gp \in A \cup {head} /\ c \in A \cup {tail} /\ A \subseteq Nodes
      /\ p # n /\ p # c /\ p # gp /\ n # c /\ n # gp /\ c # gp
      /\ head \notin A /\ tail \notin A
  <2>1. head \notin A /\ tail \notin A /\ A \subseteq Nodes
    BY HeapParts, Zenon
  <2> QED
    BY <1>1, <2>1 DEF Rotatable
<1>3. \A m \in A : LeftFits(h, v, m) /\ RightFits(h, v, m) /\ UpFits(h, v, m) /\ SpanFits(h, v, m)
  BY DEF Shape
<1>4. /\ h[n].up = p /\ h[n].idx = 1 /\ v.own[n] = v.own[p]
      /\ v.lo[n] = v.at[p] + 1 /\ v.hi[n] = v.hi[p] /\ v.at[p] < v.at[n]
  BY RightParts
<1>5. RotatedLinks(h, h2, gp, p, n, c, 1)
  OBVIOUS
<1>6. /\ gp # head => /\ h[gp].child[g] = p /\ v.own[gp] = v.own[p]
                      /\ g = 0 => v.lo[p] = v.lo[gp] /\ v.hi[p] = v.at[gp] - 1
                      /\ g = 1 => v.lo[p] = v.at[gp] + 1 /\ v.hi[p] = v.hi[gp]
  BY UpParts
<1>7. g \in 0 .. 1 /\ (gp = head => g = 0 /\ v.top[v.own[p]] = p)
  BY ShapeParts
<1>8. /\ g \in 0 .. 1
      /\ gp # head => /\ h[gp].child[g] = p /\ v.own[gp] = v.own[p]
                      /\ g = 0 => v.lo[p] = v.lo[gp] /\ v.hi[p] = v.at[gp] - 1
                      /\ g = 1 => v.lo[p] = v.at[gp] + 1 /\ v.hi[p] = v.hi[gp]
      /\ gp = head => g = 0 /\ v.top[v.own[p]] = p
  BY <1>6, <1>7
<1>9. h[p].up = gp /\ h[p].idx = g
  OBVIOUS
<1> HIDE DEF n
<1>10. c # tail => h[c].up = n /\ h[c].idx = 0 /\ v.own[c] = v.own[n] /\ v.lo[c] = v.lo[n] /\ v.hi[c] = v.at[n] - 1
  <2> SUFFICES ASSUME c # tail
               PROVE  /\ h[c].up = n /\ h[c].idx = 0 /\ v.own[c] = v.own[n]
                      /\ v.lo[c] = v.lo[n] /\ v.hi[c] = v.at[n] - 1
    OBVIOUS
  <2>1. n \in Allocated(h) /\ h[n].child[0] # tail
    BY <1>2
  <2> DEFINE d == h[n].child[0]
  <2>2. /\ h[d].up = n /\ h[d].idx = 0 /\ v.own[d] = v.own[n]
        /\ v.lo[d] = v.lo[n] /\ v.hi[d] = v.at[n] - 1
    BY <2>1, LeftParts
  <2> QED
    BY <2>2
<1>11. c = tail => v.lo[n] = v.at[n]
  BY <1>2, ShapeParts
<1> HIDE DEF c, gp, g, A, v2
<1>12. /\ v2.own = v.own /\ v2.at = v.at /\ v2.held = v.held
       /\ \A t \in Trees : v2.top[t] = IF gp = head /\ t = v.own[p] THEN n ELSE v.top[t]
       /\ \A m \in A : /\ v2.lo[m] = IF m = n THEN v.lo[p] ELSE v.lo[m]
                       /\ v2.hi[m] = IF m = p THEN v.at[n] - 1 ELSE v.hi[m]
  <2>1. v2.own = v.own /\ v2.at = v.at /\ v2.held = v.held
    BY DEF Turned, v2
  <2>2. \A t \in Trees : v2.top[t] = IF gp = head /\ t = v.own[p] THEN n ELSE v.top[t]
    BY DEF Turned, v2
  <2>3. \A m \in Nodes : v2.lo[m] = IF m = n THEN v.lo[p] ELSE v.lo[m]
    BY DEF Turned, v2
  <2>4. \A m \in Nodes : v2.hi[m] = IF m = p THEN v.at[n] - 1 ELSE v.hi[m]
    BY DEF Turned, v2
  <2> QED
    BY <1>2, <2>1, <2>2, <2>3, <2>4
<1>13. 1 - 0 = 1 /\ 1 - 1 = 0
  OBVIOUS
<1>14. /\ h2[p].up = n /\ h2[p].idx = 0 /\ h2[p].child[1] = c /\ h2[p].child[0] = h[p].child[0]
       /\ h2[n].up = gp /\ h2[n].idx = g /\ h2[n].child[0] = p /\ h2[n].child[1] = h[n].child[1]
       /\ c # tail => h2[c].up = p /\ h2[c].idx = 1
       /\ gp # head => h2[gp].child[g] = n /\ h2[gp].child[1 - g] = h[gp].child[1 - g]
       /\ \A m \in A \ {p, n, c} : h2[m].up = h[m].up /\ h2[m].idx = h[m].idx
       /\ \A m \in A \ {p, n, gp} : h2[m].child = h[m].child
  <2>1. /\ h2[p].up = n /\ h2[p].idx = 0 /\ h2[p].child[1] = c /\ h2[p].child[0] = h[p].child[0]
        /\ h2[n].up = gp /\ h2[n].idx = g /\ h2[n].child[0] = p /\ h2[n].child[1] = h[n].child[1]
        /\ c # tail => h2[c].up = p /\ h2[c].idx = 1 /\ h2[c].child = h[c].child
        /\ gp # head => /\ h2[gp].child[g] = n /\ h2[gp].child[1 - g] = h[gp].child[1 - g]
                        /\ h2[gp].up = h[gp].up /\ h2[gp].idx = h[gp].idx
    BY <1>5, <1>13 DEF RotatedLinks, g
  <2>2. \A m \in A \ {p, n, c, gp} :
          h2[m].up = h[m].up /\ h2[m].idx = h[m].idx /\ h2[m].child = h[m].child
    BY <1>5 DEF RotatedLinks, A
  <2>3. \A m \in A : m # head /\ m # tail
    BY <1>2
  <2> QED
    BY <2>1, <2>2, <2>3
<1>15. \A m \in A : v.lo[m] \in Nat /\ v.at[m] \in Nat /\ v.hi[m] \in Nat
  BY <1>3 DEF SpanFits
<1>16. \A m \in A : h[m].idx \in 0 .. 1
  BY HeapParts DEF A
<1>17. ASSUME NEW m \in A PROVE LeftFits(h2, v2, m)
  <2> DEFINE d == h[m].child[0]
  <2>1. IF d = tail THEN v.lo[m] = v.at[m]
        ELSE /\ d \in A /\ h[d].up = m /\ h[d].idx = 0
             /\ v.own[d] = v.own[m] /\ v.lo[d] = v.lo[m] /\ v.hi[d] = v.at[m] - 1
    BY <1>3 DEF LeftFits, A
  <2>2. CASE m = n
    BY <1>2, <1>12, <1>14, <1>4, <1>10, <1>11, <1>15, <2>1, <2>2 DEF LeftFits, A
  <2>3. CASE m = p
    <3>1. h2[m].child[0] = d
      BY <1>14, <2>3
    <3>2. d # tail => d \notin {p, n, c}
      BY <1>2, <1>4, <1>10, <1>8, <2>1, <2>3 DEF gp
    <3> QED
      BY <1>2, <1>12, <1>14, <2>1, <2>3, <3>1, <3>2 DEF LeftFits, A
  <2>4. CASE m = gp /\ g = 0
    BY <1>2, <1>12, <1>14, <1>4, <1>8, <1>15, <2>1, <2>4 DEF LeftFits, A
  <2>5. CASE m = gp /\ g = 1
    <3>1. h2[m].child[0] = d
      BY <1>2, <1>14, <2>5
    <3>2. d # tail => d \notin {p, n, c}
      <4>1. d # tail => h[d].up = gp /\ h[d].idx # g
        BY <1>8, <2>1, <2>5
      <4> QED
        BY <1>2, <1>4, <1>10, <1>9, <4>1
    <3> QED
      BY <1>2, <1>12, <1>14, <2>1, <2>5, <3>1, <3>2 DEF LeftFits, A
  <2>6. CASE m \notin {p, n, gp}
    <3>1. h2[m].child[0] = d
      BY <1>14, <2>6
    <3>2. d # tail => d \notin {p, n, c}
      BY <1>2, <1>4, <1>10, <2>1, <2>6 DEF gp
    <3> QED
      BY <1>2, <1>12, <1>14, <2>1, <2>6, <3>1, <3>2 DEF LeftFits, A
  <2> QED
    BY <1>8, <2>2, <2>3, <2>4, <2>5, <2>6
<1>18. ASSUME NEW m \in A PROVE RightFits(h2, v2, m)
  <2> DEFINE d == h[m].child[1]
  <2>1. IF d = tail THEN v.hi[m] = v.at[m]
        ELSE /\ d \in A /\ h[d].up = m /\ h[d].idx = 1
             /\ v.own[d] = v.own[m] /\ v.lo[d] = v.at[m] + 1 /\ v.hi[d] = v.hi[m]
    BY <1>3 DEF RightFits, A
  <2>2. CASE m = p
    BY <1>2, <1>12, <1>14, <1>4, <1>10, <1>11, <1>15, <2>1, <2>2 DEF RightFits, A
  <2>3. CASE m = n
    <3>1. h2[m].child[1] = d
      BY <1>14, <2>3
    <3>2. d # tail => d \notin {p, n, c}
      BY <1>2, <1>4, <1>10, <1>8, <2>1, <2>3 DEF gp
    <3> QED
      BY <1>2, <1>12, <1>14, <2>1, <2>3, <3>1, <3>2 DEF RightFits, A
  <2>4. CASE m = gp /\ g = 1
    BY <1>2, <1>12, <1>14, <1>4, <1>8, <1>15, <2>1, <2>4 DEF RightFits, A
  <2>5. CASE m = gp /\ g = 0
    <3>1. h2[m].child[1] = d
      BY <1>2, <1>14, <2>5
    <3>2. d # tail => d \notin {p, n, c}
      <4>1. d # tail => h[d].up = gp /\ h[d].idx # g
        BY <1>8, <2>1, <2>5
      <4> QED
        BY <1>2, <1>4, <1>10, <1>9, <4>1
    <3> QED
      BY <1>2, <1>12, <1>14, <2>1, <2>5, <3>1, <3>2 DEF RightFits, A
  <2>6. CASE m \notin {p, n, gp}
    <3>1. h2[m].child[1] = d
      BY <1>14, <2>6
    <3>2. d # tail => d \notin {p, n, c}
      BY <1>2, <1>4, <1>10, <2>1, <2>6 DEF gp
    <3> QED
      BY <1>2, <1>12, <1>14, <2>1, <2>6, <3>1, <3>2 DEF RightFits, A
  <2> QED
    BY <1>8, <2>2, <2>3, <2>4, <2>5, <2>6
<1>19. \A m \in A : /\ v.own[m] \in Trees /\ v.top[v.own[m]] \in A
                    /\ v.hi[m] <= v.hi[v.top[v.own[m]]]
                    /\ 1 <= v.lo[m] /\ v.lo[m] <= v.at[m] /\ v.at[m] <= v.hi[m]
                    /\ h[m].up = head => h[m].idx = 0 /\ v.top[v.own[m]] = m
                    /\ h[m].up # head => h[m].up \in A /\ h[h[m].up].child[h[m].idx] = m
  BY <1>3 DEF SpanFits, UpFits, A
<1>20. \A t \in Trees : v.top[t] \notin {tail, NoTree} =>
         v.top[t] \in A /\ v.own[v.top[t]] = t /\ h[v.top[t]].up = head /\ v.lo[v.top[t]] = 1
  BY DEF Shape, TopFits, A
<1>21. ASSUME NEW m \in A PROVE UpFits(h2, v2, m)
  <2>1. CASE m = p
    BY <1>2, <1>14, <2>1 DEF UpFits, A
  <2>2. CASE m = n
    <3>1. h2[n].up = gp /\ h2[n].idx = g
      BY <1>14
    <3>2. gp = head => g = 0 /\ v2.top[v2.own[n]] = n
      BY <1>2, <1>12, <1>4, <1>8, <1>19
    <3>3. gp # head => gp \in Allocated(h2) /\ h2[gp].child[g] = n
      BY <1>2, <1>14 DEF A
    <3> QED
      BY <2>2, <3>1, <3>2, <3>3 DEF UpFits
  <2>3. CASE m = c
    BY <1>2, <1>14, <2>3 DEF UpFits, A
  <2>4. CASE m \notin {p, n, c} /\ h[m].up = head
    <3>1. h2[m].up = head /\ h2[m].idx = 0 /\ v.top[v.own[m]] = m /\ v.own[m] \in Trees
      BY <1>14, <1>19, <2>4
    <3>2. v2.top[v2.own[m]] = m
      BY <1>12, <1>8, <2>4, <3>1
    <3> QED
      BY <3>1, <3>2 DEF UpFits
  <2>5. CASE m \notin {p, n, c} /\ h[m].up # head
    <3> DEFINE q == h[m].up
               j == h[m].idx
    <3>1. q \in A /\ h[q].child[j] = m /\ j \in 0 .. 1 /\ h2[m].up = q /\ h2[m].idx = j /\ q # head
      BY <1>14, <1>16, <1>19, <2>5
    <3> HIDE DEF q, j
    <3>2. h2[q].child[j] = m
      <4>1. CASE q = p
        <5>1. j # 1
          BY <2>5, <3>1, <4>1 DEF n
        <5>2. j = 0
          BY <3>1, <5>1
        <5> QED
          BY <1>14, <3>1, <4>1, <5>2
      <4>2. CASE q = n
        <5>1. j # 0
          BY <2>5, <3>1, <4>2 DEF c
        <5>2. j = 1
          BY <3>1, <5>1
        <5> QED
          BY <1>14, <3>1, <4>2, <5>2
      <4>3. CASE q = gp
        <5>1. j # g
          BY <1>8, <2>5, <3>1, <4>3
        <5>2. j = 1 - g
          BY <1>8, <3>1, <5>1
        <5> QED
          BY <1>14, <3>1, <4>3, <5>2
      <4>4. CASE q \notin {p, n, gp}
        BY <1>14, <3>1, <4>4
      <4> QED
        BY <4>1, <4>2, <4>3, <4>4
    <3> QED
      BY <3>1, <3>2 DEF UpFits, A
  <2> QED
    BY <2>1, <2>2, <2>3, <2>4, <2>5
<1>22. ASSUME NEW t \in Trees
       PROVE  /\ v2.top[t] \in A <=> v.top[t] \in A
              /\ v.top[t] \in A => v2.hi[v2.top[t]] = v.hi[v.top[t]]
              /\ t # v.own[p] => v2.top[t] = v.top[t]
              /\ v2.top[t] = tail <=> v.top[t] = tail
              /\ v2.top[t] = NoTree <=> v.top[t] = NoTree
              /\ TopFits(h2, v2, t)
  <2>1. NoTree \notin A /\ NoTree # tail
    BY <1>2, MarksAssumption
  <2>2. CASE gp = head /\ t = v.own[p]
    <3>1. v2.top[t] = n /\ v.top[t] = p
      BY <1>12, <1>8, <2>2
    <3>2. v2.hi[n] = v.hi[p]
      BY <1>2, <1>12, <1>4
    <3>3. h2[n].up = head /\ v2.own[n] = t /\ v2.lo[n] = 1
      <4>1. v.lo[p] = 1
        BY <1>2, <1>20, <2>1, <3>1
      <4> QED
        BY <1>2, <1>12, <1>14, <1>4, <2>2, <4>1
    <3> QED
      BY <1>2, <2>1, <2>2, <3>1, <3>2, <3>3 DEF TopFits, A
  <2>3. CASE ~(gp = head /\ t = v.own[p])
    <3>1. v2.top[t] = v.top[t]
      BY <1>12, <2>3
    <3>2. CASE v.top[t] \in {tail, NoTree}
      BY <1>2, <2>1, <3>1, <3>2 DEF TopFits
    <3>3. CASE v.top[t] \notin {tail, NoTree}
      <4> DEFINE r == v.top[t]
      <4>1. r \in A /\ v.own[r] = t /\ h[r].up = head /\ v.lo[r] = 1
        BY <1>20, <3>3
      <4> HIDE DEF r
      <4>2. r # n /\ r # c /\ r # p
        <5>1. r # n
          BY <1>2, <1>4, <4>1
        <5>2. r # c
          BY <1>2, <1>10, <4>1
        <5>3. r # p
          BY <2>3, <4>1 DEF gp
        <5> QED
          BY <5>1, <5>2, <5>3
      <4>3. v2.lo[r] = 1 /\ v2.hi[r] = v.hi[r] /\ h2[r].up = head /\ v2.own[r] = t
        BY <1>12, <1>14, <4>1, <4>2
      <4> QED
        BY <3>1, <3>3, <4>1, <4>3 DEF TopFits, A, r
    <3> QED
      BY <3>2, <3>3
  <2> QED
    BY <2>2, <2>3
<1>23. ASSUME NEW m \in A PROVE SpanFits(h2, v2, m)
  <2> DEFINE t == v.own[m]
  <2>1. t \in Trees /\ v.top[t] \in A /\ v.hi[m] <= v.hi[v.top[t]]
    BY <1>19
  <2>2. v2.own[m] = t /\ v2.top[t] \in A /\ v2.hi[v2.top[t]] = v.hi[v.top[t]]
    BY <1>12, <1>22, <2>1
  <2>3. v2.hi[m] <= v.hi[v.top[t]]
    <3>1. v.own[n] = v.own[p] /\ v.hi[p] <= v.hi[v.top[v.own[p]]]
      BY <1>2, <1>4, <1>19
    <3>2. CASE m = p \/ m = n
      <4>1. v2.hi[m] <= v.hi[p] /\ t = v.own[p]
        BY <1>2, <1>12, <1>4, <1>15, <1>19, <3>1, <3>2
      <4>2. v2.hi[m] \in Int /\ v.hi[p] \in Int /\ v.hi[v.top[t]] \in Int
        BY <1>2, <1>12, <1>15, <2>1
      <4> HIDE DEF t
      <4> QED
        BY <3>1, <4>1, <4>2
    <3>3. CASE m # p /\ m # n
      BY <1>12, <2>1, <3>3
    <3> QED
      BY <3>2, <3>3
  <2>4. /\ v2.lo[m] \in Nat /\ v2.at[m] \in Nat /\ v2.hi[m] \in Nat
        /\ 1 <= v2.lo[m] /\ v2.lo[m] <= v2.at[m] /\ v2.at[m] <= v2.hi[m]
    BY <1>2, <1>12, <1>4, <1>15, <1>19
  <2> QED
    BY <2>1, <2>2, <2>3, <2>4 DEF SpanFits, A
<1>24. Apart(h2, v2)
  BY <1>12 DEF Shape, Apart
<1>25. Shape(h2, v2)
  BY <1>17, <1>18, <1>21, <1>22, <1>23, <1>24 DEF Shape, A
<1>26. \A t \in Trees : Extent(v2, t) = Extent(v, t)
  <2> SUFFICES ASSUME NEW t \in Trees PROVE Extent(v2, t) = Extent(v, t)
    OBVIOUS
  <2>1. v.top[t] \in {tail, NoTree} <=> v2.top[t] \in {tail, NoTree}
    BY <1>22
  <2>2. v.top[t] \notin {tail, NoTree} => v2.hi[v2.top[t]] = v.hi[v.top[t]]
    BY <1>20, <1>22
  <2> QED
    BY <2>1, <2>2 DEF Extent
<1>27. SameTrees(v, v2, v.own[p])
  BY <1>12, <1>22, <1>26 DEF SameTrees
<1> QED
  BY <1>25, <1>27 DEF v2, gp, n

(* What a rotation does to a heap and to the view of it. *)
RotatesTo(h, h2, v, gp, p, n, c, i) ==
  /\ IsHeap(h2) /\ SameElements(h, h2) /\ SameColours(h, h2)
  /\ RotatedLinks(h, h2, gp, p, n, c, i)
  /\ \E v2 : Shape(h2, v2) /\ SameTrees(v, v2, v.own[p])

(* rotate, called with a node, its parent and its child, keeps the trees *)
(* and their elements.                                                   *)
LEMMA RotateShape ==
  ASSUME NEW h, IsHeap(h), NEW v, Shape(h, v), NEW p \in Allocated(h), NEW i \in 0 .. 1,
         h[p].child[i] # tail
  PROVE  LET n == h[p].child[i]
         IN  RotatesTo(h, rotate(h, h[p].up, p, n, i), v, h[p].up, p, n, h[n].child[1 - i], i)
<1> DEFINE n  == h[p].child[i]
           c  == h[n].child[1 - i]
           gp == h[p].up
           h2 == rotate(h, gp, p, n, i)
<1>1. Rotatable(h, gp, p, n, c, i)
  BY RotationFits
<1> HIDE DEF n, c, gp
<1>2. /\ IsHeap(h2) /\ SameElements(h, h2) /\ SameColours(h, h2)
      /\ RotatedLinks(h, h2, gp, p, n, c, i)
  BY <1>1, RotateLinks
<1> HIDE DEF h2
<1>3. Allocated(h2) = Allocated(h)
  BY <1>2 DEF SameElements
<1>4. \E v2 : Shape(h2, v2) /\ SameTrees(v, v2, v.own[p])
  <2>1. CASE i = 0
    <3>1. RotatedLinks(h, h2, h[p].up, p, h[p].child[0], h[h[p].child[0]].child[1], 0)
      <4>1. 1 - 0 = 1
        OBVIOUS
      <4> QED
        BY <1>2, <2>1, <4>1 DEF n, c, gp
    <3>2. h[p].child[0] # tail
      BY <2>1
    <3> DEFINE v2 == Turned(v, h[p].up, p, h[p].child[0], 0)
    <3>3. Shape(h2, v2) /\ SameTrees(v, v2, v.own[p])
      BY <1>2, <1>3, <3>1, <3>2, TurnsLeft
    <3> HIDE DEF v2
    <3> QED
      BY <3>3
  <2>2. CASE i = 1
    <3>1. RotatedLinks(h, h2, h[p].up, p, h[p].child[1], h[h[p].child[1]].child[0], 1)
      <4>1. 1 - 1 = 0
        OBVIOUS
      <4> QED
        BY <1>2, <2>2, <4>1 DEF n, c, gp
    <3>2. h[p].child[1] # tail
      BY <2>2
    <3> DEFINE v2 == Turned(v, h[p].up, p, h[p].child[1], 1)
    <3>3. Shape(h2, v2) /\ SameTrees(v, v2, v.own[p])
      BY <1>2, <1>3, <3>1, <3>2, TurnsRight
    <3> HIDE DEF v2
    <3> QED
      BY <3>3
  <2> QED
    BY <2>1, <2>2
<1> QED
  BY <1>2, <1>4 DEF RotatesTo, h2, n, c, gp

-----------------------------------------------------------------------------
(* Insertion. *)

(* x is a new leaf of h2, child i of p. *)
Grafted(h, h2, x, p, i) ==
  /\ x \in Nodes /\ x \notin Allocated(h) /\ Allocated(h2) = Allocated(h) \cup {x}
  /\ h2[x].up = p /\ h2[x].idx = i /\ h2[x].child[0] = tail /\ h2[x].child[1] = tail
  /\ h2[p].child[i] = x /\ h2[p].child[1 - i] = h[p].child[1 - i]
  /\ h2[p].up = h[p].up /\ h2[p].idx = h[p].idx
  /\ \A m \in Allocated(h) \ {p} :
       h2[m].up = h[m].up /\ h2[m].idx = h[m].idx /\ h2[m].child = h[m].child

(* The view with the new leaf. *)
Grown(v, x, p, i, e) ==
  LET o == v.own[p]
      q == v.at[p]
      Up1(m, b) == IF v.own[m] = o /\ b THEN 1 ELSE 0
  IN  [top |-> v.top,
       own |-> [m \in Nodes |-> IF m = x THEN o ELSE v.own[m]],
       at |-> [m \in Nodes |-> IF m = x THEN q + i ELSE v.at[m] + Up1(m, v.at[m] >= q + i)],
       lo |-> [m \in Nodes |-> IF m = x THEN q + i ELSE v.lo[m] + Up1(m, v.lo[m] > q)],
       hi |-> [m \in Nodes |-> IF m = x THEN q + i ELSE v.hi[m] + Up1(m, v.hi[m] >= q)],
       held |-> [t \in Trees |-> IF t = o THEN Abstract!InsertAt(v.held[t], q + i, e) ELSE v.held[t]]]

(* A new leaf below a node shifts the places behind it by one. *)
LEMMA GraftShape ==
  ASSUME NEW h, IsHeap(h), NEW v, Shape(h, v), NEW p \in Allocated(h), NEW i \in 0 .. 1,
         h[p].child[i] = tail, NEW h2, NEW x, Grafted(h, h2, x, p, i), NEW e
  PROVE  Shape(h2, Grown(v, x, p, i, e))
<1> DEFINE v2 == Grown(v, x, p, i, e)
           o  == v.own[p]
           q  == v.at[p]
           A  == Allocated(h)
<1>1. /\ A \subseteq Nodes /\ head \notin A /\ tail \notin A
  BY HeapParts
<1>2. /\ p \in A /\ x \in Nodes /\ x \notin A /\ Allocated(h2) = A \cup {x} /\ p # x /\ p # head
      /\ x # tail /\ x # head
  BY <1>1, SentinelsAssumption DEF Grafted
<1>3. i = 0 \/ i = 1
  OBVIOUS
<1>4. /\ h2[x].up = p /\ h2[x].idx = i /\ h2[x].child[0] = tail /\ h2[x].child[1] = tail
      /\ i = 0 => h2[p].child[0] = x /\ h2[p].child[1] = h[p].child[1]
      /\ i = 1 => h2[p].child[1] = x /\ h2[p].child[0] = h[p].child[0]
      /\ \A m \in A : h2[m].up = h[m].up /\ h2[m].idx = h[m].idx
      /\ \A m \in A \ {p} : h2[m].child = h[m].child
  <2>1. 1 - 0 = 1 /\ 1 - 1 = 0
    OBVIOUS
  <2> QED
    BY <1>3, <2>1 DEF Grafted
<1>5. \A m \in A : LeftFits(h, v, m) /\ RightFits(h, v, m) /\ UpFits(h, v, m) /\ SpanFits(h, v, m)
  BY DEF Shape
<1>6. i = 0 => v.lo[p] = q /\ h[p].child[0] = tail
  BY ShapeParts
<1>7. i = 1 => v.hi[p] = q /\ h[p].child[1] = tail
  BY ShapeParts
<1>8. \A m \in A : v.own[m] = o /\ v.at[m] = q => m = p
  BY DEF Shape, Apart
<1> HIDE DEF v2, A
<1>9. /\ v2.top = v.top
      /\ \A m \in A : v2.own[m] = v.own[m]
      /\ v2.own[x] = o /\ v2.at[x] = q + i /\ v2.lo[x] = q + i /\ v2.hi[x] = q + i
  BY <1>1, <1>2 DEF v2, Grown
<1>10. /\ \A m \in A : v2.at[m] = v.at[m] + (IF v.own[m] = o /\ v.at[m] >= q + i THEN 1 ELSE 0)
       /\ \A m \in A : v2.lo[m] = v.lo[m] + (IF v.own[m] = o /\ v.lo[m] > q THEN 1 ELSE 0)
       /\ \A m \in A : v2.hi[m] = v.hi[m] + (IF v.own[m] = o /\ v.hi[m] >= q THEN 1 ELSE 0)
  BY <1>1, <1>2 DEF v2, Grown
<1>11. \A m \in A : /\ v.lo[m] \in Nat /\ v.at[m] \in Nat /\ v.hi[m] \in Nat
                    /\ 1 <= v.lo[m] /\ v.lo[m] <= v.at[m] /\ v.at[m] <= v.hi[m]
                    /\ v.own[m] \in Trees /\ v.top[v.own[m]] \in A
                    /\ v.hi[m] <= v.hi[v.top[v.own[m]]]
  BY <1>5 DEF SpanFits, A
<1>12. q \in Nat /\ q >= 1 /\ o \in Trees
  BY <1>2, <1>11
<1> HIDE DEF o, q
<1>13. ASSUME NEW m \in A PROVE LeftFits(h2, v2, m)
  <2> DEFINE d == h[m].child[0]
  <2>1. IF d = tail THEN v.lo[m] = v.at[m]
        ELSE /\ d \in A /\ h[d].up = m /\ h[d].idx = 0
             /\ v.own[d] = v.own[m] /\ v.lo[d] = v.lo[m] /\ v.hi[d] = v.at[m] - 1
    BY <1>5 DEF LeftFits, A
  <2>2. CASE m = p /\ i = 0
    <3>1. h2[m].child[0] = x /\ x # tail
      BY <1>2, <1>4, <2>2
    <3>2. v2.own[x] = v2.own[m] /\ v2.lo[x] = v2.lo[m] /\ v2.hi[x] = v2.at[m] - 1
      BY <1>2, <1>6, <1>9, <1>10, <1>11, <1>12, <2>2 DEF o, q
    <3> QED
      BY <1>2, <1>4, <2>2, <3>1, <3>2 DEF LeftFits
  <2>3. CASE ~(m = p /\ i = 0)
    <3>1. h2[m].child[0] = d
      BY <1>3, <1>4, <2>3
    <3>2. CASE d = tail
      <4>1. v2.lo[m] = v2.at[m]
        BY <1>3, <1>8, <1>10, <1>11, <1>12, <2>1, <2>3, <3>2
      <4> QED
        BY <3>1, <3>2, <4>1 DEF LeftFits
    <3>3. CASE d # tail
      <4>1. h2[d].up = m /\ h2[d].idx = 0 /\ d \in A /\ v2.own[d] = v2.own[m] /\ d \in Allocated(h2)
        BY <1>2, <1>4, <1>9, <2>1, <3>3
      <4>2. v.own[m] = o /\ v.at[m] = q => i = 1
        BY <1>3, <1>8, <2>3
      <4>3. d \in A /\ v.own[d] = v.own[m] /\ v.lo[d] = v.lo[m] /\ v.hi[d] = v.at[m] - 1
        BY <2>1, <3>3
      <4> HIDE DEF d
      <4>4. v2.lo[d] = v2.lo[m] /\ v2.hi[d] = v2.at[m] - 1
        BY <1>3, <1>10, <1>11, <1>12, <4>2, <4>3
      <4> QED
        BY <3>1, <3>3, <4>1, <4>4 DEF LeftFits
    <3> QED
      BY <3>2, <3>3
  <2> QED
    BY <2>2, <2>3
<1>14. ASSUME NEW m \in A PROVE RightFits(h2, v2, m)
  <2> DEFINE d == h[m].child[1]
  <2>1. IF d = tail THEN v.hi[m] = v.at[m]
        ELSE /\ d \in A /\ h[d].up = m /\ h[d].idx = 1
             /\ v.own[d] = v.own[m] /\ v.lo[d] = v.at[m] + 1 /\ v.hi[d] = v.hi[m]
    BY <1>5 DEF RightFits, A
  <2>2. CASE m = p /\ i = 1
    <3>1. h2[m].child[1] = x /\ x # tail
      BY <1>2, <1>4, <2>2
    <3>2. v2.own[x] = v2.own[m] /\ v2.lo[x] = v2.at[m] + 1 /\ v2.hi[x] = v2.hi[m]
      BY <1>2, <1>7, <1>9, <1>10, <1>11, <1>12, <2>2 DEF o, q
    <3> QED
      BY <1>2, <1>4, <2>2, <3>1, <3>2 DEF RightFits
  <2>3. CASE ~(m = p /\ i = 1)
    <3>1. h2[m].child[1] = d
      BY <1>3, <1>4, <2>3
    <3>2. CASE d = tail
      <4>1. v2.hi[m] = v2.at[m]
        BY <1>3, <1>8, <1>10, <1>11, <1>12, <2>1, <2>3, <3>2
      <4> QED
        BY <3>1, <3>2, <4>1 DEF RightFits
    <3>3. CASE d # tail
      <4>1. h2[d].up = m /\ h2[d].idx = 1 /\ d \in A /\ v2.own[d] = v2.own[m] /\ d \in Allocated(h2)
        BY <1>2, <1>4, <1>9, <2>1, <3>3
      <4>2. v.own[m] = o /\ v.at[m] = q => i = 0
        BY <1>3, <1>8, <2>3
      <4>3. d \in A /\ v.own[d] = v.own[m] /\ v.lo[d] = v.at[m] + 1 /\ v.hi[d] = v.hi[m]
        BY <2>1, <3>3
      <4> HIDE DEF d
      <4>4. v2.lo[d] = v2.at[m] + 1 /\ v2.hi[d] = v2.hi[m]
        BY <1>3, <1>10, <1>11, <1>12, <4>2, <4>3
      <4> QED
        BY <3>1, <3>3, <4>1, <4>4 DEF RightFits
    <3> QED
      BY <3>2, <3>3
  <2> QED
    BY <2>2, <2>3
<1>15. \A m \in A : /\ h[m].up = head => h[m].idx = 0 /\ v.top[v.own[m]] = m
                    /\ h[m].up # head => h[m].up \in A /\ h[h[m].up].child[h[m].idx] = m
                    /\ h[m].idx \in 0 .. 1
  <2>1. \A m \in A : h[m].idx \in 0 .. 1
    BY HeapParts DEF A
  <2> QED
    BY <1>5, <2>1 DEF UpFits, A
<1>16. ASSUME NEW m \in A PROVE UpFits(h2, v2, m)
  <2>1. h2[m].up = h[m].up /\ h2[m].idx = h[m].idx /\ v2.own[m] = v.own[m] /\ v2.top = v.top
    BY <1>4, <1>9
  <2>2. CASE h[m].up = head
    BY <1>15, <2>1, <2>2 DEF UpFits
  <2>3. CASE h[m].up # head
    <3>1. h2[h[m].up].child[h[m].idx] = m
      <4>1. h[m].up \in A /\ h[h[m].up].child[h[m].idx] = m /\ m # tail
        BY <1>1, <1>15, <2>3
      <4>2. CASE h[m].up = p
        <5>1. h[m].idx # i
          BY <4>1, <4>2
        <5> QED
          BY <1>3, <1>4, <1>15, <4>1, <4>2, <5>1
      <4>3. CASE h[m].up # p
        BY <1>4, <4>1, <4>3
      <4> QED
        BY <4>2, <4>3
    <3> QED
      BY <1>2, <1>15, <2>1, <2>3, <3>1 DEF UpFits
  <2> QED
    BY <2>2, <2>3
<1>17. ASSUME NEW m \in A PROVE SpanFits(h2, v2, m)
  <2> DEFINE t == v.own[m]
             r == v.top[t]
  <2>1. t \in Trees /\ r \in A /\ v.hi[m] <= v.hi[r]
    BY <1>11
  <2>2. v.own[r] = t
    <3>1. r \notin {tail, NoTree}
      BY <1>1, <2>1, MarksAssumption DEF A
    <3> QED
      BY <2>1, <3>1 DEF Shape, TopFits
  <2>3. v2.own[m] = t /\ v2.top[t] = r /\ r \in Allocated(h2)
    BY <1>2, <1>9, <2>1
  <2>4. v.own[m] = t
    OBVIOUS
  <2> HIDE DEF t, r
  <2>5. v2.hi[m] <= v2.hi[r]
    BY <1>10, <1>11, <1>12, <2>1, <2>2, <2>4
  <2>6. /\ v2.lo[m] \in Nat /\ v2.at[m] \in Nat /\ v2.hi[m] \in Nat
        /\ 1 <= v2.lo[m] /\ v2.lo[m] <= v2.at[m] /\ v2.at[m] <= v2.hi[m]
    BY <1>3, <1>10, <1>11, <1>12
  <2> QED
    BY <2>1, <2>3, <2>5, <2>6 DEF SpanFits
<1>18. LeftFits(h2, v2, x) /\ RightFits(h2, v2, x) /\ UpFits(h2, v2, x)
  <2>1. LeftFits(h2, v2, x) /\ RightFits(h2, v2, x)
    BY <1>4, <1>9 DEF LeftFits, RightFits
  <2>2. h2[p].child[i] = x
    BY DEF Grafted
  <2> QED
    BY <1>2, <1>4, <2>1, <2>2 DEF UpFits
<1>19. SpanFits(h2, v2, x)
  <2> DEFINE r == v.top[o]
  <2>1. r \in A /\ v.hi[p] <= v.hi[r] /\ v.own[p] = o /\ v.at[p] = q
    BY <1>2, <1>11 DEF o, q
  <2>2. v.own[r] = o
    <3>1. r \notin {tail, NoTree}
      BY <1>1, <2>1, MarksAssumption DEF A
    <3> QED
      BY <1>12, <2>1, <3>1 DEF Shape, TopFits
  <2>3. v2.own[x] = o /\ v2.top[o] = r /\ r \in Allocated(h2)
    BY <1>2, <1>9, <2>1
  <2> HIDE DEF r
  <2>4. v2.hi[x] <= v2.hi[r]
    BY <1>3, <1>2, <1>9, <1>10, <1>11, <1>12, <2>1, <2>2
  <2>5. v2.lo[x] \in Nat /\ v2.at[x] = v2.lo[x] /\ v2.hi[x] = v2.lo[x] /\ 1 <= v2.lo[x]
    BY <1>3, <1>9, <1>12
  <2> QED
    BY <1>12, <2>3, <2>4, <2>5 DEF SpanFits
<1>20. ASSUME NEW t \in Trees PROVE TopFits(h2, v2, t)
  <2>1. TopFits(h, v, t)
    BY DEF Shape
  <2>2. CASE v.top[t] \in {tail, NoTree}
    BY <1>9, <2>2 DEF TopFits
  <2>3. CASE v.top[t] \notin {tail, NoTree}
    <3> DEFINE r == v.top[t]
    <3>1. r \in A /\ v.own[r] = t /\ h[r].up = head /\ v.lo[r] = 1
      BY <2>1, <2>3 DEF TopFits, A
    <3>2. v2.top[t] = r
      BY <1>9
    <3> HIDE DEF r
    <3>3. v2.lo[r] = 1
      BY <1>10, <1>12, <3>1
    <3> QED
      BY <1>2, <1>4, <1>9, <3>1, <3>2, <3>3 DEF TopFits
  <2> QED
    BY <2>2, <2>3
<1>21. Apart(h2, v2)
  <2>1. ASSUME NEW m \in A, NEW n \in A, v.own[m] = v.own[n], v2.at[m] = v2.at[n] PROVE m = n
    <3>1. v.at[m] = v.at[n]
      <4> DEFINE w == q + i
                 Later(y) == y + (IF v.own[n] = o /\ y >= w THEN 1 ELSE 0)
      <4>1. w \in Int /\ v.at[m] \in Int /\ v.at[n] \in Int
        BY <1>11, <1>12
      <4>2. v2.at[m] = Later(v.at[m]) /\ v2.at[n] = Later(v.at[n])
        BY <1>10, <2>1
      <4>3. \A y, z \in Int : Later(y) = Later(z) => y = z
        <5> HIDE DEF w
        <5> QED
          BY <4>1
      <4> HIDE DEF Later
      <4> QED
        BY <2>1, <4>1, <4>2, <4>3
    <3> QED
      BY <2>1, <3>1 DEF Shape, Apart, A
  <2>2. ASSUME NEW m \in A, v.own[m] = o PROVE v2.at[m] # v2.at[x]
    BY <1>3, <1>9, <1>10, <1>11, <1>12, <2>2
  <2> QED
    BY <1>2, <1>9, <2>1, <2>2 DEF Apart
<1> QED
  BY <1>2, <1>13, <1>14, <1>16, <1>17, <1>18, <1>19, <1>20, <1>21 DEF Shape, v2

-----------------------------------------------------------------------------
(* Removal. *)

(* Node x, which has at most one child, is gone from h2: c, that child or  *)
(* the tail, is in its place.                                              *)
Pruned(h, h2, x, c) ==
  /\ x \in Allocated(h) /\ Allocated(h2) = Allocated(h) \ {x}
  /\ \/ h[x].child[0] = tail /\ c = h[x].child[1]
     \/ h[x].child[1] = tail /\ c = h[x].child[0]
  /\ h[x].up # head => /\ h2[h[x].up].child[h[x].idx] = c
                       /\ h2[h[x].up].child[1 - h[x].idx] = h[h[x].up].child[1 - h[x].idx]
  /\ c # tail => h2[c].up = h[x].up /\ h2[c].idx = h[x].idx
  /\ \A m \in Allocated(h) \ {x, c} : h2[m].up = h[m].up /\ h2[m].idx = h[m].idx
  /\ \A m \in Allocated(h) \ {x, h[x].up} : h2[m].child = h[m].child

(* The view without the node. *)
Shrunk(v, x, c, atTop) ==
  LET o == v.own[x]
      q == v.at[x]
      Down1(m, b) == IF v.own[m] = o /\ b THEN 1 ELSE 0
  IN  [top |-> [t \in Trees |-> IF atTop /\ t = o THEN c ELSE v.top[t]],
       own |-> v.own,
       at |-> [m \in Nodes |-> v.at[m] - Down1(m, v.at[m] > q)],
       lo |-> [m \in Nodes |-> v.lo[m] - Down1(m, v.lo[m] > q)],
       hi |-> [m \in Nodes |-> v.hi[m] - Down1(m, v.hi[m] >= q)],
       held |-> [t \in Trees |-> IF t = o THEN Abstract!RemoveAt(v.held[t], q) ELSE v.held[t]]]

(* When a node with one child at most leaves, the places behind it move  *)
(* up by one.                                                            *)
LEMMA PruneShape ==
  ASSUME NEW h, IsHeap(h), NEW v, Shape(h, v), NEW h2, NEW x, NEW c, Pruned(h, h2, x, c)
  PROVE  Shape(h2, Shrunk(v, x, c, h[x].up = head))
<1> DEFINE v2 == Shrunk(v, x, c, h[x].up = head)
           o  == v.own[x]
           q  == v.at[x]
           P  == h[x].up
           g  == h[x].idx
           A  == Allocated(h)
<1>1. /\ A \subseteq Nodes /\ head \notin A /\ tail \notin A /\ head # tail
  BY HeapParts
<1>2. /\ x \in A /\ Allocated(h2) = A \ {x}
      /\ (h[x].child[0] = tail /\ c = h[x].child[1]) \/ (h[x].child[1] = tail /\ c = h[x].child[0])
      /\ \A m \in A \ {x, c} : h2[m].up = h[m].up /\ h2[m].idx = h[m].idx
      /\ \A m \in A \ {x, P} : h2[m].child = h[m].child
      /\ c # tail => h2[c].up = P /\ h2[c].idx = g
  BY DEF Pruned
<1>3. \A m \in A : LeftFits(h, v, m) /\ RightFits(h, v, m) /\ UpFits(h, v, m) /\ SpanFits(h, v, m)
  BY DEF Shape
<1>4. /\ h[x].child[0] = tail => v.lo[x] = q
      /\ h[x].child[1] = tail => v.hi[x] = q
  BY <1>2, ShapeParts
<1>5. g \in 0 .. 1 /\ (P = head => g = 0 /\ v.top[o] = x)
  BY <1>2, ShapeParts
<1>6. P # head => /\ P \in A /\ P # x /\ h[P].child[g] = x /\ v.own[P] = o
                  /\ g = 0 => v.lo[x] = v.lo[P] /\ v.hi[x] = v.at[P] - 1
                  /\ g = 1 => v.lo[x] = v.at[P] + 1 /\ v.hi[x] = v.hi[P]
  BY <1>2, UpParts
<1>7. P # head => /\ g = 0 => h2[P].child[0] = c /\ h2[P].child[1] = h[P].child[1]
                  /\ g = 1 => h2[P].child[1] = c /\ h2[P].child[0] = h[P].child[0]
  <2>1. P # head => h2[P].child[g] = c /\ h2[P].child[1 - g] = h[P].child[1 - g]
    BY DEF Pruned
  <2>2. 1 - 0 = 1 /\ 1 - 1 = 0
    OBVIOUS
  <2> QED
    BY <2>1, <2>2
<1>8. c # tail => /\ c \in A /\ h[c].up = x /\ v.own[c] = o
                  /\ c = h[x].child[0] => v.lo[c] = v.lo[x] /\ v.hi[c] = q - 1 /\ h[c].idx = 0
                  /\ c = h[x].child[1] => v.lo[c] = q + 1 /\ v.hi[c] = v.hi[x] /\ h[c].idx = 1
  <2> SUFFICES ASSUME c # tail
               PROVE  /\ c \in A /\ h[c].up = x /\ v.own[c] = o
                      /\ c = h[x].child[0] => v.lo[c] = v.lo[x] /\ v.hi[c] = q - 1 /\ h[c].idx = 0
                      /\ c = h[x].child[1] => v.lo[c] = q + 1 /\ v.hi[c] = v.hi[x] /\ h[c].idx = 1
    OBVIOUS
  <2>1. LeftFits(h, v, x) /\ RightFits(h, v, x)
    BY <1>2, <1>3
  <2>2. c = h[x].child[0] => /\ c \in A /\ h[c].up = x /\ v.own[c] = o
                             /\ v.lo[c] = v.lo[x] /\ v.hi[c] = q - 1 /\ h[c].idx = 0
    BY <2>1 DEF LeftFits
  <2>3. c = h[x].child[1] => /\ c \in A /\ h[c].up = x /\ v.own[c] = o
                             /\ v.lo[c] = q + 1 /\ v.hi[c] = v.hi[x] /\ h[c].idx = 1
    BY <2>1 DEF RightFits
  <2> QED
    BY <1>2, <2>2, <2>3
<1>9. \A m \in A : v.own[m] = o /\ v.at[m] = q => m = x
  BY <1>2 DEF Shape, Apart
<1>10. h[x].up = P /\ h[x].idx = g
  OBVIOUS
<1> HIDE DEF v2, A, P, g
<1>11. /\ v2.own = v.own
       /\ \A t \in Trees : v2.top[t] = IF P = head /\ t = o THEN c ELSE v.top[t]
       /\ \A m \in A : v2.at[m] = v.at[m] - (IF v.own[m] = o /\ v.at[m] > q THEN 1 ELSE 0)
       /\ \A m \in A : v2.lo[m] = v.lo[m] - (IF v.own[m] = o /\ v.lo[m] > q THEN 1 ELSE 0)
       /\ \A m \in A : v2.hi[m] = v.hi[m] - (IF v.own[m] = o /\ v.hi[m] >= q THEN 1 ELSE 0)
  <2>1. \A t \in Trees : v2.top[t] = IF P = head /\ t = o THEN c ELSE v.top[t]
    BY DEF v2, Shrunk, P
  <2>2. v2.own = v.own
    BY DEF v2, Shrunk
  <2>3. \A m \in A : v2.at[m] = v.at[m] - (IF v.own[m] = o /\ v.at[m] > q THEN 1 ELSE 0)
    BY <1>1 DEF v2, Shrunk
  <2>4. \A m \in A : v2.lo[m] = v.lo[m] - (IF v.own[m] = o /\ v.lo[m] > q THEN 1 ELSE 0)
    BY <1>1 DEF v2, Shrunk
  <2>5. \A m \in A : v2.hi[m] = v.hi[m] - (IF v.own[m] = o /\ v.hi[m] >= q THEN 1 ELSE 0)
    BY <1>1 DEF v2, Shrunk
  <2> QED
    BY <2>1, <2>2, <2>3, <2>4, <2>5
<1>12. \A m \in A : /\ v.lo[m] \in Nat /\ v.at[m] \in Nat /\ v.hi[m] \in Nat
                    /\ 1 <= v.lo[m] /\ v.lo[m] <= v.at[m] /\ v.at[m] <= v.hi[m]
                    /\ v.own[m] \in Trees /\ v.top[v.own[m]] \in A
                    /\ v.hi[m] <= v.hi[v.top[v.own[m]]]
  BY <1>3 DEF SpanFits, A
<1>13. /\ q \in Nat /\ q >= 1 /\ o \in Trees /\ v.own[x] = o /\ v.at[x] = q
       /\ v.lo[x] \in Nat /\ v.hi[x] \in Nat /\ v.lo[x] <= q /\ q <= v.hi[x]
       /\ v.top[o] \in A /\ v.hi[x] <= v.hi[v.top[o]]
  BY <1>2, <1>12
<1> HIDE DEF o, q

(* The child has the span that is left of the node's. *)
<1>14. c # tail => v2.lo[c] = v.lo[x] /\ v2.hi[c] = v.hi[x] - 1
  BY <1>2, <1>4, <1>8, <1>11, <1>12, <1>13
<1>15. c = tail => v.lo[x] = q /\ v.hi[x] = q
  BY <1>2, <1>4
<1>16. ASSUME NEW m \in A \ {x} PROVE LeftFits(h2, v2, m)
  <2> DEFINE d == h[m].child[0]
  <2>1. IF d = tail THEN v.lo[m] = v.at[m]
        ELSE /\ d \in A /\ h[d].up = m /\ h[d].idx = 0
             /\ v.own[d] = v.own[m] /\ v.lo[d] = v.lo[m] /\ v.hi[d] = v.at[m] - 1
    BY <1>3 DEF LeftFits, A
  <2>2. CASE m = P /\ g = 0
    <3>1. h2[m].child[0] = c /\ P # head
      BY <1>1, <1>7, <2>2
    <3>2. v2.lo[m] = v.lo[m] /\ v2.at[m] = v.at[m] - 1 /\ v.lo[m] = v.lo[x] /\ v.at[m] = v.hi[x] + 1
          /\ v.at[m] > q /\ v.own[m] = o /\ v.at[m] \in Nat /\ v2.own[m] = o
      BY <1>6, <1>11, <1>12, <1>13, <2>2, <3>1
    <3>3. CASE c = tail
      BY <1>13, <1>15, <3>1, <3>2, <3>3 DEF LeftFits
    <3>4. CASE c # tail
      <4>1. c \in Allocated(h2) /\ h2[c].up = m /\ h2[c].idx = 0 /\ v2.own[c] = v2.own[m]
        <5>1. c # x
          BY <1>1, <1>6, <1>8, <2>2, <3>1, <3>4, <1>10
        <5> QED
          BY <1>2, <1>8, <1>11, <2>2, <3>2, <3>4, <5>1
      <4>2. v2.lo[c] = v2.lo[m] /\ v2.hi[c] = v2.at[m] - 1
        BY <1>13, <1>14, <3>2, <3>4
      <4> QED
        BY <3>1, <3>4, <4>1, <4>2 DEF LeftFits
    <3> QED
      BY <3>3, <3>4
  <2>3. CASE ~(m = P /\ g = 0)
    <3>1. h2[m].child[0] = d
      <4>1. CASE m = P
        BY <1>1, <1>5, <1>7, <2>3, <4>1
      <4>2. CASE m # P
        BY <1>2, <4>2
      <4> QED
        BY <4>1, <4>2
    <3>2. CASE d = tail
      <4>1. v2.lo[m] = v2.at[m]
        BY <1>11, <2>1, <3>2
      <4> QED
        BY <3>1, <3>2, <4>1 DEF LeftFits
    <3>3. CASE d # tail
      <4>1. d # x /\ d # c
        <5>1. d # x
          BY <1>5, <2>1, <2>3, <3>3, <1>10
        <5>2. d # c
          BY <1>8, <2>1, <3>3
        <5> QED
          BY <5>1, <5>2
      <4>2. d \in Allocated(h2) /\ h2[d].up = m /\ h2[d].idx = 0 /\ v2.own[d] = v2.own[m]
        BY <1>2, <1>11, <2>1, <3>3, <4>1
      <4>3. d \in A /\ v.own[d] = v.own[m] /\ v.lo[d] = v.lo[m] /\ v.hi[d] = v.at[m] - 1
        BY <2>1, <3>3
      <4>4. v.own[m] = o => v.at[m] # q
        BY <1>9
      <4> HIDE DEF d
      <4>5. v2.lo[d] = v2.lo[m] /\ v2.hi[d] = v2.at[m] - 1
        BY <1>11, <1>12, <1>13, <4>3, <4>4
      <4> QED
        BY <3>1, <3>3, <4>2, <4>5 DEF LeftFits
    <3> QED
      BY <3>2, <3>3
  <2> QED
    BY <2>2, <2>3
<1>17. ASSUME NEW m \in A \ {x} PROVE RightFits(h2, v2, m)
  <2> DEFINE d == h[m].child[1]
  <2>1. IF d = tail THEN v.hi[m] = v.at[m]
        ELSE /\ d \in A /\ h[d].up = m /\ h[d].idx = 1
             /\ v.own[d] = v.own[m] /\ v.lo[d] = v.at[m] + 1 /\ v.hi[d] = v.hi[m]
    BY <1>3 DEF RightFits, A
  <2>2. v.own[m] = o => v.at[m] # q
    BY <1>9
  <2>3. CASE m = P /\ g = 1
    <3>1. h2[m].child[1] = c /\ P # head
      BY <1>1, <1>7, <2>3
    <3>2. v2.hi[m] = v.hi[m] - 1 /\ v2.at[m] = v.at[m] /\ v.hi[m] = v.hi[x] /\ v.lo[x] = v.at[m] + 1
          /\ v.at[m] < q /\ v.own[m] = o /\ v.at[m] \in Nat /\ v2.own[m] = o
      BY <1>6, <1>11, <1>12, <1>13, <2>3, <3>1
    <3>3. CASE c = tail
      BY <1>13, <1>15, <3>1, <3>2, <3>3 DEF RightFits
    <3>4. CASE c # tail
      <4>1. c \in Allocated(h2) /\ h2[c].up = m /\ h2[c].idx = 1 /\ v2.own[c] = v2.own[m]
        <5>1. c # x
          BY <1>1, <1>6, <1>8, <2>3, <3>1, <3>4, <1>10
        <5> QED
          BY <1>2, <1>8, <1>11, <2>3, <3>2, <3>4, <5>1
      <4>2. v2.lo[c] = v2.at[m] + 1 /\ v2.hi[c] = v2.hi[m]
        BY <1>13, <1>14, <3>2, <3>4
      <4> QED
        BY <3>1, <3>4, <4>1, <4>2 DEF RightFits
    <3> QED
      BY <3>3, <3>4
  <2>4. CASE ~(m = P /\ g = 1)
    <3>1. h2[m].child[1] = d
      <4>1. CASE m = P
        BY <1>1, <1>5, <1>7, <2>4, <4>1
      <4>2. CASE m # P
        BY <1>2, <4>2
      <4> QED
        BY <4>1, <4>2
    <3>2. CASE d = tail
      <4>1. v2.hi[m] = v2.at[m]
        <5>1. /\ v2.hi[m] = v.hi[m] - (IF v.own[m] = o /\ v.hi[m] >= q THEN 1 ELSE 0)
              /\ v2.at[m] = v.at[m] - (IF v.own[m] = o /\ v.at[m] > q THEN 1 ELSE 0)
              /\ v.hi[m] = v.at[m] /\ v.at[m] \in Nat
          BY <1>11, <1>12, <2>1, <3>2
        <5> HIDE DEF d
        <5>2. v.own[m] = o => (v.hi[m] >= q <=> v.at[m] > q)
          BY <1>13, <2>2, <5>1
        <5> QED
          BY <5>1, <5>2
      <4> QED
        BY <3>1, <3>2, <4>1 DEF RightFits
    <3>3. CASE d # tail
      <4>1. d # x /\ d # c
        <5>1. d # x
          BY <1>5, <2>1, <2>4, <3>3, <1>10
        <5>2. d # c
          BY <1>8, <2>1, <3>3
        <5> QED
          BY <5>1, <5>2
      <4>2. d \in Allocated(h2) /\ h2[d].up = m /\ h2[d].idx = 1 /\ v2.own[d] = v2.own[m]
        BY <1>2, <1>11, <2>1, <3>3, <4>1
      <4>3. d \in A /\ v.own[d] = v.own[m] /\ v.lo[d] = v.at[m] + 1 /\ v.hi[d] = v.hi[m]
        BY <2>1, <3>3
      <4> HIDE DEF d
      <4>4. v2.lo[d] = v2.at[m] + 1 /\ v2.hi[d] = v2.hi[m]
        BY <1>11, <1>12, <1>13, <2>2, <4>3
      <4> QED
        BY <3>1, <3>3, <4>2, <4>4 DEF RightFits
    <3> QED
      BY <3>2, <3>3
  <2> QED
    BY <2>3, <2>4
<1>18. \A m \in A : /\ h[m].up = head => h[m].idx = 0 /\ v.top[v.own[m]] = m
                    /\ h[m].up # head => h[m].up \in A /\ h[h[m].up].child[h[m].idx] = m
                    /\ h[m].idx \in 0 .. 1
  <2>1. \A m \in A : h[m].idx \in 0 .. 1
    BY HeapParts DEF A
  <2> QED
    BY <1>3, <2>1 DEF UpFits, A
<1>19. ASSUME NEW m \in A \ {x} PROVE UpFits(h2, v2, m)
  <2>1. CASE m = c
    <3>1. h2[m].up = P /\ h2[m].idx = g /\ v2.own[m] = o
      BY <1>1, <1>2, <1>8, <1>11, <2>1
    <3>2. CASE P = head
      BY <1>5, <1>11, <1>13, <2>1, <3>1, <3>2 DEF UpFits
    <3>3. CASE P # head
      BY <1>2, <1>5, <1>6, <1>7, <2>1, <3>1, <3>3 DEF UpFits
    <3> QED
      BY <3>2, <3>3
  <2>2. CASE m # c /\ h[m].up = head
    <3>1. h2[m].up = head /\ h2[m].idx = 0 /\ v.top[v.own[m]] = m /\ v.own[m] \in Trees
      BY <1>2, <1>12, <1>18, <2>2
    <3>2. v2.top[v2.own[m]] = m
      BY <1>5, <1>11, <3>1
    <3> QED
      BY <3>1, <3>2 DEF UpFits
  <2>3. CASE m # c /\ h[m].up # head
    <3> DEFINE r == h[m].up
               j == h[m].idx
    <3>1. r \in A /\ h[r].child[j] = m /\ j \in 0 .. 1 /\ h2[m].up = r /\ h2[m].idx = j /\ r # head
      BY <1>2, <1>18, <2>3
    <3> HIDE DEF r, j
    <3>2. r # x
      BY <1>1, <1>2, <2>3, <3>1
    <3>3. h2[r].child[j] = m
      <4>1. CASE r = P
        <5>1. j # g
          BY <1>6, <3>1, <4>1
        <5> QED
          BY <1>5, <1>7, <3>1, <4>1, <5>1
      <4>2. CASE r # P
        BY <1>2, <3>1, <3>2, <4>2
      <4> QED
        BY <4>1, <4>2
    <3> QED
      BY <1>2, <3>1, <3>2, <3>3 DEF UpFits
  <2> QED
    BY <2>1, <2>2, <2>3
<1>20. ASSUME NEW m \in A \ {x} PROVE SpanFits(h2, v2, m)
  <2> DEFINE t == v.own[m]
             r == v.top[t]
  <2>1. t \in Trees /\ r \in A /\ v.hi[m] <= v.hi[r] /\ v2.own[m] = t /\ v.own[m] = t
    BY <1>11, <1>12
  <2>2. v.own[r] = t /\ h[r].up = head
    <3>1. r \notin {tail, NoTree}
      BY <1>1, <2>1, MarksAssumption DEF A
    <3> QED
      BY <2>1, <3>1 DEF Shape, TopFits
  <2>3. v.own[m] = o => v.at[m] # q
    BY <1>9
  <2>4. /\ v2.lo[m] \in Nat /\ v2.at[m] \in Nat /\ v2.hi[m] \in Nat
        /\ 1 <= v2.lo[m] /\ v2.lo[m] <= v2.at[m] /\ v2.at[m] <= v2.hi[m]
    <3>1. /\ v2.at[m] = v.at[m] - (IF v.own[m] = o /\ v.at[m] > q THEN 1 ELSE 0)
          /\ v2.lo[m] = v.lo[m] - (IF v.own[m] = o /\ v.lo[m] > q THEN 1 ELSE 0)
          /\ v2.hi[m] = v.hi[m] - (IF v.own[m] = o /\ v.hi[m] >= q THEN 1 ELSE 0)
      BY <1>11
    <3>2. /\ v.lo[m] \in Nat /\ v.at[m] \in Nat /\ v.hi[m] \in Nat
          /\ 1 <= v.lo[m] /\ v.lo[m] <= v.at[m] /\ v.at[m] <= v.hi[m]
      BY <1>12
    <3> HIDE DEF t, r
    <3> QED
      BY <1>13, <2>3, <3>1, <3>2
  <2>5. v2.top[t] \in Allocated(h2) /\ v2.hi[m] <= v2.hi[v2.top[t]]
    <3>1. CASE P = head /\ t = o
      <4>1. v2.top[t] = c /\ r = x
        BY <1>5, <1>11, <2>1, <3>1
      <4>2. c # tail
        <5> SUFFICES ASSUME c = tail PROVE FALSE
          OBVIOUS
        <5>1. v.lo[x] = q /\ v.hi[x] = q /\ v.lo[x] = 1
          <6>1. v.lo[r] = 1
            <7>1. r \notin {tail, NoTree}
              BY <1>1, <2>1, MarksAssumption DEF A
            <7> QED
              BY <2>1, <7>1 DEF Shape, TopFits
          <6> QED
            BY <1>15, <4>1, <6>1
        <5>2. v.at[m] = q
          <6>1. v.hi[m] <= 1 /\ q = 1
            BY <2>1, <4>1, <5>1
          <6> QED
            BY <1>12, <6>1
        <5> QED
          BY <2>3, <2>1, <3>1, <5>2
      <4>3. c \in Allocated(h2)
        <5>1. c # x
          BY <1>1, <1>2, <1>8, <1>10, <3>1, <4>2
        <5> QED
          BY <1>2, <1>8, <4>2, <5>1
      <4>4. v2.hi[m] <= v.hi[x] - 1
        <5>1. v.hi[m] <= v.hi[x] /\ v.hi[m] \in Nat
              /\ v2.hi[m] = v.hi[m] - (IF v.hi[m] >= q THEN 1 ELSE 0)
          BY <1>11, <1>12, <2>1, <3>1, <4>1
        <5> HIDE DEF t, r
        <5> QED
          BY <1>13, <5>1
      <4> QED
        BY <1>14, <4>1, <4>2, <4>3, <4>4
    <3>2. CASE ~(P = head /\ t = o)
      <4>1. v2.top[t] = r
        BY <1>11, <2>1, <3>2
      <4>2. r # x
        BY <1>13, <1>10, <2>2, <3>2
      <4>3. v2.hi[m] <= v2.hi[r]
        <5>1. /\ v2.hi[m] = v.hi[m] - (IF t = o /\ v.hi[m] >= q THEN 1 ELSE 0)
              /\ v2.hi[r] = v.hi[r] - (IF t = o /\ v.hi[r] >= q THEN 1 ELSE 0)
              /\ v.hi[m] \in Nat /\ v.hi[r] \in Nat /\ v.hi[m] <= v.hi[r]
          BY <1>11, <1>12, <2>1, <2>2
        <5> HIDE DEF t, r
        <5> QED
          BY <1>13, <5>1
      <4> QED
        BY <1>2, <2>1, <4>1, <4>2, <4>3
    <3> QED
      BY <3>1, <3>2
  <2> QED
    BY <2>1, <2>4, <2>5 DEF SpanFits
<1>21. ASSUME NEW t \in Trees PROVE TopFits(h2, v2, t)
  <2> DEFINE r == v.top[t]
  <2>1. r \notin {tail, NoTree} => r \in A /\ v.own[r] = t /\ h[r].up = head /\ v.lo[r] = 1
    BY DEF Shape, TopFits, A
  <2>2. CASE P = head /\ t = o
    <3>1. v2.top[t] = c /\ r = x /\ v.lo[x] = 1
      <4>1. r = x
        BY <1>5, <2>2
      <4>2. r \notin {tail, NoTree}
        BY <1>1, <1>2, <4>1, MarksAssumption
      <4> QED
        BY <1>11, <2>1, <2>2, <4>1, <4>2
    <3>2. CASE c = tail
      BY <3>1, <3>2 DEF TopFits
    <3>3. CASE c # tail
      <4>1. c # x
        BY <1>1, <1>2, <1>8, <1>10, <2>2, <3>3
      <4>2. c \in Allocated(h2) /\ v2.own[c] = t /\ h2[c].up = head
        BY <1>2, <1>8, <1>11, <2>2, <3>3, <4>1
      <4> QED
        BY <1>14, <3>1, <3>3, <4>2 DEF TopFits
    <3> QED
      BY <3>2, <3>3
  <2>3. CASE ~(P = head /\ t = o)
    <3>1. v2.top[t] = r
      BY <1>11, <2>3
    <3>2. CASE r \in {tail, NoTree}
      BY <3>1, <3>2 DEF TopFits
    <3>3. CASE r \notin {tail, NoTree}
      <4>1. r # x /\ r # c
        <5>1. r # x
          BY <1>13, <1>10, <2>1, <2>3, <3>3
        <5>2. r # c
          BY <1>1, <1>2, <1>8, <2>1, <3>3
        <5> QED
          BY <5>1, <5>2
      <4>2. r \in Allocated(h2) /\ v2.own[r] = t /\ h2[r].up = head
        BY <1>2, <1>11, <2>1, <3>3, <4>1
      <4>3. v.lo[r] = 1 /\ r \in A
        BY <2>1, <3>3
      <4> HIDE DEF r
      <4>4. v2.lo[r] = 1
        BY <1>11, <1>13, <4>3
      <4> QED
        BY <3>1, <4>2, <4>4 DEF TopFits
    <3> QED
      BY <3>2, <3>3
  <2> QED
    BY <2>2, <2>3
<1>22. Apart(h2, v2)
  <2>1. ASSUME NEW m \in A \ {x}, NEW n \in A \ {x}, v.own[m] = v.own[n], v2.at[m] = v2.at[n] PROVE m = n
    <3>1. v.at[m] = v.at[n]
      <4> DEFINE Earlier(y) == y - (IF v.own[n] = o /\ y > q THEN 1 ELSE 0)
      <4>1. v.at[m] \in Int /\ v.at[n] \in Int /\ (v.own[n] = o => v.at[m] # q /\ v.at[n] # q)
        BY <1>9, <1>12, <2>1
      <4>2. v2.at[m] = Earlier(v.at[m]) /\ v2.at[n] = Earlier(v.at[n])
        BY <1>11, <2>1
      <4>3. \A y, z \in Int : Earlier(y) = Earlier(z) /\ (v.own[n] = o => y # q /\ z # q) => y = z
        BY <1>13
      <4> HIDE DEF Earlier
      <4> QED
        BY <2>1, <4>1, <4>2, <4>3
    <3> QED
      BY <2>1, <3>1 DEF Shape, Apart, A
  <2> QED
    BY <1>2, <1>11, <2>1 DEF Apart
<1> QED
  BY <1>2, <1>16, <1>17, <1>19, <1>20, <1>21, <1>22 DEF Shape, v2

-----------------------------------------------------------------------------
(* The order of a tree's nodes. *)

(* The places of F from a to b. *)
Stretch(F, a, b) == [i \in 1 .. b - a + 1 |-> F[a + i - 1]]

(* A sequence is what F has from a on. *)
Follows(s, S, F, a, k) ==
  s \in Seq(S) /\ Len(s) = k /\ DOMAIN s = 1 .. k /\ \A i \in 1 .. k : s[i] = F[a + i - 1]

(* A stretch has the length of its range. *)
LEMMA StretchParts ==
  ASSUME NEW S, NEW F \in [Nat -> S], NEW a \in Nat, NEW b \in Int, NEW k \in Nat, k = b - a + 1
  PROVE  Follows(Stretch(F, a, b), S, F, a, k)
<1> DEFINE s == Stretch(F, a, b)
<1>1. s = [i \in 1 .. k |-> F[a + i - 1]]
  BY DEF Stretch
<1>2. \A i \in 1 .. k : a + i - 1 \in Nat
  OBVIOUS
<1> HIDE DEF s
<1>3. s \in [1 .. k -> S]
  BY <1>1, <1>2
<1>4. s \in Seq(S) /\ Len(s) = k
  BY <1>3, SeqDef, LenProperties
<1> QED
  BY <1>1, <1>4 DEF s, Follows

(* Two stretches and what is between them are one stretch. *)
LEMMA StretchJoins ==
  ASSUME NEW S, NEW F \in [Nat -> S], NEW a \in Nat, NEW b \in Nat, NEW c \in Nat, a <= b, b <= c
  PROVE  Stretch(F, a, b - 1) \o <<F[b]>> \o Stretch(F, b + 1, c) = Stretch(F, a, c)
<1> DEFINE l == Stretch(F, a, b - 1)
           r == Stretch(F, b + 1, c)
           w == Stretch(F, a, c)
           one == <<F[b]>>
           lo == l \o one
           lor == lo \o r
<1>1. l \in Seq(S) /\ Len(l) = b - a /\ \A i \in 1 .. b - a : l[i] = F[a + i - 1]
  <2>1. b - 1 \in Int /\ b - a \in Nat /\ b - a = (b - 1) - a + 1
    OBVIOUS
  <2>2. Follows(l, S, F, a, b - a)
    BY <2>1, StretchParts, Zenon
  <2> QED
    BY <2>2 DEF Follows
<1>2. r \in Seq(S) /\ Len(r) = c - b /\ \A i \in 1 .. c - b : r[i] = F[b + i]
  <2>1. b + 1 \in Nat /\ c \in Int /\ c - b \in Nat /\ c - b = c - (b + 1) + 1
    OBVIOUS
  <2>2. Follows(r, S, F, b + 1, c - b)
    BY <2>1, StretchParts
  <2>3. \A i \in 1 .. c - b : (b + 1) + i - 1 = b + i
    OBVIOUS
  <2> HIDE DEF r
  <2> QED
    BY <2>2, <2>3 DEF Follows
<1>3. w \in Seq(S) /\ Len(w) = c - a + 1 /\ \A i \in 1 .. c - a + 1 : w[i] = F[a + i - 1]
  <2>1. c \in Int /\ c - a + 1 \in Nat
    OBVIOUS
  <2>2. Follows(w, S, F, a, c - a + 1)
    BY <2>1, StretchParts, Zenon
  <2> QED
    BY <2>2 DEF Follows
<1>4. one \in Seq(S) /\ Len(one) = 1 /\ one[1] = F[b]
  OBVIOUS
<1> HIDE DEF l, r, w, one
<1>5. /\ lo \in Seq(S) /\ Len(lo) = b - a + 1
      /\ \A i \in 1 .. b - a + 1 : lo[i] = IF i <= b - a THEN l[i] ELSE one[i - (b - a)]
  <2>1. /\ lo \in Seq(S) /\ Len(lo) = Len(l) + Len(one)
        /\ \A i \in 1 .. Len(l) + Len(one) : lo[i] = IF i <= Len(l) THEN l[i] ELSE one[i - Len(l)]
    BY <1>1, <1>4, ConcatProperties, Zenon
  <2> HIDE DEF lo
  <2> QED
    BY <1>1, <1>4, <2>1
<1> HIDE DEF lo
<1>6. /\ lor \in Seq(S) /\ Len(lor) = c - a + 1
      /\ \A i \in 1 .. c - a + 1 : lor[i] = IF i <= b - a + 1 THEN lo[i] ELSE r[i - (b - a + 1)]
  <2>1. Len(lo) + Len(r) = c - a + 1
    BY <1>2, <1>5
  <2>2. /\ lor \in Seq(S) /\ Len(lor) = Len(lo) + Len(r)
        /\ \A i \in 1 .. Len(lo) + Len(r) : lor[i] = IF i <= Len(lo) THEN lo[i] ELSE r[i - Len(lo)]
    BY <1>2, <1>5, ConcatProperties, Zenon
  <2> HIDE DEF lor
  <2> QED
    BY <1>5, <2>1, <2>2
<1> HIDE DEF lor
<1>7. ASSUME NEW i \in 1 .. c - a + 1 PROVE lor[i] = w[i]
  <2>1. CASE i <= b - a
    <3>1. i \in 1 .. b - a /\ i \in 1 .. b - a + 1 /\ i <= b - a + 1
      BY <2>1
    <3> QED
      BY <1>1, <1>3, <1>5, <1>6, <2>1, <3>1
  <2>2. CASE i = b - a + 1
    <3>1. i \in 1 .. b - a + 1 /\ i <= b - a + 1 /\ ~(i <= b - a) /\ i - (b - a) = 1 /\ a + i - 1 = b
      BY <2>2
    <3> QED
      BY <1>3, <1>4, <1>5, <1>6, <3>1, Zenon
  <2>3. CASE i > b - a + 1
    <3> DEFINE j == i - (b - a + 1)
    <3>1. j \in 1 .. c - b /\ ~(i <= b - a + 1) /\ a + i - 1 = b + j
      BY <2>3
    <3> HIDE DEF j
    <3>2. lor[i] = r[j]
      BY <1>6, <3>1 DEF j
    <3> QED
      BY <1>2, <1>3, <3>1, <3>2, Zenon
  <2> QED
    BY <2>1, <2>2, <2>3
<1>8. lor = w
  BY <1>3, <1>6, <1>7, SeqEqual
<1> QED
  BY <1>8 DEF lor, lo, one, l, r, w

(* How many nodes are below a place, itself included. *)
Rank(h, v) == [n \in Places(h) |-> IF n = tail THEN 0 ELSE v.hi[n] - v.lo[n] + 1]

(* A child has fewer nodes below it than its parent: what walks down     *)
(* child pointers ends.                                                  *)
LEMMA RankParts ==
  ASSUME NEW h, IsHeap(h), NEW v, Shape(h, v)
  PROVE  /\ Rank(h, v) \in [Places(h) -> Nat] /\ Rank(h, v)[tail] = 0
         /\ \A n \in Allocated(h) :
              /\ Rank(h, v)[n] = v.hi[n] - v.lo[n] + 1
              /\ \A i \in 0 .. 1 : /\ h[n].child[i] \in Places(h)
                                   /\ Rank(h, v)[h[n].child[i]] < Rank(h, v)[n]
<1> DEFINE rank == Rank(h, v)
<1>1. tail \notin Allocated(h)
  BY HeapParts
<1>2. \A n \in Allocated(h) : /\ v.lo[n] \in Nat /\ v.at[n] \in Nat /\ v.hi[n] \in Nat
                              /\ v.lo[n] <= v.at[n] /\ v.at[n] <= v.hi[n]
  BY DEF Shape, SpanFits
<1>3. rank[tail] = 0 /\ \A n \in Allocated(h) : rank[n] = v.hi[n] - v.lo[n] + 1
  BY <1>1 DEF Rank, Places
<1>4. rank \in [Places(h) -> Nat]
  <2>1. \A n \in Places(h) : (IF n = tail THEN 0 ELSE v.hi[n] - v.lo[n] + 1) \in Nat
    BY <1>2 DEF Places
  <2> QED
    BY <2>1 DEF Rank
<1> HIDE DEF rank
<1>5. ASSUME NEW n \in Allocated(h), NEW i \in 0 .. 1
      PROVE  h[n].child[i] \in Places(h) /\ rank[h[n].child[i]] < rank[n]
  <2> DEFINE c == h[n].child[i]
  <2>1. LeftFits(h, v, n) /\ RightFits(h, v, n)
    BY DEF Shape
  <2>2. c # tail => c \in Allocated(h) /\ v.hi[c] - v.lo[c] < v.hi[n] - v.lo[n]
    <3>1. CASE i = 0
      <4>1. c # tail => c \in Allocated(h) /\ v.lo[c] = v.lo[n] /\ v.hi[c] = v.at[n] - 1
        BY <2>1, <3>1 DEF LeftFits
      <4> HIDE DEF c
      <4> QED
        BY <1>2, <4>1
    <3>2. CASE i = 1
      <4>1. c # tail => c \in Allocated(h) /\ v.lo[c] = v.at[n] + 1 /\ v.hi[c] = v.hi[n]
        BY <2>1, <3>2 DEF RightFits
      <4> HIDE DEF c
      <4> QED
        BY <1>2, <4>1
    <3> QED
      BY <3>1, <3>2
  <2> HIDE DEF c
  <2>3. c \in Places(h) /\ rank[c] < rank[n]
    BY <1>2, <1>3, <2>2 DEF Places
  <2> QED
    BY <2>3 DEF c
<1> QED
  BY <1>3, <1>4, <1>5 DEF rank

(* There is a node at every place of a span. *)
LEMMA Covered ==
  ASSUME NEW h, IsHeap(h), NEW v, Shape(h, v), NEW x \in Allocated(h), NEW j \in v.lo[x] .. v.hi[x]
  PROVE  \E m \in Allocated(h) : v.own[m] = v.own[x] /\ v.at[m] = j
<1> DEFINE rank == Rank(h, v)
           Whole(y) == \A l \in v.lo[y] .. v.hi[y] :
                         \E m \in Allocated(h) : v.own[m] = v.own[y] /\ v.at[m] = l
           T == {k \in Nat : \A y \in Allocated(h) : rank[y] < k => Whole(y)}
<1>1. /\ \A y \in Allocated(h) : rank[y] \in Nat
      /\ \A y \in Allocated(h) : rank[h[y].child[0]] < rank[y] /\ rank[h[y].child[1]] < rank[y]
      /\ \A y \in Places(h) : rank[y] \in Nat
  <2>1. /\ rank \in [Places(h) -> Nat]
        /\ \A y \in Allocated(h) : \A i \in 0 .. 1 : rank[h[y].child[i]] < rank[y]
    BY RankParts
  <2>2. 0 \in 0 .. 1 /\ 1 \in 0 .. 1
    OBVIOUS
  <2> HIDE DEF rank
  <2> QED
    BY <2>1, <2>2 DEF Places
<1> HIDE DEF rank
<1>2. 0 \in T
  BY <1>1
<1>3. ASSUME NEW k \in Nat, k \in T PROVE k + 1 \in T
  <2>1. SUFFICES ASSUME NEW y \in Allocated(h), rank[y] < k + 1, NEW l \in v.lo[y] .. v.hi[y]
                 PROVE  \E m \in Allocated(h) : v.own[m] = v.own[y] /\ v.at[m] = l
    OBVIOUS
  <2>2. /\ v.lo[y] \in Nat /\ v.at[y] \in Nat /\ v.hi[y] \in Nat
        /\ LeftFits(h, v, y) /\ RightFits(h, v, y)
    BY DEF Shape, SpanFits
  <2>3. CASE l = v.at[y]
    BY <2>3
  <2>4. CASE l < v.at[y]
    <3> DEFINE c == h[y].child[0]
    <3>1. c \in Allocated(h) /\ v.own[c] = v.own[y] /\ l \in v.lo[c] .. v.hi[c]
      BY <2>2, <2>4 DEF LeftFits
    <3>2. rank[c] < k
      <4>1. rank[c] < rank[y] /\ rank[c] \in Nat /\ rank[y] \in Nat
        BY <1>1, <3>1
      <4> QED
        BY <2>1, <4>1
    <3> HIDE DEF c
    <3>3. Whole(c)
      BY <1>3, <3>1, <3>2
    <3> QED
      BY <3>1, <3>3
  <2>5. CASE l > v.at[y]
    <3> DEFINE c == h[y].child[1]
    <3>1. c \in Allocated(h) /\ v.own[c] = v.own[y] /\ l \in v.lo[c] .. v.hi[c]
      BY <2>2, <2>5 DEF RightFits
    <3>2. rank[c] < k
      <4>1. rank[c] < rank[y] /\ rank[c] \in Nat /\ rank[y] \in Nat
        BY <1>1, <3>1
      <4> QED
        BY <2>1, <4>1
    <3> HIDE DEF c
    <3>3. Whole(c)
      BY <1>3, <3>1, <3>2
    <3> QED
      BY <3>1, <3>3
  <2> QED
    BY <2>2, <2>3, <2>4, <2>5
<1>4. Nat \subseteq T
  <2> HIDE DEF T
  <2> QED
    BY <1>2, <1>3, NatSetInduction
<1>5. rank[x] + 1 \in T /\ rank[x] < rank[x] + 1
  <2>1. rank[x] + 1 \in Nat /\ rank[x] < rank[x] + 1
    BY <1>1
  <2> HIDE DEF T
  <2> QED
    BY <1>4, <2>1
<1> QED
  BY <1>5

(* The node of tree t at place j. *)
Nth(h, v, t) ==
  [j \in Nat |-> IF \E m \in Allocated(h) : v.own[m] = t /\ v.at[m] = j
                 THEN CHOOSE m \in Allocated(h) : v.own[m] = t /\ v.at[m] = j ELSE tail]

(* Nth finds the node at each place that has one. *)
LEMMA NthParts ==
  ASSUME NEW h, IsHeap(h), NEW v, Shape(h, v), NEW t
  PROVE  /\ Nth(h, v, t) \in [Nat -> Places(h)]
         /\ \A m \in Allocated(h) : v.own[m] = t => Nth(h, v, t)[v.at[m]] = m
         /\ \A j \in Nat : (\E m \in Allocated(h) : v.own[m] = t /\ v.at[m] = j) =>
              /\ Nth(h, v, t)[j] \in Allocated(h)
              /\ v.own[Nth(h, v, t)[j]] = t /\ v.at[Nth(h, v, t)[j]] = j
<1>1. \A j \in Nat : (\E m \in Allocated(h) : v.own[m] = t /\ v.at[m] = j) =>
        /\ Nth(h, v, t)[j] \in Allocated(h)
        /\ v.own[Nth(h, v, t)[j]] = t /\ v.at[Nth(h, v, t)[j]] = j
  BY DEF Nth
<1>2. Nth(h, v, t) \in [Nat -> Places(h)]
  BY DEF Nth, Places
<1>3. ASSUME NEW m \in Allocated(h), v.own[m] = t PROVE Nth(h, v, t)[v.at[m]] = m
  <2>1. v.at[m] \in Nat
    BY DEF Shape, SpanFits
  <2>2. /\ Nth(h, v, t)[v.at[m]] \in Allocated(h)
        /\ v.own[Nth(h, v, t)[v.at[m]]] = t /\ v.at[Nth(h, v, t)[v.at[m]]] = v.at[m]
    BY <1>1, <1>3, <2>1
  <2> QED
    BY <1>3, <2>2 DEF Shape, Apart
<1> QED
  BY <1>1, <1>2, <1>3

(* The nodes of a span in order. *)
Row(h, v, n) == IF n = tail THEN <<>> ELSE Stretch(Nth(h, v, v.own[n]), v.lo[n], v.hi[n])

(* The row of a node is that of its left child, the node, and that of    *)
(* its right child.                                                      *)
LEMMA RowJoins ==
  ASSUME NEW h, IsHeap(h), NEW v, Shape(h, v), NEW n \in Allocated(h)
  PROVE  Row(h, v, n) = Row(h, v, h[n].child[0]) \o <<n>> \o Row(h, v, h[n].child[1])
<1> DEFINE F == Nth(h, v, v.own[n])
           a == v.lo[n]
           b == v.at[n]
           c == v.hi[n]
           l == h[n].child[0]
           r == h[n].child[1]
<1>1. F \in [Nat -> Places(h)] /\ F[b] = n
  BY NthParts
<1>2. a \in Nat /\ b \in Nat /\ c \in Nat /\ a <= b /\ b <= c /\ LeftFits(h, v, n) /\ RightFits(h, v, n)
  BY DEF Shape, SpanFits
<1>3. n # tail
  <2>1. tail \notin Allocated(h)
    BY HeapParts
  <2> QED
    BY <2>1
<1>4. Row(h, v, l) = Stretch(F, a, b - 1)
  <2>1. CASE l = tail
    <3>1. a = b
      BY <1>2, <2>1 DEF LeftFits
    <3> HIDE DEF F, a, b, l
    <3>2. 1 .. (b - 1) - b + 1 = {}
      BY <1>2
    <3> QED
      BY <2>1, <3>1, <3>2 DEF Row, Stretch
  <2>2. CASE l # tail
    <3>1. v.own[l] = v.own[n] /\ v.lo[l] = a /\ v.hi[l] = b - 1
      BY <1>2, <2>2 DEF LeftFits
    <3> HIDE DEF a, b, l
    <3> QED
      BY <2>2, <3>1 DEF Row
  <2> QED
    BY <2>1, <2>2
<1>5. Row(h, v, r) = Stretch(F, b + 1, c)
  <2>1. CASE r = tail
    <3>1. c = b
      BY <1>2, <2>1 DEF RightFits
    <3> HIDE DEF F, c, b, r
    <3>2. 1 .. b - (b + 1) + 1 = {}
      BY <1>2
    <3> QED
      BY <2>1, <3>1, <3>2 DEF Row, Stretch
  <2>2. CASE r # tail
    <3>1. v.own[r] = v.own[n] /\ v.lo[r] = b + 1 /\ v.hi[r] = c
      BY <1>2, <2>2 DEF RightFits
    <3> HIDE DEF c, b, r
    <3> QED
      BY <2>2, <3>1 DEF Row
  <2> QED
    BY <2>1, <2>2
<1>6. Row(h, v, n) = Stretch(F, a, c)
  BY <1>3 DEF Row
<1> HIDE DEF F, a, b, c, l, r
<1>7. Stretch(F, a, b - 1) \o <<F[b]>> \o Stretch(F, b + 1, c) = Stretch(F, a, c)
  BY <1>1, <1>2, StretchJoins
<1> QED
  BY <1>1, <1>4, <1>5, <1>6, <1>7 DEF l, r

(* NodesInOrder, which recurs down the child pointers, is the row of the *)
(* span.                                                                 *)
LEMMA NodesInRow ==
  ASSUME NEW h, IsHeap(h), NEW v, Shape(h, v), NEW x \in Places(h)
  PROVE  NodesInOrder(h, x) = Row(h, v, x)
<1> DEFINE Body(f) == [n \in Places(h) |-> IF n = tail THEN <<>>
                                           ELSE f[h[n].child[0]] \o <<n>> \o f[h[n].child[1]]]
           row == [n \in Places(h) |-> Row(h, v, n)]
           below == CHOOSE f : f = Body(f)
           rank == Rank(h, v)
<1>1. /\ \A n \in Places(h) : rank[n] \in Nat
      /\ \A n \in Allocated(h) : /\ h[n].child[0] \in Places(h) /\ h[n].child[1] \in Places(h)
                                 /\ rank[h[n].child[0]] < rank[n] /\ rank[h[n].child[1]] < rank[n]
  BY RankParts
<1>2. Row(h, v, tail) = <<>>
  BY DEF Row
<1>3. row = Body(row)
  <2>1. SUFFICES ASSUME NEW n \in Places(h)
                 PROVE  row[n] = IF n = tail THEN <<>>
                                 ELSE row[h[n].child[0]] \o <<n>> \o row[h[n].child[1]]
    OBVIOUS
  <2>2. CASE n = tail
    BY <1>2, <2>2
  <2>3. CASE n # tail
    <3>1. n \in Allocated(h)
      BY <2>3 DEF Places
    <3>2. Row(h, v, n) = Row(h, v, h[n].child[0]) \o <<n>> \o Row(h, v, h[n].child[1])
      BY <3>1, RowJoins
    <3>3. row[n] = Row(h, v, n) /\ row[h[n].child[0]] = Row(h, v, h[n].child[0])
          /\ row[h[n].child[1]] = Row(h, v, h[n].child[1])
      BY <1>1, <3>1
    <3> HIDE DEF row
    <3> QED
      BY <2>3, <3>2, <3>3
  <2> QED
    BY <2>2, <2>3
<1>4. below = Body(below)
  <2> HIDE DEF row
  <2> QED
    BY <1>3
<1> HIDE DEF below
<1>5. \A n \in Places(h) : below[n] = IF n = tail THEN <<>>
                                      ELSE below[h[n].child[0]] \o <<n>> \o below[h[n].child[1]]
  BY <1>4
<1> DEFINE T == {k \in Nat : \A n \in Places(h) : rank[n] < k => below[n] = Row(h, v, n)}
<1> HIDE DEF rank, row, Body
<1>6. 0 \in T
  BY <1>1
<1>7. ASSUME NEW k \in Nat, k \in T PROVE k + 1 \in T
  <2>1. SUFFICES ASSUME NEW n \in Places(h), rank[n] < k + 1
                 PROVE  below[n] = Row(h, v, n)
    OBVIOUS
  <2>2. CASE n = tail
    BY <1>2, <1>5, <2>2
  <2>3. CASE n # tail
    <3>1. n \in Allocated(h)
      BY <2>3 DEF Places
    <3> DEFINE l == h[n].child[0]
               r == h[n].child[1]
    <3>2. l \in Places(h) /\ r \in Places(h) /\ rank[l] < rank[n] /\ rank[r] < rank[n]
      BY <1>1, <3>1
    <3>3. Row(h, v, n) = Row(h, v, l) \o <<n>> \o Row(h, v, r)
      BY <3>1, RowJoins
    <3>4. below[n] = below[l] \o <<n>> \o below[r]
      BY <1>5, <2>3
    <3> HIDE DEF l, r
    <3>5. rank[l] < k /\ rank[r] < k
      BY <1>1, <2>1, <3>2
    <3>6. below[l] = Row(h, v, l) /\ below[r] = Row(h, v, r)
      BY <1>7, <3>2, <3>5
    <3> QED
      BY <3>3, <3>4, <3>6
  <2> QED
    BY <2>2, <2>3
<1>8. Nat \subseteq T
  <2> HIDE DEF T
  <2> QED
    BY <1>6, <1>7, NatSetInduction
<1>9. below[x] = Row(h, v, x)
  <2>1. rank[x] + 1 \in Nat /\ rank[x] < rank[x] + 1
    BY <1>1
  <2>2. rank[x] + 1 \in T
    <3> HIDE DEF T
    <3> QED
      BY <1>8, <2>1
  <2> QED
    BY <2>1, <2>2
<1> QED
  BY <1>9 DEF NodesInOrder, below, Body

(* The elements of the nodes are those that the view says they are. *)
Contents(h, v) ==
  /\ \A n \in Allocated(h) : v.held[v.own[n]][v.at[n]] = <<h[n].key, h[n].val>>
  /\ \A t \in Trees : v.held[t] \in Seq(Keys \X Vals) /\ Len(v.held[t]) = Extent(v, t)

Good(h, v) == IsHeap(h) /\ Shape(h, v) /\ Contents(h, v)

(* A sequence has the nodes of a tree in order. *)
Lists(h, v, t, s) ==
  /\ Extent(v, t) \in Nat /\ Len(s) = Extent(v, t) /\ DOMAIN s = 1 .. Extent(v, t)
  /\ \A i \in 1 .. Extent(v, t) : s[i] \in Allocated(h) /\ v.own[s[i]] = t /\ v.at[s[i]] = i
  /\ \A m \in Allocated(h) :
       v.own[m] = t => v.at[m] \in 1 .. Extent(v, t) /\ s[v.at[m]] = m

(* The nodes below the top of a tree, in order, are the nodes that the   *)
(* view puts into the tree, each at its place.                           *)
LEMMA OrderedNodes ==
  ASSUME NEW h, IsHeap(h), NEW v, Shape(h, v), NEW t \in Trees, v.top[t] # NoTree
  PROVE  Lists(h, v, t, NodesInOrder(h, v.top[t]))
<1> DEFINE r == v.top[t]
           s == NodesInOrder(h, r)
           F == Nth(h, v, t)
           A == Allocated(h)
<1>1. \A m \in A : /\ v.lo[m] \in Nat /\ v.at[m] \in Nat /\ v.hi[m] \in Nat
                   /\ 1 <= v.lo[m] /\ v.lo[m] <= v.at[m] /\ v.at[m] <= v.hi[m]
                   /\ v.top[v.own[m]] \in A /\ v.hi[m] <= v.hi[v.top[v.own[m]]]
  BY DEF Shape, SpanFits
<1>2. tail \notin A
  BY HeapParts
<1>3. r # tail => r \in A /\ v.own[r] = t /\ v.lo[r] = 1
  BY DEF Shape, TopFits
<1>4. r \in Places(h)
  BY <1>3 DEF Places
<1>5. s = Row(h, v, r)
  BY <1>4, NodesInRow
<1>6. CASE r = tail
  <2>1. s = <<>> /\ Extent(v, t) = 0
    BY <1>5, <1>6 DEF Row, Extent
  <2>2. \A m \in A : v.own[m] # t
    BY <1>1, <1>2, <1>6
  <2>3. Len(s) = 0 /\ DOMAIN s = {} /\ 1 .. 0 = {}
    BY <2>1
  <2> HIDE DEF s
  <2>4. Lists(h, v, t, s)
    BY <2>1, <2>2, <2>3 DEF Lists
  <2> QED
    BY <2>4 DEF s
<1>7. CASE r # tail
  <2> DEFINE k == v.hi[r]
  <2>1. r \in A /\ v.own[r] = t /\ v.lo[r] = 1 /\ k \in Nat
    BY <1>1, <1>3, <1>7
  <2>2. Extent(v, t) = k
    BY <1>7 DEF Extent
  <2>3. s = Stretch(F, 1, k)
    BY <1>5, <1>7, <2>1 DEF Row
  <2>4. /\ F \in [Nat -> Places(h)]
        /\ \A m \in A : v.own[m] = t => F[v.at[m]] = m
        /\ \A j \in Nat : (\E m \in A : v.own[m] = t /\ v.at[m] = j) =>
             F[j] \in A /\ v.own[F[j]] = t /\ v.at[F[j]] = j
    BY NthParts
  <2>5. ASSUME NEW j \in 1 .. k PROVE F[j] \in A /\ v.own[F[j]] = t /\ v.at[F[j]] = j
    <3>1. j \in v.lo[r] .. v.hi[r] /\ j \in Nat
      BY <2>1
    <3>2. \E m \in A : v.own[m] = t /\ v.at[m] = j
      BY <2>1, <3>1, Covered
    <3> HIDE DEF F, A
    <3> QED
      BY <2>4, <3>1, <3>2
  <2>6. \A m \in A : v.own[m] = t => v.at[m] \in 1 .. k
    BY <1>1
  <2> HIDE DEF F, A, s, k
  <2>7. Follows(Stretch(F, 1, k), Places(h), F, 1, k)
    <3>1. 1 \in Nat /\ k \in Int /\ k = k - 1 + 1 /\ k \in Nat
      BY <2>1
    <3> QED
      BY <2>4, <3>1, StretchParts
  <2>8. Len(s) = k /\ DOMAIN s = 1 .. k /\ \A i \in 1 .. k : s[i] = F[i]
    <3>1. \A i \in 1 .. k : 1 + i - 1 = i
      OBVIOUS
    <3> QED
      BY <2>3, <2>7, <3>1 DEF Follows
  <2>9. Lists(h, v, t, s)
    BY <2>1, <2>2, <2>4, <2>5, <2>6, <2>8 DEF Lists, A
  <2> QED
    BY <2>9 DEF s
<1> QED
  BY <1>6, <1>7

(* The elements below the top of a tree, in order, are those that the    *)
(* view says it holds.                                                   *)
LEMMA InOrderHeld ==
  ASSUME NEW h, NEW v, Good(h, v), NEW t \in Trees, v.top[t] # NoTree
  PROVE  InOrder(h, v.top[t]) = v.held[t]
<1> DEFINE s == NodesInOrder(h, v.top[t])
           e == v.held[t]
<1>1. Lists(h, v, t, s)
  BY OrderedNodes DEF Good
<1>2. e \in Seq(Keys \X Vals) /\ Len(e) = Extent(v, t)
  BY DEF Good, Contents
<1>3. InOrder(h, v.top[t]) = [i \in DOMAIN s |-> <<h[s[i]].key, h[s[i]].val>>]
  BY DEF InOrder
<1> HIDE DEF s
<1>4. \A i \in DOMAIN s : e[i] = <<h[s[i]].key, h[s[i]].val>>
  <2>1. \A n \in Allocated(h) : v.held[v.own[n]][v.at[n]] = <<h[n].key, h[n].val>>
    BY DEF Good, Contents
  <2> QED
    BY <1>1, <2>1 DEF Lists
<1> HIDE DEF e
<1>5. e = [i \in DOMAIN s |-> e[i]]
  <2>1. DOMAIN e = DOMAIN s /\ e = [i \in DOMAIN e |-> e[i]]
    <3>1. DOMAIN e = 1 .. Len(e) /\ e \in [1 .. Len(e) -> Keys \X Vals]
      BY <1>2, LenProperties
    <3> QED
      BY <1>1, <1>2, <3>1 DEF Lists
  <2> QED
    BY <2>1
<1> QED
  BY <1>3, <1>4, <1>5 DEF e

-----------------------------------------------------------------------------
(* The searches. *)

(* The walk to the left or right ends at the first or last node of the   *)
(* span.                                                                 *)
LEMMA ExtremeParts ==
  ASSUME NEW h, IsHeap(h), NEW v, Shape(h, v), NEW x \in Allocated(h), NEW i \in 0 .. 1
  PROVE  LET e == Extreme(h, x, i)
         IN  /\ e \in Allocated(h) /\ v.own[e] = v.own[x] /\ h[e].child[i] = tail
             /\ i = 0 => v.at[e] = v.lo[x]
             /\ i = 1 => v.at[e] = v.hi[x]
<1> DEFINE stop == [n \in Places(h) |-> h[n].child[i] = tail]
           next == [n \in Places(h) |-> h[n].child[i]]
           S == {m \in Allocated(h) : /\ v.own[m] = v.own[x]
                                      /\ i = 0 => v.lo[m] = v.lo[x]
                                      /\ i = 1 => v.hi[m] = v.hi[x]}
           e == Follow(stop, next, x)
<1>1. tail \notin Allocated(h) /\ h[tail].child[0] = tail /\ h[tail].child[1] = tail
  BY HeapParts
<1>2. Descends(Places(h), stop, next, Rank(h, v))
  <2>1. \A n \in Allocated(h) : next[n] \in Places(h) /\ Rank(h, v)[next[n]] < Rank(h, v)[n]
    BY RankParts DEF Places
  <2>2. stop[tail]
    <3>1. i = 0 \/ i = 1
      OBVIOUS
    <3>2. h[tail].child[i] = tail
      BY <1>1, <3>1
    <3> QED
      BY <3>2 DEF Places
  <2>3. Rank(h, v) \in [Places(h) -> Nat]
    BY RankParts
  <2>4. DOMAIN next = Places(h)
    OBVIOUS
  <2>5. \A n \in Places(h) : n # tail => n \in Allocated(h)
    BY DEF Places
  <2> HIDE DEF stop, next
  <2> QED
    BY <2>1, <2>2, <2>3, <2>4, <2>5 DEF Descends
<1>3. \A m \in Allocated(h) : stop[m] = (h[m].child[i] = tail) /\ next[m] = h[m].child[i]
  BY DEF Places
<1>4. ASSUME NEW y \in S, ~stop[y] PROVE next[y] \in S
  <2> DEFINE c == h[y].child[i]
  <2>1. y \in Allocated(h) /\ LeftFits(h, v, y) /\ RightFits(h, v, y) /\ next[y] = c /\ c # tail
    BY <1>3, <1>4 DEF Shape
  <2>2. CASE i = 0
    <3>1. c \in Allocated(h) /\ v.own[c] = v.own[y] /\ v.lo[c] = v.lo[y]
      BY <2>1, <2>2 DEF LeftFits
    <3> HIDE DEF c
    <3> QED
      BY <2>1, <2>2, <3>1
  <2>3. CASE i = 1
    <3>1. c \in Allocated(h) /\ v.own[c] = v.own[y] /\ v.hi[c] = v.hi[y]
      BY <2>1, <2>3 DEF RightFits
    <3> HIDE DEF c
    <3> QED
      BY <2>1, <2>3, <3>1
  <2> QED
    BY <2>2, <2>3
<1>5. S \in SUBSET Places(h) /\ x \in S
  BY DEF Places
<1> HIDE DEF stop, next, S
<1>6. e \in S /\ stop[e]
  BY <1>2, <1>4, <1>5, FollowReaches
<1> HIDE DEF e
<1>7. /\ e \in Allocated(h) /\ v.own[e] = v.own[x] /\ h[e].child[i] = tail
      /\ i = 0 => v.lo[e] = v.lo[x]
      /\ i = 1 => v.hi[e] = v.hi[x]
  BY <1>3, <1>6 DEF S
<1>8. LeftFits(h, v, e) /\ RightFits(h, v, e)
  BY <1>7 DEF Shape
<1>9. (i = 0 => v.at[e] = v.lo[x]) /\ (i = 1 => v.at[e] = v.hi[x])
  BY <1>7, <1>8 DEF LeftFits, RightFits
<1> QED
  BY <1>7, <1>9 DEF Extreme, e, stop, next

(* A loop that follows child pointers ends. *)
LEMMA DownDescends ==
  ASSUME NEW h, IsHeap(h), NEW v, Shape(h, v), NEW stop, NEW next,
         stop[tail], DOMAIN next = Places(h),
         \A n \in Allocated(h) : ~stop[n] => next[n] \in {h[n].child[0], h[n].child[1]}
  PROVE  Descends(Places(h), stop, next, Rank(h, v))
<1>1. \A n \in Allocated(h) : \A i \in 0 .. 1 :
        h[n].child[i] \in Places(h) /\ Rank(h, v)[h[n].child[i]] < Rank(h, v)[n]
  BY RankParts
<1>2. \A n \in Allocated(h) :
        /\ h[n].child[0] \in Places(h) /\ Rank(h, v)[h[n].child[0]] < Rank(h, v)[n]
        /\ h[n].child[1] \in Places(h) /\ Rank(h, v)[h[n].child[1]] < Rank(h, v)[n]
  BY <1>1
<1>3. Rank(h, v) \in [Places(h) -> Nat]
  BY RankParts
<1>4. \A n \in Places(h) : n # tail => n \in Allocated(h)
  BY DEF Places
<1> QED
  BY <1>2, <1>3, <1>4 DEF Descends

(* Key k belongs at place j of tree t. *)
Splits(h, v, t, k, j) ==
  \A m \in Allocated(h) :
    v.own[m] = t => IF v.at[m] < j THEN h[m].key < k ELSE h[m].key >= k

InOrderOfKeys(h, v, t) ==
  \A m, n \in Allocated(h) :
    v.own[m] = t /\ v.own[n] = t /\ v.at[m] < v.at[n] => h[m].key <= h[n].key

(* The walk of rbtree_elem_insert ends at a node without a child on the  *)
(* side it wants, and the place there divides the keys that are less     *)
(* from those that are not.                                              *)
LEMMA InsertPointParts ==
  ASSUME NEW h, IsHeap(h), NEW v, Shape(h, v), NEW t \in Trees, v.top[t] \in Allocated(h),
         InOrderOfKeys(h, v, t), NEW k \in Keys
  PROVE  LET p == InsertPoint(h, v.top[t], k)
             i == InsertSide(h, p, k)
         IN  /\ p \in Allocated(h) /\ v.own[p] = t /\ i \in 0 .. 1 /\ h[p].child[i] = tail
             /\ Splits(h, v, t, k, v.at[p] + i)
<1> DEFINE side(n) == InsertSide(h, n, k)
           stop == [n \in Places(h) |-> h[n].child[side(n)] = tail]
           next == [n \in Places(h) |-> h[n].child[side(n)]]
           x == v.top[t]
           A == Allocated(h)
           Bounds(m) == \A w \in A : v.own[w] = t =>
                          /\ v.at[w] < v.lo[m] => h[w].key < k
                          /\ v.at[w] > v.hi[m] => h[w].key >= k
           S == {m \in A : v.own[m] = t /\ Bounds(m)}
           p == Follow(stop, next, x)
<1>1. tail \notin A /\ h[tail].child[0] = tail /\ h[tail].child[1] = tail
  BY HeapParts
<1>2. \A m \in A : h[m].key \in Int
  BY HeapParts, KeysAssumption
<1>3. k \in Int
  BY KeysAssumption
<1>4. \A n : side(n) = 0 \/ side(n) = 1
  BY DEF InsertSide
<1>5. \A n \in A : side(n) = IF k > h[n].key THEN 1 ELSE 0
  BY <1>2, <1>3 DEF InsertSide
<1>6. /\ \A n \in A : stop[n] = (h[n].child[side(n)] = tail)
      /\ \A n \in A : next[n] = h[n].child[side(n)]
      /\ stop[tail] /\ DOMAIN next = Places(h)
  BY <1>1, <1>4 DEF Places
<1>7. \A m \in A : /\ v.lo[m] \in Nat /\ v.at[m] \in Nat /\ v.hi[m] \in Nat
                   /\ 1 <= v.lo[m] /\ v.lo[m] <= v.at[m] /\ v.at[m] <= v.hi[m]
                   /\ v.hi[m] <= v.hi[v.top[v.own[m]]]
                   /\ LeftFits(h, v, m) /\ RightFits(h, v, m)
  BY DEF Shape, SpanFits
<1> HIDE DEF stop, next, side
<1>8. Descends(Places(h), stop, next, Rank(h, v))
  <2>1. \A n \in Allocated(h) : ~stop[n] => next[n] \in {h[n].child[0], h[n].child[1]}
    BY <1>4, <1>6
  <2> QED
    BY <1>6, <2>1, DownDescends
<1>9. x \in S
  <2>1. v.own[x] = t /\ v.lo[x] = 1
    <3>1. x \notin {tail, NoTree}
      BY <1>1, MarksAssumption DEF Allocated
    <3> QED
      BY <3>1 DEF Shape, TopFits
  <2>2. \A w \in A : v.own[w] = t => v.lo[x] <= v.at[w] /\ v.at[w] <= v.hi[x]
    BY <1>7, <2>1
  <2>3. x \in A /\ v.lo[x] \in Nat /\ v.hi[x] \in Nat
    BY <1>7
  <2>4. Bounds(x)
    BY <1>7, <2>2, <2>3
  <2> QED
    BY <2>1, <2>3, <2>4
<1>10. \A m, w \in A : v.own[m] = t /\ v.own[w] = t =>
          /\ v.at[w] < v.at[m] => h[w].key <= h[m].key
          /\ v.at[w] > v.at[m] => h[w].key >= h[m].key
          /\ v.at[w] = v.at[m] => h[w].key = h[m].key
  <2>1. ASSUME NEW m \in A, NEW w \in A, v.own[m] = t, v.own[w] = t
        PROVE  /\ v.at[w] < v.at[m] => h[w].key <= h[m].key
               /\ v.at[w] > v.at[m] => h[w].key >= h[m].key
               /\ v.at[w] = v.at[m] => h[w].key = h[m].key
    <3>1. v.at[w] < v.at[m] => h[w].key <= h[m].key
      BY <2>1 DEF InOrderOfKeys
    <3>2. v.at[m] < v.at[w] => h[m].key <= h[w].key
      BY <2>1 DEF InOrderOfKeys
    <3>3. v.at[w] = v.at[m] => w = m
      BY <2>1 DEF Shape, Apart
    <3> QED
      BY <1>2, <1>7, <3>1, <3>2, <3>3
  <2> QED
    BY <2>1
<1> HIDE DEF A

(* On the side that the key is not on, keys are as the node's. *)
<1>11. ASSUME NEW m \in A, v.own[m] = t, Bounds(m), NEW w \in A, v.own[w] = t
       PROVE  /\ side(m) = 1 /\ v.at[w] <= v.at[m] => h[w].key < k
              /\ side(m) = 0 /\ v.at[w] >= v.at[m] => h[w].key >= k
  <2>1. /\ v.at[w] \in Nat /\ v.at[m] \in Nat /\ h[w].key \in Int /\ h[m].key \in Int
        /\ side(m) = IF k > h[m].key THEN 1 ELSE 0
    BY <1>2, <1>5, <1>7
  <2>2. /\ v.at[w] < v.at[m] => h[w].key <= h[m].key
        /\ v.at[w] > v.at[m] => h[w].key >= h[m].key
        /\ v.at[w] = v.at[m] => h[w].key = h[m].key
    BY <1>11, <1>10
  <2> QED
    BY <1>3, <2>1, <2>2
<1>12. ASSUME NEW m \in A, Bounds(m), NEW w \in A, v.own[w] = t
       PROVE  (v.at[w] < v.lo[m] => h[w].key < k) /\ (v.at[w] > v.hi[m] => h[w].key >= k)
  BY <1>12, Zenon
<1>13. ASSUME NEW y \in S, ~stop[y] PROVE next[y] \in S
  <2> DEFINE c == h[y].child[side(y)]
  <2>1. /\ y \in A /\ v.own[y] = t /\ Bounds(y) /\ next[y] = c /\ c # tail
        /\ LeftFits(h, v, y) /\ RightFits(h, v, y)
    BY <1>6, <1>7, <1>13
  <2>2. CASE side(y) = 0
    <3>1. c \in A /\ v.own[c] = t /\ v.lo[c] = v.lo[y] /\ v.hi[c] = v.at[y] - 1
      BY <2>1, <2>2 DEF LeftFits, A
    <3> HIDE DEF c
    <3>2. ASSUME NEW w \in A, v.own[w] = t
          PROVE  (v.at[w] < v.lo[c] => h[w].key < k) /\ (v.at[w] > v.hi[c] => h[w].key >= k)
      <4>1. v.at[w] < v.lo[c] => h[w].key < k
        <5>1. v.at[w] < v.lo[y] => h[w].key < k
          <6> HIDE DEF Bounds
          <6> QED
            BY <1>12, <2>1, <3>2
        <5> QED
          BY <3>1, <5>1
      <4>2. v.at[w] > v.hi[c] => v.at[w] >= v.at[y]
        BY <1>7, <2>1, <3>1
      <4>3. v.at[w] >= v.at[y] => h[w].key >= k
        BY <1>11, <2>1, <2>2, <3>2
      <4> QED
        BY <4>1, <4>2, <4>3
    <3> QED
      BY <2>1, <3>1, <3>2
  <2>3. CASE side(y) = 1
    <3>1. c \in A /\ v.own[c] = t /\ v.lo[c] = v.at[y] + 1 /\ v.hi[c] = v.hi[y]
      BY <2>1, <2>3 DEF RightFits, A
    <3> HIDE DEF c
    <3>2. ASSUME NEW w \in A, v.own[w] = t
          PROVE  (v.at[w] < v.lo[c] => h[w].key < k) /\ (v.at[w] > v.hi[c] => h[w].key >= k)
      <4>1. v.at[w] > v.hi[c] => h[w].key >= k
        <5>1. v.at[w] > v.hi[y] => h[w].key >= k
          <6> HIDE DEF Bounds
          <6> QED
            BY <1>12, <2>1, <3>2
        <5> QED
          BY <3>1, <5>1
      <4>2. v.at[w] < v.lo[c] => v.at[w] <= v.at[y]
        BY <1>7, <2>1, <3>1
      <4>3. v.at[w] <= v.at[y] => h[w].key < k
        BY <1>11, <2>1, <2>3, <3>2
      <4> QED
        BY <4>1, <4>2, <4>3
    <3> QED
      BY <2>1, <3>1, <3>2
  <2> QED
    BY <1>4, <2>2, <2>3
<1>14. S \in SUBSET Places(h)
  BY DEF Places, A
<1> HIDE DEF S, p
<1>15. p \in S /\ stop[p]
  <2> HIDE DEF x
  <2> QED
    BY <1>8, <1>9, <1>13, <1>14, FollowReaches DEF p
<1>16. p \in A /\ v.own[p] = t /\ Bounds(p) /\ h[p].child[side(p)] = tail
  BY <1>6, <1>15 DEF S
<1>17. (side(p) = 0 => v.lo[p] = v.at[p]) /\ (side(p) = 1 => v.hi[p] = v.at[p])
  BY <1>7, <1>16 DEF LeftFits, RightFits
<1>18. ASSUME NEW w \in A, v.own[w] = t
       PROVE  IF v.at[w] < v.at[p] + side(p) THEN h[w].key < k ELSE h[w].key >= k
  <2>1. /\ v.at[w] < v.lo[p] => h[w].key < k
        /\ v.at[w] > v.hi[p] => h[w].key >= k
    <3> HIDE DEF Bounds
    <3> QED
      BY <1>12, <1>16, <1>18
  <2>2. /\ side(p) = 1 /\ v.at[w] <= v.at[p] => h[w].key < k
        /\ side(p) = 0 /\ v.at[w] >= v.at[p] => h[w].key >= k
    BY <1>11, <1>16, <1>18
  <2>3. v.at[w] \in Nat /\ v.at[p] \in Nat
    BY <1>7, <1>16
  <2>4. CASE side(p) = 0
    BY <1>17, <2>1, <2>2, <2>3, <2>4
  <2>5. CASE side(p) = 1
    BY <1>17, <2>1, <2>2, <2>3, <2>5
  <2> QED
    BY <1>4, <2>4, <2>5
<1>19. side(p) \in 0 .. 1
  BY <1>4
<1>20. Splits(h, v, t, k, v.at[p] + side(p))
  BY <1>18 DEF Splits, A
<1>21. p = InsertPoint(h, v.top[t], k)
  BY DEF InsertPoint, p, stop, next, side
<1> HIDE DEF x
<1> QED
  BY <1>16, <1>19, <1>20, <1>21 DEF side, A

(* Places of tree t. *)
PlacesOf(h, v, t) == {m \in Places(h) : m # tail => v.own[m] = t}

(* Child pointers do not leave a tree. *)
LEMMA ChildPlaces ==
  ASSUME NEW h, IsHeap(h), NEW v, Shape(h, v), NEW t, NEW n \in PlacesOf(h, v, t), n # tail
  PROVE  /\ n \in Allocated(h) /\ v.own[n] = t
         /\ h[n].child[0] \in PlacesOf(h, v, t) /\ h[n].child[1] \in PlacesOf(h, v, t)
<1>1. n \in Allocated(h) /\ v.own[n] = t
  BY DEF PlacesOf, Places
<1>2. LeftFits(h, v, n) /\ RightFits(h, v, n)
  BY <1>1 DEF Shape
<1>3. h[n].child[0] \in PlacesOf(h, v, t)
  BY <1>1, <1>2 DEF LeftFits, PlacesOf, Places
<1>4. h[n].child[1] \in PlacesOf(h, v, t)
  BY <1>1, <1>2 DEF RightFits, PlacesOf, Places
<1> QED
  BY <1>1, <1>3, <1>4

(* The search for a key, whatever the comparator answers, ends at a node *)
(* of the tree or at the tail.                                           *)
LEMMA ValueParts ==
  ASSUME NEW h, IsHeap(h), NEW v, Shape(h, v), NEW t \in Trees, v.top[t] # NoTree, NEW k
  PROVE  LET e == iter_value(h, v.top[t], k)
         IN  e # tail => e \in Allocated(h) /\ v.own[e] = t
<1> DEFINE stop == [n \in Places(h) |-> n = tail \/ key_cmp(k, h[n].key) = 0]
           next == [n \in Places(h) |-> h[n].child[IF key_cmp(k, h[n].key) > 0 THEN 1 ELSE 0]]
           x == v.top[t]
           S == PlacesOf(h, v, t)
           e == Follow(stop, next, x)
<1>1. stop[tail] /\ DOMAIN next = Places(h)
  BY DEF Places
<1>2. \A n \in Allocated(h) : next[n] \in {h[n].child[0], h[n].child[1]} /\ n \in Places(h)
  BY DEF Places
<1>3. \A n \in Places(h) : stop[n] \/ n # tail
  OBVIOUS
<1> HIDE DEF stop, next
<1>4. Descends(Places(h), stop, next, Rank(h, v))
  BY <1>1, <1>2, DownDescends
<1>5. S \in SUBSET Places(h)
  BY DEF PlacesOf
<1>6. x \in S
  BY DEF Shape, TopFits, PlacesOf, Places
<1>7. ASSUME NEW y \in S, ~stop[y] PROVE next[y] \in S
  <2>1. y # tail
    BY <1>3, <1>5, <1>7
  <2>2. y \in Allocated(h) /\ h[y].child[0] \in S /\ h[y].child[1] \in S
    BY <2>1, ChildPlaces
  <2> QED
    BY <1>2, <2>2
<1> HIDE DEF S, x
<1>8. e \in S
  BY <1>4, <1>5, <1>6, <1>7, FollowReaches
<1> HIDE DEF e
<1>9. e = iter_value(h, v.top[t], k)
  BY DEF iter_value, e, stop, next, x
<1>10. e # tail => e \in Allocated(h) /\ v.own[e] = t
  BY <1>8 DEF S, PlacesOf, Places
<1> QED
  BY <1>9, <1>10

(* The search for an index ends at a node of the tree or at the tail,    *)
(* and index 0 is the first node, whatever sizes the nodes hold.         *)
LEMMA IndexParts ==
  ASSUME NEW h, IsHeap(h), NEW v, Shape(h, v), NEW t \in Trees, v.top[t] # NoTree, NEW i \in Nat
  PROVE  LET e == iter_index(h, v.top[t], i)
         IN  /\ e # tail => e \in Allocated(h) /\ v.own[e] = t
             /\ i = 0 /\ v.top[t] # tail => e # tail /\ v.at[e] = 1
<1> DEFINE size(n) == h[h[n].child[0]].size
           D == Places(h) \X Nat
           stop == [x \in D |-> x[1] = tail \/ x[2] = size(x[1])]
           next == [x \in D |-> IF x[2] > size(x[1])
                                THEN <<h[x[1]].child[1], x[2] - size(x[1]) - 1>>
                                ELSE <<h[x[1]].child[0], x[2]>>]
           rank == [x \in D |-> Rank(h, v)[x[1]]]
           r == v.top[t]
           P == PlacesOf(h, v, t)
           First(x) == x[1] # tail /\ x[2] = 0 /\ v.lo[x[1]] = 1
           S == {x \in P \X Nat : i = 0 /\ r # tail => First(x)}
           e == Follow(stop, next, <<r, i>>)
<1>1. r \in P
  BY DEF Shape, TopFits, PlacesOf, Places
<1>2. /\ tail \notin Allocated(h) /\ h[tail].size = 0
      /\ \A m \in Allocated(h) \cup {tail, head} : h[m].size \in Nat
      /\ \A m \in Allocated(h) : h[m].size > 0
  BY HeapParts
<1>3. \A n \in Allocated(h) : LeftFits(h, v, n) /\ RightFits(h, v, n)
  BY DEF Shape
<1>4. \A n \in Allocated(h) : /\ h[n].child[0] \in Places(h) /\ h[n].child[1] \in Places(h)
                              /\ Rank(h, v)[h[n].child[0]] < Rank(h, v)[n]
                              /\ Rank(h, v)[h[n].child[1]] < Rank(h, v)[n]
  <2>1. \A n \in Allocated(h) : \A j \in 0 .. 1 :
          h[n].child[j] \in Places(h) /\ Rank(h, v)[h[n].child[j]] < Rank(h, v)[n]
    BY RankParts
  <2> QED
    BY <2>1
<1>5. \A n \in Allocated(h) : size(n) \in Nat
  BY <1>2, <1>4 DEF Places
<1> HIDE DEF size
<1>6. ASSUME NEW x \in D, ~stop[x]
      PROVE  /\ x[1] \in Allocated(h) /\ x[2] \in Nat /\ next[x] \in D /\ x[2] # size(x[1])
             /\ next[x][1] \in {h[x[1]].child[0], h[x[1]].child[1]}
             /\ x[2] < size(x[1]) => next[x] = <<h[x[1]].child[0], x[2]>>
  <2>1. x[1] \in Places(h) /\ x[2] \in Nat /\ x[1] # tail /\ x[2] # size(x[1])
    BY <1>6
  <2>2. x[1] \in Allocated(h)
    BY <2>1 DEF Places
  <2>3. size(x[1]) \in Nat
    BY <1>5, <2>2
  <2>4. CASE x[2] > size(x[1])
    <3>1. next[x] = <<h[x[1]].child[1], x[2] - size(x[1]) - 1>>
      BY <2>4
    <3>2. x[2] - size(x[1]) - 1 \in Nat
      BY <2>1, <2>3, <2>4
    <3>3. h[x[1]].child[1] \in Places(h)
      BY <1>4, <2>2
    <3>4. ~(x[2] < size(x[1]))
      BY <2>1, <2>3, <2>4
    <3> HIDE DEF next, stop
    <3> QED
      BY <2>1, <2>2, <3>1, <3>2, <3>3, <3>4
  <2>5. CASE ~(x[2] > size(x[1]))
    <3>1. next[x] = <<h[x[1]].child[0], x[2]>>
      BY <2>5
    <3>2. h[x[1]].child[0] \in Places(h)
      BY <1>4, <2>2
    <3> HIDE DEF next, stop
    <3> QED
      BY <2>1, <2>2, <3>1, <3>2
  <2> QED
    BY <2>4, <2>5
<1>7. Descends(D, stop, next, rank)
  <2>1. DOMAIN next = D
    OBVIOUS
  <2>2. Rank(h, v) \in [Places(h) -> Nat]
    BY RankParts
  <2>3. rank \in [D -> Nat]
    BY <2>2
  <2>4. ASSUME NEW y \in D, ~stop[y] PROVE next[y] \in D /\ rank[next[y]] < rank[y]
    <3>1. /\ next[y] \in D /\ y[1] \in Allocated(h)
          /\ next[y][1] \in {h[y[1]].child[0], h[y[1]].child[1]}
      BY <1>6, <2>4
    <3>2. rank[next[y]] = Rank(h, v)[next[y][1]] /\ rank[y] = Rank(h, v)[y[1]]
      <4> HIDE DEF next
      <4> QED
        BY <3>1
    <3> HIDE DEF next, rank
    <3> QED
      BY <1>4, <3>1, <3>2
  <2> HIDE DEF next, rank, stop
  <2> QED
    BY <2>1, <2>3, <2>4 DEF Descends
<1>8. \A x \in D : stop[x] = (x[1] = tail \/ x[2] = size(x[1]))
  OBVIOUS
<1>9. P \subseteq Places(h)
  BY DEF PlacesOf
<1>10. S \in SUBSET D
  BY <1>9
<1>11. <<r, i>> \in S
  <2>1. r # tail => v.lo[r] = 1
    BY DEF Shape, TopFits
  <2> QED
    BY <1>1, <2>1
<1>12. \A x : i = 0 /\ r # tail /\ x \in S => First(x)
  OBVIOUS
<1>13. \A x \in S : x[1] \in P /\ x[2] \in Nat
  OBVIOUS
<1>14. \A x \in D : x[1] \in P /\ (i = 0 /\ r # tail => First(x)) => x \in S
  OBVIOUS
<1> HIDE DEF stop, next, rank, D, S, P
<1>15. ASSUME NEW y \in S, ~stop[y] PROVE next[y] \in S
  <2>1. /\ y[1] \in Allocated(h) /\ y[2] \in Nat /\ next[y] \in D /\ y[2] # size(y[1])
        /\ next[y][1] \in {h[y[1]].child[0], h[y[1]].child[1]}
        /\ y[2] < size(y[1]) => next[y] = <<h[y[1]].child[0], y[2]>>
    BY <1>6, <1>10, <1>15
  <2>2. y[1] # tail /\ y[1] \in P
    BY <1>2, <1>13, <2>1
  <2>3. h[y[1]].child[0] \in P /\ h[y[1]].child[1] \in P
    BY <2>2, ChildPlaces DEF P
  <2>4. next[y][1] \in P
    BY <2>1, <2>3
  <2>5. ASSUME i = 0, r # tail PROVE First(next[y])
    <3>1. y[2] = 0 /\ v.lo[y[1]] = 1
      BY <1>12, <2>5
    <3>2. y[2] < size(y[1])
      BY <1>5, <2>1, <3>1
    <3> DEFINE c == h[y[1]].child[0]
    <3>3. next[y] = <<c, 0>>
      BY <2>1, <3>1, <3>2
    <3>4. h[c].size # 0
      BY <3>1, <3>2 DEF size
    <3>5. c # tail
      BY <1>2, <3>4
    <3>6. v.lo[c] = 1
      <4>1. LeftFits(h, v, y[1])
        BY <1>3, <2>1
      <4> QED
        BY <3>1, <3>5, <4>1 DEF LeftFits
    <3> HIDE DEF c
    <3> QED
      BY <3>3, <3>5, <3>6
  <2> QED
    BY <1>14, <2>1, <2>4, <2>5
<1> HIDE DEF e, First
<1>16. Follow(stop, next, <<r, i>>) \in S /\ stop[Follow(stop, next, <<r, i>>)]
  <2> HIDE DEF r
  <2> QED
    BY <1>7, <1>10, <1>11, <1>15, FollowReaches
<1>17. e \in S /\ stop[e]
  BY <1>16 DEF e
<1>18. e[1] = iter_index(h, v.top[t], i)
  BY DEF iter_index, e, stop, next, r, size, D
<1>19. e[1] # tail => e[1] \in Allocated(h) /\ v.own[e[1]] = t
  BY <1>13, <1>17 DEF P, PlacesOf, Places
<1>20. ASSUME i = 0, v.top[t] # tail PROVE e[1] # tail /\ v.at[e[1]] = 1
  <2>1. e[1] # tail /\ e[2] = 0 /\ v.lo[e[1]] = 1
    BY <1>12, <1>17, <1>20 DEF First
  <2>2. size(e[1]) = 0 /\ e[1] \in Allocated(h)
    BY <1>8, <1>10, <1>17, <1>19, <2>1
  <2>3. h[e[1]].child[0] = tail
    <3>1. h[h[e[1]].child[0]].size = 0 /\ h[e[1]].child[0] \in Places(h)
      BY <1>4, <2>2 DEF size
    <3> QED
      BY <1>2, <3>1 DEF Places
  <2>4. LeftFits(h, v, e[1])
    BY <1>3, <2>2
  <2> QED
    BY <2>1, <2>3, <2>4 DEF LeftFits
<1> QED
  BY <1>18, <1>19, <1>20

-----------------------------------------------------------------------------
(* Elements. *)

(* s2 is s with e put in at place i. *)
PutIn(s2, s, i, e) ==
  /\ Len(s2) = Len(s) + 1
  /\ \A j \in 1 .. Len(s) + 1 : s2[j] = IF j < i THEN s[j] ELSE IF j = i THEN e ELSE s[j - 1]

(* s2 is s without what is at place i. *)
TakenOut(s2, s, i) ==
  /\ Len(s2) = Len(s) - 1
  /\ \A j \in 1 .. Len(s) - 1 : s2[j] = IF j < i THEN s[j] ELSE s[j + 1]

(* InsertAt of the ordered bag puts an element in. *)
LEMMA InsertAtParts ==
  ASSUME NEW S, NEW s \in Seq(S), NEW i \in 1 .. Len(s) + 1, NEW e \in S
  PROVE  Abstract!InsertAt(s, i, e) \in Seq(S) /\ PutIn(Abstract!InsertAt(s, i, e), s, i, e)
<1> DEFINE n == Len(s)
           a == SubSeq(s, 1, i - 1)
           b == <<e>>
           c == SubSeq(s, i, n)
           ab == a \o b
           abc == ab \o c
<1>1. /\ n \in Nat /\ i \in Int /\ 1 <= i /\ i <= n + 1 /\ i - 1 \in Int
      /\ \A j \in 1 .. n : s[j] \in S
  BY LenProperties
<1> HIDE DEF n
<1>2. a \in Seq(S) /\ Len(a) = i - 1 /\ \A j \in 1 .. i - 1 : a[j] = s[j]
  <2>1. \A j \in 1 .. i - 1 : s[j] \in S
    BY <1>1
  <2>2. /\ a \in Seq(S) /\ Len(a) = (IF 1 <= i - 1 THEN i - 1 - 1 + 1 ELSE 0)
        /\ \A j \in 1 .. i - 1 - 1 + 1 : a[j] = s[1 + j - 1]
    BY <1>1, <2>1, SubSeqProperties
  <2>3. i - 1 - 1 + 1 = i - 1 /\ \A j \in 1 .. i - 1 : 1 + j - 1 = j
    BY <1>1
  <2> HIDE DEF a
  <2> QED
    BY <1>1, <2>2, <2>3
<1>3. c \in Seq(S) /\ Len(c) = n - i + 1 /\ \A j \in 1 .. n - i + 1 : c[j] = s[i + j - 1]
  <2>1. \A j \in i .. n : s[j] \in S
    BY <1>1
  <2>2. /\ c \in Seq(S) /\ Len(c) = (IF i <= n THEN n - i + 1 ELSE 0)
        /\ \A j \in 1 .. n - i + 1 : c[j] = s[i + j - 1]
    BY <1>1, <2>1, SubSeqProperties
  <2> HIDE DEF c
  <2> QED
    BY <1>1, <2>2
<1>4. b \in Seq(S) /\ Len(b) = 1 /\ b[1] = e
  OBVIOUS
<1> HIDE DEF a, b, c
<1>5. /\ ab \in Seq(S) /\ Len(ab) = i
      /\ \A j \in 1 .. i : ab[j] = IF j < i THEN s[j] ELSE e
  <2>1. /\ ab \in Seq(S) /\ Len(ab) = Len(a) + Len(b)
        /\ \A j \in 1 .. Len(a) + Len(b) : ab[j] = IF j <= Len(a) THEN a[j] ELSE b[j - Len(a)]
    BY <1>2, <1>4, ConcatProperties
  <2> HIDE DEF ab
  <2>2. ASSUME NEW j \in 1 .. i PROVE ab[j] = IF j < i THEN s[j] ELSE e
    <3>1. CASE j < i
      BY <1>1, <1>2, <1>4, <2>1, <3>1
    <3>2. CASE j = i
      <4>1. ab[j] = b[j - (i - 1)] /\ j - (i - 1) = 1
        BY <1>1, <1>2, <1>4, <2>1, <3>2
      <4> QED
        BY <1>1, <1>4, <3>2, <4>1
    <3> QED
      BY <1>1, <3>1, <3>2
  <2> QED
    BY <1>1, <1>2, <1>4, <2>1, <2>2
<1> HIDE DEF ab
<1>6. /\ abc \in Seq(S) /\ Len(abc) = n + 1
      /\ \A j \in 1 .. n + 1 : abc[j] = IF j < i THEN s[j] ELSE IF j = i THEN e ELSE s[j - 1]
  <2>1. /\ abc \in Seq(S) /\ Len(abc) = Len(ab) + Len(c)
        /\ \A j \in 1 .. Len(ab) + Len(c) : abc[j] = IF j <= Len(ab) THEN ab[j] ELSE c[j - Len(ab)]
    BY <1>3, <1>5, ConcatProperties
  <2> HIDE DEF abc
  <2>2. Len(abc) = n + 1
    BY <1>1, <1>3, <1>5, <2>1
  <2>3. ASSUME NEW j \in 1 .. n + 1
        PROVE  abc[j] = IF j < i THEN s[j] ELSE IF j = i THEN e ELSE s[j - 1]
    <3>1. CASE j <= i
      BY <1>1, <1>3, <1>5, <2>1, <3>1
    <3>2. CASE j > i
      <4>1. j - i \in 1 .. n - i + 1 /\ i + (j - i) - 1 = j - 1 /\ j \in 1 .. Len(ab) + Len(c)
        BY <1>1, <1>3, <1>5, <3>2
      <4>2. abc[j] = c[j - i]
        BY <1>1, <1>5, <2>1, <3>2, <4>1
      <4>3. c[j - i] = s[j - 1]
        BY <1>3, <4>1
      <4> QED
        BY <1>1, <3>2, <4>2, <4>3
    <3> QED
      BY <1>1, <3>1, <3>2
  <2> QED
    BY <2>1, <2>2, <2>3
<1>7. abc = Abstract!InsertAt(s, i, e)
  BY DEF Abstract!InsertAt, abc, ab, a, b, c, n
<1> HIDE DEF abc
<1> QED
  BY <1>6, <1>7 DEF PutIn, n

(* RemoveAt of the ordered bag takes one out. *)
LEMMA RemoveAtParts ==
  ASSUME NEW S, NEW s \in Seq(S), NEW i \in 1 .. Len(s)
  PROVE  Abstract!RemoveAt(s, i) \in Seq(S) /\ TakenOut(Abstract!RemoveAt(s, i), s, i)
<1> DEFINE n == Len(s)
           a == SubSeq(s, 1, i - 1)
           c == SubSeq(s, i + 1, n)
           ac == a \o c
<1>1. /\ n \in Nat /\ i \in Int /\ 1 <= i /\ i <= n /\ i - 1 \in Int /\ i + 1 \in Int
      /\ \A j \in 1 .. n : s[j] \in S
  BY LenProperties
<1> HIDE DEF n
<1>2. a \in Seq(S) /\ Len(a) = i - 1 /\ \A j \in 1 .. i - 1 : a[j] = s[j]
  <2>1. \A j \in 1 .. i - 1 : s[j] \in S
    BY <1>1
  <2>2. /\ a \in Seq(S) /\ Len(a) = (IF 1 <= i - 1 THEN i - 1 - 1 + 1 ELSE 0)
        /\ \A j \in 1 .. i - 1 - 1 + 1 : a[j] = s[1 + j - 1]
    BY <1>1, <2>1, SubSeqProperties
  <2>3. i - 1 - 1 + 1 = i - 1 /\ \A j \in 1 .. i - 1 : 1 + j - 1 = j
    BY <1>1
  <2> HIDE DEF a
  <2> QED
    BY <1>1, <2>2, <2>3
<1>3. c \in Seq(S) /\ Len(c) = n - i /\ \A j \in 1 .. n - i : c[j] = s[i + j]
  <2>1. \A j \in i + 1 .. n : s[j] \in S
    BY <1>1
  <2>2. /\ c \in Seq(S) /\ Len(c) = (IF i + 1 <= n THEN n - (i + 1) + 1 ELSE 0)
        /\ \A j \in 1 .. n - (i + 1) + 1 : c[j] = s[i + 1 + j - 1]
    BY <1>1, <2>1, SubSeqProperties
  <2>3. n - (i + 1) + 1 = n - i /\ \A j \in 1 .. n - i : i + 1 + j - 1 = i + j
    BY <1>1
  <2> HIDE DEF c
  <2> QED
    BY <1>1, <2>2, <2>3
<1> HIDE DEF a, c
<1>4. /\ ac \in Seq(S) /\ Len(ac) = n - 1
      /\ \A j \in 1 .. n - 1 : ac[j] = IF j < i THEN s[j] ELSE s[j + 1]
  <2>1. /\ ac \in Seq(S) /\ Len(ac) = Len(a) + Len(c)
        /\ \A j \in 1 .. Len(a) + Len(c) : ac[j] = IF j <= Len(a) THEN a[j] ELSE c[j - Len(a)]
    BY <1>2, <1>3, ConcatProperties
  <2> HIDE DEF ac
  <2>2. Len(ac) = n - 1
    BY <1>1, <1>2, <1>3, <2>1
  <2>3. ASSUME NEW j \in 1 .. n - 1
        PROVE  ac[j] = IF j < i THEN s[j] ELSE s[j + 1]
    <3>1. CASE j < i
      BY <1>1, <1>2, <1>3, <2>1, <3>1
    <3>2. CASE j >= i
      <4>1. /\ j - (i - 1) \in 1 .. n - i /\ i + (j - (i - 1)) = j + 1
            /\ j \in 1 .. Len(a) + Len(c) /\ ~ (j <= Len(a)) /\ j - Len(a) = j - (i - 1)
        BY <1>1, <1>2, <1>3, <3>2
      <4>2. ac[j] = c[j - (i - 1)]
        BY <2>1, <4>1
      <4>3. c[j - (i - 1)] = s[j + 1]
        BY <1>3, <4>1
      <4> QED
        BY <1>1, <3>2, <4>2, <4>3
    <3> QED
      BY <1>1, <3>1, <3>2
  <2> QED
    BY <2>1, <2>2, <2>3
<1>5. ac = Abstract!RemoveAt(s, i)
  BY DEF Abstract!RemoveAt, ac, a, c, n
<1> HIDE DEF ac
<1> QED
  BY <1>4, <1>5 DEF TakenOut, n

(* Taking out one of two neighbours that are equal is taking out the other. *)
LEMMA EqualNeighbours ==
  ASSUME NEW S, NEW s \in Seq(S), NEW i \in 1 .. Len(s), NEW j \in 1 .. Len(s),
         j = i + 1 \/ i = j + 1
  PROVE  /\ [s EXCEPT ![i] = s[j]] \in Seq(S) /\ Len([s EXCEPT ![i] = s[j]]) = Len(s)
         /\ \A k \in 1 .. Len(s) : [s EXCEPT ![i] = s[j]][k] = IF k = i THEN s[j] ELSE s[k]
         /\ Abstract!RemoveAt([s EXCEPT ![i] = s[j]], j) = Abstract!RemoveAt(s, i)
<1> DEFINE n == Len(s)
           t == [s EXCEPT ![i] = s[j]]
           a == Abstract!RemoveAt(t, j)
           b == Abstract!RemoveAt(s, i)
<1>1. n \in Nat /\ s[j] \in S
  BY LenProperties
<1>2. t \in Seq(S) /\ Len(t) = n /\ \A k \in 1 .. n : t[k] = IF k = i THEN s[j] ELSE s[k]
  BY <1>1, ExceptSeq
<1> HIDE DEF t
<1>3. a \in Seq(S) /\ TakenOut(a, t, j)
  BY <1>2, RemoveAtParts
<1>4. b \in Seq(S) /\ TakenOut(b, s, i)
  BY RemoveAtParts
<1> HIDE DEF a, b
<1>5. Len(a) = Len(b) /\ Len(a) = n - 1
  BY <1>2, <1>3, <1>4 DEF TakenOut
<1>6. ASSUME NEW k \in 1 .. n - 1 PROVE a[k] = b[k]
  <2>1. a[k] = IF k < j THEN t[k] ELSE t[k + 1]
    BY <1>2, <1>3 DEF TakenOut
  <2>2. b[k] = IF k < i THEN s[k] ELSE s[k + 1]
    BY <1>4 DEF TakenOut
  <2>3. k \in 1 .. n /\ k + 1 \in 1 .. n
    BY <1>1
  <2>4. t[k] = (IF k = i THEN s[j] ELSE s[k]) /\ t[k + 1] = IF k + 1 = i THEN s[j] ELSE s[k + 1]
    BY <1>2, <2>3
  <2> HIDE DEF n
  <2> QED
    BY <1>1, <2>1, <2>2, <2>3, <2>4
<1>7. a = b
  BY <1>3, <1>4, <1>5, <1>6, SeqEqual
<1> QED
  BY <1>2, <1>7 DEF t, a, b
============================================================================

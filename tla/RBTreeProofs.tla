--------------------------- MODULE RBTreeProofs ---------------------------
(***************************************************************************)
(* What the calls and loops of RBTree do to the trees and to the elements  *)
(* they hold, the inductive invariant, and the theorems about the          *)
(* specification.                                                          *)
(* The invariant (IInv) says that there is a view of the heap in which the *)
(* trees that no call is working on are what their last call left, and in  *)
(* which what is left to do for the tree of the call in progress will make *)
(* the change that the call is to make.                                    *)
(***************************************************************************)
EXTENDS RBShapeProofs, RBTreeClients

(* The places of a tree are those of its sequence of elements. *)
LEMMA PlaceParts ==
  ASSUME NEW h, NEW v, Good(h, v), NEW n \in Allocated(h)
  PROVE  /\ v.own[n] \in Trees /\ v.held[v.own[n]] \in Seq(Keys \X Vals)
         /\ v.at[n] \in 1 .. Len(v.held[v.own[n]])
         /\ v.held[v.own[n]][v.at[n]] = <<h[n].key, h[n].val>>
         /\ Len(v.held[v.own[n]]) = v.hi[v.top[v.own[n]]]
         /\ v.top[v.own[n]] \in Allocated(h)
<1>1. /\ v.lo[n] \in Nat /\ v.at[n] \in Nat /\ v.hi[n] \in Nat
      /\ 1 <= v.lo[n] /\ v.lo[n] <= v.at[n] /\ v.at[n] <= v.hi[n]
      /\ v.own[n] \in Trees /\ v.top[v.own[n]] \in Allocated(h)
      /\ v.hi[n] <= v.hi[v.top[v.own[n]]]
  BY DEF Good, Shape, SpanFits
<1>2. v.hi[v.top[v.own[n]]] \in Nat
  BY <1>1 DEF Good, Shape, SpanFits
<1>3. v.top[v.own[n]] # tail /\ v.top[v.own[n]] # NoTree
  <2>1. Allocated(h) \subseteq Nodes
    BY HeapParts, Zenon DEF Good
  <2> QED
    BY <1>1, <2>1, SentinelsAssumption, MarksAssumption
<1>4. Extent(v, v.own[n]) = v.hi[v.top[v.own[n]]]
  BY <1>3 DEF Extent
<1>5. /\ v.held[v.own[n]] \in Seq(Keys \X Vals) /\ Len(v.held[v.own[n]]) = Extent(v, v.own[n])
      /\ v.held[v.own[n]][v.at[n]] = <<h[n].key, h[n].val>>
  BY <1>1, Zenon DEF Good, Contents
<1>6. v.at[n] \in 1 .. Len(v.held[v.own[n]])
  <2> DEFINE a == v.at[n]
             b == v.hi[n]
             c == v.hi[v.top[v.own[n]]]
  <2>1. a \in Nat /\ b \in Nat /\ c \in Nat /\ 1 <= a /\ a <= b /\ b <= c
    <3>1. 1 <= a
      <4> DEFINE l == v.lo[n]
      <4>1. l \in Nat /\ a \in Nat /\ 1 <= l /\ l <= a
        BY <1>1
      <4> HIDE DEF l, a
      <4> QED
        BY <4>1
    <3> QED
      BY <1>1, <1>2, <3>1
  <2> HIDE DEF a, b, c
  <2>2. a \in 1 .. c
    BY <2>1
  <2> QED
    BY <1>4, <1>5, <2>2, Zenon DEF a, c
<1> QED
  BY <1>1, <1>4, <1>5, <1>6, Zenon

(* Changes that leave the trees and their elements, but for which node is  *)
(* at the top of tree o.                                                   *)
Rebalanced(h, h2, v, o) ==
  /\ IsHeap(h2) /\ SameElements(h, h2)
  /\ \E v2 : Shape(h2, v2) /\ SameTrees(v, v2, o)

(* A heap that is only rebalanced has the same elements. *)
LEMMA RebalancedGood ==
  ASSUME NEW h, NEW v, Good(h, v), NEW o, NEW h2, Rebalanced(h, h2, v, o)
  PROVE  \E v2 : Good(h2, v2) /\ SameTrees(v, v2, o)
<1>1. PICK v2 : Shape(h2, v2) /\ SameTrees(v, v2, o)
  BY DEF Rebalanced
<1>2. IsHeap(h2) /\ SameElements(h, h2)
  BY DEF Rebalanced
<1>3. Contents(h2, v2)
  <2>1. \A n \in Allocated(h2) : v2.held[v2.own[n]][v2.at[n]] = <<h2[n].key, h2[n].val>>
    BY <1>1, <1>2 DEF Good, Contents, SameTrees, SameElements
  <2>2. \A t \in Trees : v2.held[t] \in Seq(Keys \X Vals) /\ Len(v2.held[t]) = Extent(v2, t)
    BY <1>1 DEF Good, Contents, SameTrees
  <2> QED
    BY <2>1, <2>2 DEF Contents
<1> QED
  BY <1>1, <1>2, <1>3 DEF Good

(* One change of the top after another is a change of the top. *)
LEMMA SameTreesTrans ==
  ASSUME NEW v, NEW v2, NEW v3, NEW o, SameTrees(v, v2, o), SameTrees(v2, v3, o)
  PROVE  SameTrees(v, v3, o)
BY DEF SameTrees

(* Writes that leave links and elements leave the trees. *)
LEMMA Relinked ==
  ASSUME NEW h, NEW h2, NEW v, NEW o, Shape(h, v), IsHeap(h2), SameElements(h, h2), SameLinks(h, h2)
  PROVE  Shape(h2, v) /\ Rebalanced(h, h2, v, o)
<1>1. Shape(h2, v)
  BY SameShape DEF SameElements
<1>2. SameTrees(v, v, o)
  BY DEF SameTrees
<1> QED
  BY <1>1, <1>2 DEF Rebalanced

(* The view with another element at a node. *)
Replaced(v, n, e) ==
  [top |-> v.top, own |-> v.own, at |-> v.at, lo |-> v.lo, hi |-> v.hi,
   held |-> [t \in Trees |-> IF t = v.own[n] THEN [v.held[t] EXCEPT ![v.at[n]] = e]
                                             ELSE v.held[t]]]

(* Another element at a node is another element at its place. *)
LEMMA ReplaceGood ==
  ASSUME NEW h, NEW v, Good(h, v), NEW n \in Allocated(h), NEW h2, IsHeap(h2),
         Allocated(h2) = Allocated(h), SameLinks(h, h2),
         \A m \in Allocated(h) : m # n => h2[m].key = h[m].key /\ h2[m].val = h[m].val
  PROVE  Good(h2, Replaced(v, n, <<h2[n].key, h2[n].val>>))
<1> DEFINE e == <<h2[n].key, h2[n].val>>
           v2 == Replaced(v, n, e)
           o == v.own[n]
           s == v.held[o]
           s2 == [s EXCEPT ![v.at[n]] = e]
<1>1. /\ v2.top = v.top /\ v2.own = v.own /\ v2.at = v.at /\ v2.lo = v.lo /\ v2.hi = v.hi
      /\ \A t \in Trees : v2.held[t] = IF t = o THEN s2 ELSE v.held[t]
  BY DEF Replaced
<1>2. Shape(h2, v)
  BY SameShape DEF Good
<1>3. Shape(h2, v2)
  <2> HIDE DEF v2
  <2>1. \A m \in Allocated(h2) :
          LeftFits(h2, v2, m) /\ RightFits(h2, v2, m) /\ UpFits(h2, v2, m) /\ SpanFits(h2, v2, m)
    BY <1>1, <1>2 DEF Shape, LeftFits, RightFits, UpFits, SpanFits
  <2>2. \A t \in Trees : TopFits(h2, v2, t)
    BY <1>1, <1>2 DEF Shape, TopFits
  <2>3. Apart(h2, v2)
    BY <1>1, <1>2 DEF Shape, Apart
  <2> QED
    BY <2>1, <2>2, <2>3 DEF Shape
<1>4. /\ o \in Trees /\ s \in Seq(Keys \X Vals) /\ v.at[n] \in 1 .. Len(s)
  BY PlaceParts
<1>5. e \in Keys \X Vals
  <2>1. h2[n].key \in Keys /\ h2[n].val \in Vals
    BY HeapParts, Zenon
  <2> QED
    BY <2>1
<1> HIDE DEF e, v2
<1>6. /\ s2 \in Seq(Keys \X Vals) /\ Len(s2) = Len(s)
      /\ \A j \in 1 .. Len(s) : s2[j] = IF j = v.at[n] THEN e ELSE s[j]
  BY <1>4, <1>5, ExceptSeq
<1> HIDE DEF s2
<1>7. \A t \in Trees : v2.held[t] \in Seq(Keys \X Vals) /\ Len(v2.held[t]) = Extent(v2, t)
  <2>1. \A t \in Trees : v.held[t] \in Seq(Keys \X Vals) /\ Len(v.held[t]) = Extent(v, t)
    BY DEF Good, Contents
  <2>2. \A t \in Trees : Extent(v2, t) = Extent(v, t)
    BY <1>1 DEF Extent
  <2> QED
    BY <1>1, <1>6, <2>1, <2>2
<1>8. ASSUME NEW m \in Allocated(h) PROVE v2.held[v2.own[m]][v2.at[m]] = <<h2[m].key, h2[m].val>>
  <2>1. /\ v.own[m] \in Trees /\ v.at[m] \in 1 .. Len(v.held[v.own[m]])
        /\ v.held[v.own[m]][v.at[m]] = <<h[m].key, h[m].val>>
    BY PlaceParts
  <2>2. CASE m = n
    <3>1. s2[v.at[n]] = e
      BY <1>4, <1>6
    <3> QED
      BY <1>1, <1>4, <2>2, <3>1 DEF e
  <2>3. CASE m # n /\ v.own[m] = o
    <3>1. v.at[m] # v.at[n]
      BY <2>3 DEF Good, Shape, Apart
    <3>2. v.at[m] \in 1 .. Len(s)
      BY <2>1, <2>3
    <3>3. s2[v.at[m]] = s[v.at[m]]
      BY <1>6, <3>1, <3>2
    <3> QED
      BY <1>1, <1>4, <2>1, <2>3, <3>3, Zenon
  <2>4. CASE v.own[m] # o
    <3>1. m # n
      BY <2>4
    <3> QED
      BY <1>1, <2>1, <2>4, <3>1, Zenon
  <2> QED
    BY <2>2, <2>3, <2>4
<1>9. Contents(h2, v2)
  BY <1>7, <1>8 DEF Contents
<1> QED
  BY <1>3, <1>9 DEF Good, v2, e

(* The view in which tree t has no node. *)
Cleared(v, t, mark) ==
  [top |-> [o \in Trees |-> IF o = t THEN mark ELSE v.top[o]],
   own |-> v.own, at |-> v.at, lo |-> v.lo, hi |-> v.hi,
   held |-> [o \in Trees |-> IF o = t THEN <<>> ELSE v.held[o]]]

(* Without the nodes of a tree the other trees are as they were. *)
LEMMA ClearGood ==
  ASSUME NEW h, NEW v, Good(h, v), NEW t \in Trees, NEW mark \in {tail, NoTree}, NEW h2, IsHeap(h2),
         Allocated(h2) = {m \in Allocated(h) : v.own[m] # t},
         \A m \in Allocated(h2) : h2[m] = h[m]
  PROVE  Good(h2, Cleared(v, t, mark))
<1> DEFINE v2 == Cleared(v, t, mark)
           A == Allocated(h)
           A2 == Allocated(h2)
<1>1. /\ v2.own = v.own /\ v2.at = v.at /\ v2.lo = v.lo /\ v2.hi = v.hi
      /\ v2.top[t] = mark /\ v2.held[t] = <<>>
      /\ \A o \in Trees : o # t => v2.top[o] = v.top[o] /\ v2.held[o] = v.held[o]
  BY DEF Cleared
<1>2. \A m \in A2 : m \in A /\ v.own[m] # t /\ h2[m] = h[m]
  OBVIOUS
<1>3. \A m \in A : v.own[m] # t => m \in A2
  OBVIOUS
<1>4. \A m \in A : /\ LeftFits(h, v, m) /\ RightFits(h, v, m) /\ UpFits(h, v, m) /\ SpanFits(h, v, m)
                   /\ v.own[m] \in Trees
  BY DEF Good, Shape, SpanFits
<1> HIDE DEF v2
<1>5. ASSUME NEW m \in A2
      PROVE  LeftFits(h2, v2, m) /\ RightFits(h2, v2, m) /\ UpFits(h2, v2, m) /\ SpanFits(h2, v2, m)
  <2>1. m \in A /\ v.own[m] # t /\ h2[m] = h[m] /\ v.own[m] \in Trees
    BY <1>2, <1>4
  <2>2. LeftFits(h2, v2, m)
    <3>1. LeftFits(h, v, m)
      BY <1>4, <2>1
    <3> QED
      BY <1>1, <1>2, <1>3, <2>1, <3>1 DEF LeftFits
  <2>3. RightFits(h2, v2, m)
    <3>1. RightFits(h, v, m)
      BY <1>4, <2>1
    <3> QED
      BY <1>1, <1>2, <1>3, <2>1, <3>1 DEF RightFits
  <2>4. UpFits(h2, v2, m)
    <3>1. CASE h[m].up = head
      <4>1. UpFits(h, v, m)
        BY <1>4, <2>1
      <4> QED
        BY <1>1, <2>1, <3>1, <4>1 DEF UpFits
    <3>2. CASE h[m].up # head
      <4>1. h[m].up \in A /\ h[h[m].up].child[h[m].idx] = m /\ v.own[h[m].up] = v.own[m]
        BY <2>1, <3>2, UpParts DEF Good
      <4>2. h[m].up \in A2 /\ h2[h[m].up] = h[h[m].up]
        BY <1>2, <1>3, <2>1, <4>1
      <4> QED
        BY <2>1, <3>2, <4>1, <4>2 DEF UpFits
    <3> QED
      BY <3>1, <3>2
  <2>5. SpanFits(h2, v2, m)
    <3>1. SpanFits(h, v, m)
      BY <1>4, <2>1
    <3>2. v.top[v.own[m]] \in A /\ v.own[v.top[v.own[m]]] = v.own[m]
      <4>1. v.top[v.own[m]] \in A
        BY <3>1 DEF SpanFits
      <4>2. v.top[v.own[m]] \notin {tail, NoTree}
        <5>1. A \subseteq Nodes
          BY HeapParts, Zenon DEF Good
        <5> QED
          BY <4>1, <5>1, SentinelsAssumption, MarksAssumption
      <4> QED
        BY <2>1, <4>1, <4>2 DEF Good, Shape, TopFits
    <3>3. v.top[v.own[m]] \in A2
      BY <1>3, <2>1, <3>2
    <3>4. v2.top[v2.own[m]] = v.top[v.own[m]]
      BY <1>1, <2>1
    <3> QED
      BY <1>1, <2>1, <3>1, <3>3, <3>4 DEF SpanFits
  <2> QED
    BY <2>2, <2>3, <2>4, <2>5
<1>6. ASSUME NEW o \in Trees PROVE TopFits(h2, v2, o)
  <2>1. CASE o = t
    BY <1>1, <2>1 DEF TopFits
  <2>2. CASE o # t
    <3>1. TopFits(h, v, o)
      BY DEF Good, Shape
    <3> QED
      BY <1>1, <1>2, <1>3, <2>2, <3>1 DEF TopFits
  <2> QED
    BY <2>1, <2>2
<1>7. Apart(h2, v2)
  BY <1>1, <1>2 DEF Good, Shape, Apart
<1>8. Shape(h2, v2)
  BY <1>5, <1>6, <1>7 DEF Shape
<1>9. Contents(h2, v2)
  <2>1. ASSUME NEW m \in A2 PROVE v2.held[v2.own[m]][v2.at[m]] = <<h2[m].key, h2[m].val>>
    <3>1. m \in A /\ v.own[m] # t /\ h2[m] = h[m] /\ v.own[m] \in Trees
      BY <1>2, <1>4
    <3>2. v.held[v.own[m]][v.at[m]] = <<h[m].key, h[m].val>>
      BY <3>1 DEF Good, Contents
    <3>3. v2.held[v.own[m]] = v.held[v.own[m]] /\ v2.own[m] = v.own[m] /\ v2.at[m] = v.at[m]
      BY <1>1, <3>1
    <3> QED
      BY <3>1, <3>2, <3>3, Zenon
  <2>2. ASSUME NEW o \in Trees
        PROVE  v2.held[o] \in Seq(Keys \X Vals) /\ Len(v2.held[o]) = Extent(v2, o)
    <3>1. CASE o = t
      <4>1. Extent(v2, o) = 0 /\ v2.held[o] = <<>>
        BY <1>1, <3>1 DEF Extent
      <4> QED
        BY <4>1, EmptySeq
    <3>2. CASE o # t
      <4>1. Extent(v2, o) = Extent(v, o) /\ v2.held[o] = v.held[o]
        BY <1>1, <3>2 DEF Extent
      <4> QED
        BY <4>1 DEF Good, Contents
    <3> QED
      BY <3>1, <3>2
  <2> QED
    BY <2>1, <2>2 DEF Contents
<1> QED
  BY <1>8, <1>9 DEF Good, v2

(* The view in which x is the only node of tree t. *)
Planted(v, t, x, e) ==
  [top |-> [o \in Trees |-> IF o = t THEN x ELSE v.top[o]],
   own |-> [m \in Nodes |-> IF m = x THEN t ELSE v.own[m]],
   at |-> [m \in Nodes |-> IF m = x THEN 1 ELSE v.at[m]],
   lo |-> [m \in Nodes |-> IF m = x THEN 1 ELSE v.lo[m]],
   hi |-> [m \in Nodes |-> IF m = x THEN 1 ELSE v.hi[m]],
   held |-> [o \in Trees |-> IF o = t THEN <<e>> ELSE v.held[o]]]

(* A new node without links is a tree of one element, if its tree was    *)
(* empty.                                                                *)
LEMMA PlantGood ==
  ASSUME NEW h, NEW v, Good(h, v), NEW t \in Trees, v.top[t] = tail, NEW x \in Nodes \ Allocated(h),
         NEW h2, IsHeap(h2), Allocated(h2) = Allocated(h) \cup {x},
         \A m \in Allocated(h) : h2[m] = h[m],
         h2[x].up = head, h2[x].idx = 0, h2[x].child[0] = tail, h2[x].child[1] = tail
  PROVE  Good(h2, Planted(v, t, x, <<h2[x].key, h2[x].val>>))
<1> DEFINE e == <<h2[x].key, h2[x].val>>
           v2 == Planted(v, t, x, e)
           A == Allocated(h)
           A2 == Allocated(h2)
<1>1. A \subseteq Nodes /\ tail \notin A /\ x # tail /\ x # head /\ x # NoTree
  BY HeapParts, SentinelsAssumption, MarksAssumption, Zenon DEF Good
<1>2. \A m \in A : m # x /\ m \in A2 /\ h2[m] = h[m]
  OBVIOUS
<1>3. /\ v2.own[x] = t /\ v2.at[x] = 1 /\ v2.lo[x] = 1 /\ v2.hi[x] = 1
      /\ \A m \in A : v2.own[m] = v.own[m] /\ v2.at[m] = v.at[m] /\ v2.lo[m] = v.lo[m] /\ v2.hi[m] = v.hi[m]
      /\ v2.top[t] = x /\ v2.held[t] = <<e>>
      /\ \A o \in Trees : o # t => v2.top[o] = v.top[o] /\ v2.held[o] = v.held[o]
  BY <1>1 DEF Planted
<1>4. \A m \in A : /\ LeftFits(h, v, m) /\ RightFits(h, v, m) /\ UpFits(h, v, m) /\ SpanFits(h, v, m)
                   /\ v.own[m] \in Trees /\ v.top[v.own[m]] \in A
  BY DEF Good, Shape, SpanFits
<1>5. \A m \in A : v.own[m] # t
  BY <1>1, <1>4
<1>6. e \in Keys \X Vals
  <2>1. h2[x].key \in Keys /\ h2[x].val \in Vals
    BY HeapParts, Zenon
  <2> QED
    BY <2>1
<1>7. x \in A2 /\ \A m \in A2 : m = x \/ m \in A
  OBVIOUS
<1> HIDE DEF v2, e, A, A2
<1>8. LeftFits(h2, v2, x) /\ RightFits(h2, v2, x) /\ UpFits(h2, v2, x) /\ SpanFits(h2, v2, x)
  <2>1. LeftFits(h2, v2, x) /\ RightFits(h2, v2, x)
    BY <1>3 DEF LeftFits, RightFits
  <2>2. UpFits(h2, v2, x)
    BY <1>3 DEF UpFits
  <2>3. SpanFits(h2, v2, x)
    BY <1>3, <1>7 DEF SpanFits, A2
  <2> QED
    BY <2>1, <2>2, <2>3
<1>9. ASSUME NEW m \in A
      PROVE  LeftFits(h2, v2, m) /\ RightFits(h2, v2, m) /\ UpFits(h2, v2, m) /\ SpanFits(h2, v2, m)
  <2>1. /\ LeftFits(h, v, m) /\ RightFits(h, v, m) /\ UpFits(h, v, m) /\ SpanFits(h, v, m)
        /\ v.own[m] \in Trees /\ v.top[v.own[m]] \in A /\ v.own[m] # t
    BY <1>4, <1>5
  <2>2. LeftFits(h2, v2, m)
    BY <1>2, <1>3, <2>1 DEF LeftFits, A, A2
  <2>3. RightFits(h2, v2, m)
    BY <1>2, <1>3, <2>1 DEF RightFits, A, A2
  <2>4. UpFits(h2, v2, m)
    BY <1>2, <1>3, <2>1 DEF UpFits, A, A2
  <2>5. SpanFits(h2, v2, m)
    BY <1>2, <1>3, <2>1 DEF SpanFits, A, A2
  <2> QED
    BY <2>2, <2>3, <2>4, <2>5
<1>10. ASSUME NEW o \in Trees PROVE TopFits(h2, v2, o)
  <2>1. CASE o = t
    BY <1>3, <1>7, <2>1 DEF TopFits, A2
  <2>2. CASE o # t
    <3>1. TopFits(h, v, o)
      BY DEF Good, Shape
    <3> QED
      BY <1>2, <1>3, <2>2, <3>1 DEF TopFits, A, A2
  <2> QED
    BY <2>1, <2>2
<1>11. Apart(h2, v2)
  <2>1. \A m, n \in A : v.own[m] = v.own[n] /\ v.at[m] = v.at[n] => m = n
    BY DEF Good, Shape, Apart, A
  <2> QED
    BY <1>3, <1>5, <1>7, <2>1 DEF Apart, A2
<1>12. Shape(h2, v2)
  BY <1>7, <1>8, <1>9, <1>10, <1>11 DEF Shape, A2
<1>13. Contents(h2, v2)
  <2>1. ASSUME NEW m \in A PROVE v2.held[v2.own[m]][v2.at[m]] = <<h2[m].key, h2[m].val>>
    <3>1. v.own[m] # t /\ h2[m] = h[m] /\ v.own[m] \in Trees
      BY <1>2, <1>4, <1>5
    <3>2. v.held[v.own[m]][v.at[m]] = <<h[m].key, h[m].val>>
      BY <3>1 DEF Good, Contents, A
    <3>3. v2.held[v.own[m]] = v.held[v.own[m]] /\ v2.own[m] = v.own[m] /\ v2.at[m] = v.at[m]
      BY <1>3, <3>1
    <3> QED
      BY <3>1, <3>2, <3>3, Zenon
  <2>2. v2.held[v2.own[x]][v2.at[x]] = <<h2[x].key, h2[x].val>>
    BY <1>3 DEF e
  <2>3. ASSUME NEW o \in Trees
        PROVE  v2.held[o] \in Seq(Keys \X Vals) /\ Len(v2.held[o]) = Extent(v2, o)
    <3>1. CASE o = t
      <4>1. Extent(v2, o) = 1 /\ v2.held[o] = <<e>>
        BY <1>1, <1>3, <3>1 DEF Extent
      <4> QED
        BY <1>6, <4>1
    <3>2. CASE o # t
      <4>1. v.held[o] \in Seq(Keys \X Vals) /\ Len(v.held[o]) = Extent(v, o)
        BY DEF Good, Contents
      <4>2. Extent(v2, o) = Extent(v, o)
        <5>1. v.top[o] \notin {tail, NoTree} => v.top[o] \in A
          BY DEF Good, Shape, TopFits, A
        <5> QED
          BY <1>3, <3>2, <5>1 DEF Extent
      <4> QED
        BY <1>3, <3>2, <4>1, <4>2
    <3> QED
      BY <3>1, <3>2
  <2> QED
    BY <1>7, <2>1, <2>2, <2>3, ZenonT(40) DEF Contents, A2
<1> QED
  BY <1>12, <1>13 DEF Good, v2, e

(* A new leaf puts its element in at its place and leaves the other      *)
(* trees.                                                                *)
LEMMA GraftGood ==
  ASSUME NEW h, NEW v, Good(h, v), NEW p \in Allocated(h), NEW i \in 0 .. 1, h[p].child[i] = tail,
         NEW h2, NEW x, Grafted(h, h2, x, p, i), IsHeap(h2),
         \A m \in Allocated(h) : h2[m].key = h[m].key /\ h2[m].val = h[m].val
  PROVE  Good(h2, Grown(v, x, p, i, <<h2[x].key, h2[x].val>>))
<1> DEFINE e  == <<h2[x].key, h2[x].val>>
           v2 == Grown(v, x, p, i, e)
           o  == v.own[p]
           q  == v.at[p]
           s  == v.held[o]
           s2 == Abstract!InsertAt(s, q + i, e)
           A  == Allocated(h)
<1>1. Shape(h2, v2)
  BY GraftShape DEF Good
<1>2. /\ A \subseteq Nodes /\ x \in Nodes /\ x \notin A /\ p \in A /\ Allocated(h2) = A \cup {x}
      /\ \A m \in A : m # x
  BY HeapParts, Zenon DEF Good, Grafted
<1>3. e \in Keys \X Vals
  <2>1. h2[x].key \in Keys /\ h2[x].val \in Vals
    BY <1>2, HeapParts, Zenon
  <2> QED
    BY <2>1
<1>4. /\ o \in Trees /\ s \in Seq(Keys \X Vals) /\ q \in 1 .. Len(s)
      /\ v.top[o] \in A /\ Len(s) = v.hi[v.top[o]]
  BY PlaceParts
<1>5. \A m \in A : /\ v.own[m] \in Trees /\ v.at[m] \in 1 .. Len(v.held[v.own[m]])
                   /\ v.held[v.own[m]][v.at[m]] = <<h2[m].key, h2[m].val>>
  BY PlaceParts
<1>6. \A m \in A : v.own[m] = o /\ v.at[m] = q => m = p
  BY DEF Good, Shape, Apart
<1> HIDE DEF v2, e, A
<1>7. /\ v2.top = v.top /\ v2.own[x] = o /\ v2.at[x] = q + i
      /\ \A m \in A : v2.own[m] = v.own[m]
      /\ v2.held[o] = s2 /\ \A t \in Trees : t # o => v2.held[t] = v.held[t]
  BY <1>2, <1>4 DEF v2, Grown
<1>8. /\ \A m \in A : v2.at[m] = v.at[m] + (IF v.own[m] = o /\ v.at[m] >= q + i THEN 1 ELSE 0)
      /\ \A m \in A : v2.hi[m] = v.hi[m] + (IF v.own[m] = o /\ v.hi[m] >= q THEN 1 ELSE 0)
  BY <1>2 DEF v2, Grown
<1>9. q + i \in 1 .. Len(s) + 1 /\ Len(s) \in Nat /\ q \in Nat /\ q + i \in Nat
  <2>1. Len(s) \in Nat
    BY <1>4, LenProperties
  <2> HIDE DEF s, q
  <2> QED
    BY <1>4, <2>1
<1>10. s2 \in Seq(Keys \X Vals) /\ PutIn(s2, s, q + i, e)
  <2> HIDE DEF s, q
  <2> QED
    BY <1>3, <1>4, <1>9, InsertAtParts, Zenon
<1>11. /\ Len(s2) = Len(s) + 1
       /\ \A j \in 1 .. Len(s) + 1 :
            s2[j] = IF j < q + i THEN s[j] ELSE IF j = q + i THEN e ELSE s[j - 1]
  BY <1>10 DEF PutIn
<1> HIDE DEF s2
<1>12. ASSUME NEW m \in A PROVE v2.held[v2.own[m]][v2.at[m]] = <<h2[m].key, h2[m].val>>
  <2>1. /\ v.own[m] \in Trees /\ v.at[m] \in 1 .. Len(v.held[v.own[m]])
        /\ v.held[v.own[m]][v.at[m]] = <<h2[m].key, h2[m].val>> /\ v2.own[m] = v.own[m]
    BY <1>5, <1>7
  <2>2. CASE v.own[m] = o
    <3> DEFINE a == v.at[m]
    <3>1. a \in 1 .. Len(s) /\ s[a] = <<h2[m].key, h2[m].val>>
      BY <2>1, <2>2, Zenon
    <3>2. v2.at[m] = IF a >= q + i THEN a + 1 ELSE a
      <4>1. v2.at[m] = a + (IF a >= q + i THEN 1 ELSE 0)
        BY <1>8, <2>2
      <4> HIDE DEF a, q
      <4> QED
        BY <1>9, <3>1, <4>1
    <3> HIDE DEF a, s, q
    <3>3. CASE a >= q + i
      <4>1. /\ a + 1 \in 1 .. Len(s) + 1 /\ ~ (a + 1 < q + i) /\ a + 1 # q + i /\ (a + 1) - 1 = a
        BY <1>9, <3>1, <3>3
      <4>2. s2[a + 1] = s[a]
        BY <1>11, <4>1
      <4> QED
        BY <1>7, <2>1, <2>2, <3>1, <3>2, <3>3, <4>2
    <3>4. CASE ~ (a >= q + i)
      <4>1. a \in 1 .. Len(s) + 1 /\ a < q + i
        BY <1>9, <3>1, <3>4
      <4>2. s2[a] = s[a]
        BY <1>11, <4>1
      <4> QED
        BY <1>7, <2>1, <2>2, <3>1, <3>2, <3>4, <4>2
    <3> QED
      BY <3>3, <3>4
  <2>3. CASE v.own[m] # o
    <3>1. v2.at[m] = v.at[m]
      <4>1. v2.at[m] = v.at[m] + 0
        BY <1>8, <2>3
      <4> QED
        BY <2>1, <4>1
    <3> QED
      BY <1>7, <2>1, <2>3, <3>1, Zenon
  <2> QED
    BY <2>2, <2>3
<1>13. v2.held[v2.own[x]][v2.at[x]] = <<h2[x].key, h2[x].val>>
  <2>1. s2[q + i] = e
    <3> HIDE DEF s, q
    <3> QED
      BY <1>9, <1>11
  <2> QED
    BY <1>7, <2>1 DEF e
<1>14. ASSUME NEW t \in Trees
       PROVE  v2.held[t] \in Seq(Keys \X Vals) /\ Len(v2.held[t]) = Extent(v2, t)
  <2>1. v.held[t] \in Seq(Keys \X Vals) /\ Len(v.held[t]) = Extent(v, t)
    BY DEF Good, Contents
  <2>2. v.top[t] \notin {tail, NoTree} => v.top[t] \in A /\ v.own[v.top[t]] = t
    BY DEF Good, Shape, TopFits, A
  <2>3. CASE t = o
    <3>1. v.top[o] # tail /\ v.top[o] # NoTree
      BY <1>2, <1>4, SentinelsAssumption, MarksAssumption
    <3>2. Extent(v2, o) = v2.hi[v.top[o]]
      BY <1>7, <3>1 DEF Extent
    <3>3. v2.hi[v.top[o]] = v.hi[v.top[o]] + (IF v.hi[v.top[o]] >= q THEN 1 ELSE 0)
      BY <1>4, <1>8, <2>2, <2>3, <3>1
    <3>4. v2.hi[v.top[o]] = Len(s) + 1
      <4> DEFINE b == v.hi[v.top[o]]
      <4>1. b \in Nat /\ b >= q /\ b = Len(s)
        BY <1>4, <1>9
      <4> HIDE DEF b, q
      <4> QED
        BY <3>3, <4>1, Zenon DEF b
    <3> HIDE DEF s
    <3> QED
      BY <1>7, <1>10, <1>11, <2>3, <3>2, <3>4
  <2>4. CASE t # o
    <3>1. Extent(v2, t) = Extent(v, t)
      <4>1. CASE v.top[t] \in {tail, NoTree}
        BY <1>7, <4>1 DEF Extent
      <4>2. CASE v.top[t] \notin {tail, NoTree}
        <5>1. v.hi[v.top[t]] \in Nat
          BY <2>2, <4>2 DEF Good, Shape, SpanFits, A
        <5>2. v2.hi[v.top[t]] = v.hi[v.top[t]] + 0
          BY <1>8, <2>2, <2>4, <4>2
        <5> QED
          BY <1>7, <4>2, <5>1, <5>2 DEF Extent
      <4> QED
        BY <4>1, <4>2
    <3> QED
      BY <1>7, <2>1, <2>4, <3>1
  <2> QED
    BY <2>3, <2>4
<1>15. Contents(h2, v2)
  BY <1>2, <1>12, <1>13, <1>14, Zenon DEF Contents
<1> QED
  BY <1>1, <1>15 DEF Good, v2, e

(* A node that leaves takes its element out and leaves the other trees. *)
LEMMA PruneGood ==
  ASSUME NEW h, NEW v, Good(h, v), NEW h2, NEW x, NEW c, Pruned(h, h2, x, c), IsHeap(h2),
         \A m \in Allocated(h2) : h2[m].key = h[m].key /\ h2[m].val = h[m].val
  PROVE  Good(h2, Shrunk(v, x, c, h[x].up = head))
<1> DEFINE v2 == Shrunk(v, x, c, h[x].up = head)
           o  == v.own[x]
           q  == v.at[x]
           s  == v.held[o]
           s2 == Abstract!RemoveAt(s, q)
           A  == Allocated(h)
<1>1. Shape(h2, v2)
  BY PruneShape DEF Good
<1>2. /\ A \subseteq Nodes /\ tail \notin A /\ x \in A /\ Allocated(h2) = A \ {x}
      /\ (h[x].child[0] = tail /\ c = h[x].child[1]) \/ (h[x].child[1] = tail /\ c = h[x].child[0])
  BY HeapParts DEF Good, Pruned
<1>3. /\ o \in Trees /\ s \in Seq(Keys \X Vals) /\ q \in 1 .. Len(s)
      /\ v.top[o] \in A /\ Len(s) = v.hi[v.top[o]]
  BY <1>2, PlaceParts
<1>4. \A m \in A : /\ v.own[m] \in Trees /\ v.at[m] \in 1 .. Len(v.held[v.own[m]])
                   /\ v.held[v.own[m]][v.at[m]] = <<h[m].key, h[m].val>>
  BY PlaceParts
<1>5. \A m \in A : v.own[m] = o /\ v.at[m] = q => m = x
  BY <1>2 DEF Good, Shape, Apart
<1>6. \A m \in A : /\ v.lo[m] \in Nat /\ v.at[m] \in Nat /\ v.hi[m] \in Nat
                   /\ 1 <= v.lo[m] /\ v.lo[m] <= v.at[m] /\ v.at[m] <= v.hi[m]
  BY DEF Good, Shape, SpanFits
<1> HIDE DEF v2, A
<1>7. /\ v2.own = v.own
      /\ v2.held[o] = s2 /\ \A t \in Trees : t # o => v2.held[t] = v.held[t]
      /\ h[x].up = head => v2.top[o] = c
      /\ h[x].up # head => v2.top[o] = v.top[o]
      /\ \A t \in Trees : t # o => v2.top[t] = v.top[t]
  BY <1>3 DEF v2, Shrunk
<1>8. /\ \A m \in A : v2.at[m] = v.at[m] - (IF v.own[m] = o /\ v.at[m] > q THEN 1 ELSE 0)
      /\ \A m \in A : v2.hi[m] = v.hi[m] - (IF v.own[m] = o /\ v.hi[m] >= q THEN 1 ELSE 0)
  BY <1>2 DEF v2, Shrunk
<1>9. Len(s) \in Nat /\ q \in Nat
  <2>1. Len(s) \in Nat
    BY <1>3, LenProperties
  <2> HIDE DEF s, q
  <2> QED
    BY <1>3, <2>1
<1>10. s2 \in Seq(Keys \X Vals) /\ TakenOut(s2, s, q)
  <2> HIDE DEF s, q
  <2> QED
    BY <1>3, <1>9, RemoveAtParts
<1>11. /\ Len(s2) = Len(s) - 1
       /\ \A j \in 1 .. Len(s) - 1 : s2[j] = IF j < q THEN s[j] ELSE s[j + 1]
  BY <1>10 DEF TakenOut
<1> HIDE DEF s2
<1>12. ASSUME NEW m \in A \ {x} PROVE v2.held[v2.own[m]][v2.at[m]] = <<h2[m].key, h2[m].val>>
  <2>1. /\ v.own[m] \in Trees /\ v.at[m] \in 1 .. Len(v.held[v.own[m]])
        /\ v.held[v.own[m]][v.at[m]] = <<h2[m].key, h2[m].val>> /\ v2.own[m] = v.own[m]
    BY <1>2, <1>4, <1>7
  <2>2. CASE v.own[m] = o
    <3> DEFINE a == v.at[m]
    <3>1. a \in 1 .. Len(s) /\ s[a] = <<h2[m].key, h2[m].val>> /\ a # q
      BY <1>5, <2>1, <2>2, Zenon
    <3>2. v2.at[m] = IF a > q THEN a - 1 ELSE a
      <4>1. v2.at[m] = a - (IF a > q THEN 1 ELSE 0)
        BY <1>8, <2>2
      <4> HIDE DEF a, q
      <4> QED
        BY <1>9, <3>1, <4>1
    <3> HIDE DEF a, s, q
    <3>3. CASE a > q
      <4>1. /\ a - 1 \in 1 .. Len(s) - 1 /\ ~ (a - 1 < q) /\ (a - 1) + 1 = a
        BY <1>3, <1>9, <3>1, <3>3
      <4>2. s2[a - 1] = s[a]
        BY <1>11, <4>1
      <4> QED
        BY <1>7, <2>1, <2>2, <3>1, <3>2, <3>3, <4>2
    <3>4. CASE ~ (a > q)
      <4>1. a \in 1 .. Len(s) - 1 /\ a < q
        BY <1>3, <1>9, <3>1, <3>4
      <4>2. s2[a] = s[a]
        BY <1>11, <4>1
      <4> QED
        BY <1>7, <2>1, <2>2, <3>1, <3>2, <3>4, <4>2
    <3> QED
      BY <3>3, <3>4
  <2>3. CASE v.own[m] # o
    <3>1. v2.at[m] = v.at[m]
      <4>1. v2.at[m] = v.at[m] - 0
        BY <1>8, <2>3
      <4> QED
        BY <2>1, <4>1
    <3> QED
      BY <1>7, <2>1, <2>3, <3>1
  <2> QED
    BY <2>2, <2>3
<1>13. Extent(v2, o) = Len(s) - 1
  <2>1. CASE h[x].up # head
    <3>1. v.top[o] # tail /\ v.top[o] # NoTree
      BY <1>2, <1>3, SentinelsAssumption, MarksAssumption
    <3>2. v.own[v.top[o]] = o
      BY <1>3, <3>1 DEF Good, Shape, TopFits
    <3>3. Extent(v2, o) = v2.hi[v.top[o]]
      BY <1>7, <2>1, <3>1 DEF Extent
    <3>4. v2.hi[v.top[o]] = v.hi[v.top[o]] - (IF v.hi[v.top[o]] >= q THEN 1 ELSE 0)
      BY <1>3, <1>8, <3>2
    <3> DEFINE b == v.hi[v.top[o]]
    <3>5. b \in Nat /\ b >= q /\ b = Len(s)
      BY <1>3, <1>9
    <3> HIDE DEF q, s
    <3> QED
      BY <3>3, <3>4, <3>5
  <2>2. CASE h[x].up = head
    <3>1. v.top[o] = x /\ v.lo[x] = 1
      <4>1. v.top[o] = x
        BY <1>2, <2>2, ShapeParts DEF Good, A
      <4>2. x # tail /\ x # NoTree
        BY <1>2, MarksAssumption
      <4> QED
        BY <1>3, <4>1, <4>2 DEF Good, Shape, TopFits
    <3>2. Len(s) = v.hi[x]
      BY <1>3, <3>1
    <3>3. h[x].child[1] = tail => v.hi[x] = q
      BY <1>2, ShapeParts DEF Good, A
    <3>4. h[x].child[0] = tail => v.lo[x] = q
      BY <1>2, ShapeParts DEF Good, A
    <3>5. CASE c = tail
      <4>1. Extent(v2, o) = 0
        BY <1>7, <2>2, <3>5 DEF Extent
      <4>2. v.hi[x] = 1
        BY <1>2, <3>1, <3>3, <3>4, <3>5
      <4> QED
        BY <3>2, <4>1, <4>2
    <3>6. CASE c # tail
      <4>1. /\ c \in A /\ v.own[c] = o
            /\ h[x].child[0] = tail => v.hi[c] = v.hi[x]
            /\ h[x].child[1] = tail => v.hi[c] = q - 1
        <5>1. CASE h[x].child[0] = tail /\ c = h[x].child[1]
          BY <1>2, <3>6, <5>1, RightParts DEF Good, A
        <5>2. CASE h[x].child[1] = tail /\ c = h[x].child[0]
          BY <1>2, <3>6, <5>2, LeftParts DEF Good, A
        <5> QED
          BY <1>2, <3>6, <5>1, <5>2
      <4>2. c # NoTree
        BY <1>2, <4>1, MarksAssumption
      <4>3. Extent(v2, o) = v2.hi[c]
        BY <1>7, <2>2, <3>6, <4>2 DEF Extent
      <4>4. v2.hi[c] = v.hi[c] - (IF v.hi[c] >= q THEN 1 ELSE 0)
        BY <1>8, <4>1
      <4> DEFINE a == v.hi[x]
                 b == v.hi[c]
      <4>5. a \in Nat /\ b \in Nat /\ a >= q
        BY <1>2, <1>6, <4>1
      <4>6. b = a \/ (b = q - 1 /\ a = q)
        BY <1>2, <3>3, <4>1
      <4> HIDE DEF a, b, q, s
      <4>7. b - (IF b >= q THEN 1 ELSE 0) = a - 1
        BY <1>9, <4>5, <4>6
      <4> QED
        BY <3>2, <4>3, <4>4, <4>7 DEF a, b
    <3> QED
      BY <3>5, <3>6
  <2> QED
    BY <2>1, <2>2
<1>14. ASSUME NEW t \in Trees
       PROVE  v2.held[t] \in Seq(Keys \X Vals) /\ Len(v2.held[t]) = Extent(v2, t)
  <2>1. v.held[t] \in Seq(Keys \X Vals) /\ Len(v.held[t]) = Extent(v, t)
    BY DEF Good, Contents
  <2>2. v.top[t] \notin {tail, NoTree} => v.top[t] \in A /\ v.own[v.top[t]] = t
    BY DEF Good, Shape, TopFits, A
  <2>3. CASE t = o
    <3> HIDE DEF s
    <3> QED
      BY <1>7, <1>10, <1>11, <1>13, <2>3
  <2>4. CASE t # o
    <3>1. Extent(v2, t) = Extent(v, t)
      <4>1. CASE v.top[t] \in {tail, NoTree}
        BY <1>7, <2>4, <4>1 DEF Extent
      <4>2. CASE v.top[t] \notin {tail, NoTree}
        <5>1. v.hi[v.top[t]] \in Nat
          BY <1>6, <2>2, <4>2
        <5>2. v2.hi[v.top[t]] = v.hi[v.top[t]] - 0
          BY <1>8, <2>2, <2>4, <4>2
        <5> QED
          BY <1>7, <2>4, <4>2, <5>1, <5>2 DEF Extent
      <4> QED
        BY <4>1, <4>2
    <3> QED
      BY <1>7, <2>1, <2>4, <3>1
  <2> QED
    BY <2>3, <2>4
<1>15. Contents(h2, v2)
  <2> HIDE DEF s, o, q
  <2> QED
    BY <1>2, <1>12, <1>14 DEF Contents
<1> QED
  BY <1>1, <1>15 DEF Good, v2

-----------------------------------------------------------------------------
(* Balancing. *)

(* A rotation is a rebalancing. *)
LEMMA TurnRebalances ==
  ASSUME NEW h, NEW h2, NEW v, NEW gp, NEW p, NEW n, NEW c, NEW i, RotatesTo(h, h2, v, gp, p, n, c, i)
  PROVE  Rebalanced(h, h2, v, v.own[p])
BY DEF RotatesTo, Rebalanced

(* One rebalancing after another is a rebalancing. *)
LEMMA RebalancedTrans ==
  ASSUME NEW h, NEW h2, NEW h3, NEW v, NEW o, IsHeap(h2), SameElements(h, h2),
         NEW v2, SameTrees(v, v2, o), Rebalanced(h2, h3, v2, o)
  PROVE  Rebalanced(h, h3, v, o)
<1>1. PICK v3 : Shape(h3, v3) /\ SameTrees(v2, v3, o)
  BY DEF Rebalanced
<1>2. SameTrees(v, v3, o)
  BY <1>1, SameTreesTrans
<1>3. IsHeap(h3) /\ SameElements(h, h3)
  BY DEF Rebalanced, SameElements
<1> QED
  BY <1>1, <1>2, <1>3 DEF Rebalanced

(* rotate_return, with the node's parent and grandparent. *)
LEMMA ReturnTurns ==
  ASSUME NEW h, IsHeap(h), NEW v, Shape(h, v), NEW n \in Allocated(h), h[n].up # head
  PROVE  LET p == h[n].up
             i == h[n].idx
         IN  RotatesTo(h, rotate_return(h, h[p].up, p, n), v, h[p].up, p, n, h[n].child[1 - i], i)
<1> DEFINE p == h[n].up
           i == h[n].idx
<1>1. p \in Allocated(h) /\ h[p].child[i] = n /\ i \in 0 .. 1
  BY ShapeParts
<1>2. n # tail
  <2>1. tail \notin Allocated(h)
    BY HeapParts
  <2> QED
    BY <2>1
<1>3. rotate_return(h, h[p].up, p, n) = rotate(h, h[p].up, p, n, i)
  BY DEF rotate_return
<1> HIDE DEF p, i
<1>4. RotatesTo(h, rotate(h, h[p].up, p, n, i), v, h[p].up, p, n, h[n].child[1 - i], i)
  <2>1. h[p].child[i] # tail
    BY <1>1, <1>2
  <2>2. LET m == h[p].child[i]
        IN  RotatesTo(h, rotate(h, h[p].up, p, m, i), v, h[p].up, p, m, h[m].child[1 - i], i)
    BY <1>1, <2>1, RotateShape
  <2> QED
    BY <1>1, <2>2
<1> QED
  BY <1>3, <1>4 DEF p, i

(* rotate_borrow, with the node's parent, grandparent and sibling. *)
LEMMA BorrowTurns ==
  ASSUME NEW h, IsHeap(h), NEW v, Shape(h, v), NEW n \in Allocated(h), h[n].up # head,
         sibling(h, n) # tail
  PROVE  LET p == h[n].up
             i == h[n].idx
             m == sibling(h, n)
         IN  RotatesTo(h, rotate_borrow(h, h[p].up, p, n, m), v, h[p].up, p, m, h[m].child[i], 1 - i)
<1> DEFINE p == h[n].up
           i == h[n].idx
           m == sibling(h, n)
<1>1. p \in Allocated(h) /\ i \in 0 .. 1
  BY ShapeParts
<1>2. m = h[p].child[1 - i] /\ m # tail
  BY DEF sibling
<1>3. rotate_borrow(h, h[p].up, p, n, m) = rotate(h, h[p].up, p, m, 1 - i)
  BY DEF rotate_borrow
<1> HIDE DEF p, i, m
<1>4. 1 - i \in 0 .. 1 /\ 1 - (1 - i) = i
  BY <1>1
<1> DEFINE j == 1 - i
<1>5. j \in 0 .. 1 /\ 1 - j = i /\ m = h[p].child[j]
  BY <1>2, <1>4
<1> HIDE DEF j
<1>6. RotatesTo(h, rotate(h, h[p].up, p, m, j), v, h[p].up, p, m, h[m].child[1 - j], j)
  BY <1>1, <1>2, <1>5, RotateShape
<1>7. RotatesTo(h, rotate(h, h[p].up, p, m, j), v, h[p].up, p, m, h[m].child[i], j)
  BY <1>5, <1>6
<1> QED
  BY <1>3, <1>7 DEF p, i, m, j

(* Painting keeps the trees. *)
LEMMA PaintRebalances ==
  ASSUME NEW h, IsHeap(h), NEW v, Shape(h, v), NEW n, NEW o
  PROVE  /\ n \in Allocated(h) => /\ Shape(set_red(h, n), v) /\ Rebalanced(h, set_red(h, n), v, o)
                                  /\ SameLinks(h, set_red(h, n))
         /\ n \in Places(h) => /\ Shape(set_black(h, n), v) /\ Rebalanced(h, set_black(h, n), v, o)
                               /\ SameLinks(h, set_black(h, n))
<1>1. ASSUME n \in Allocated(h)
      PROVE  /\ Shape(set_red(h, n), v) /\ Rebalanced(h, set_red(h, n), v, o)
             /\ SameLinks(h, set_red(h, n))
  <2> DEFINE h2 == set_red(h, n)
  <2>1. IsHeap(h2) /\ SameElements(h, h2) /\ SameLinks(h, h2)
    BY <1>1, ColourLinks
  <2> HIDE DEF h2
  <2>2. Shape(h2, v) /\ Rebalanced(h, h2, v, o)
    BY <2>1, Relinked
  <2> QED
    BY <2>1, <2>2 DEF h2
<1>2. ASSUME n \in Places(h)
      PROVE  /\ Shape(set_black(h, n), v) /\ Rebalanced(h, set_black(h, n), v, o)
             /\ SameLinks(h, set_black(h, n))
  <2> DEFINE h2 == set_black(h, n)
  <2>1. IsHeap(h2) /\ SameElements(h, h2) /\ SameLinks(h, h2)
    <3>1. CASE n \in Allocated(h)
      BY <3>1, ColourLinks
    <3>2. CASE n = tail
      <4>1. h2 = h
        BY <3>2, BlackTail
      <4> HIDE DEF h2
      <4> QED
        BY <4>1 DEF SameElements, SameLinks
    <3> QED
      BY <1>2, <3>1, <3>2 DEF Places
  <2> HIDE DEF h2
  <2>2. Shape(h2, v) /\ Rebalanced(h, h2, v, o)
    BY <2>1, Relinked
  <2> QED
    BY <2>1, <2>2 DEF h2
<1> QED
  BY <1>1, <1>2

(* rbtree_insert_balance with a red uncle only repaints. *)
LEMMA SplitRebalances ==
  ASSUME NEW h, IsHeap(h), NEW v, Shape(h, v), NEW n \in Allocated(h), NEW o,
         h[n].up # head, h[h[n].up].up # head
  PROVE  Rebalanced(h, Split(h, n), v, o)
<1> DEFINE p  == h[n].up
           gp == h[p].up
           u  == uncle(h, n)
           h1 == set_black(h, u)
           h2 == set_black(h1, p)
           h3 == set_red(h2, gp)
<1>1. p \in Allocated(h)
  BY ShapeParts
<1>2. gp \in Allocated(h) /\ h[p].idx \in 0 .. 1
  BY <1>1, ShapeParts
<1>3. u \in Places(h)
  <2>1. u = h[gp].child[1 - h[p].idx]
    BY DEF uncle, sibling
  <2>2. 1 - h[p].idx \in {0, 1}
    BY <1>2
  <2>3. h[gp].child[0] \in Places(h) /\ h[gp].child[1] \in Places(h)
    BY <1>2, ShapeParts DEF Places
  <2> QED
    BY <2>1, <2>2, <2>3
<1> HIDE DEF p, gp, u, h1
<1>4. Shape(h1, v) /\ Rebalanced(h, h1, v, o)
  BY <1>3, PaintRebalances DEF h1
<1>5. IsHeap(h1) /\ SameElements(h, h1) /\ p \in Places(h1) /\ gp \in Allocated(h1)
  BY <1>1, <1>2, <1>4 DEF Rebalanced, SameElements, Places
<1> HIDE DEF h2
<1>6. Shape(h2, v) /\ Rebalanced(h1, h2, v, o)
  BY <1>4, <1>5, PaintRebalances DEF h2
<1>7. IsHeap(h2) /\ SameElements(h1, h2) /\ gp \in Allocated(h2) /\ SameElements(h, h2)
  BY <1>5, <1>6 DEF Rebalanced, SameElements
<1> HIDE DEF h3
<1>8. Rebalanced(h2, h3, v, o)
  BY <1>6, <1>7, PaintRebalances DEF h3
<1>9. SameTrees(v, v, o)
  BY DEF SameTrees
<1>10. Rebalanced(h, h3, v, o)
  BY <1>7, <1>8, <1>9, RebalancedTrans
<1> QED
  BY <1>10 DEF Split, h3, h2, h1, u, gp, p, parent

(* rbtree_insert_balance with a black uncle rotates once or twice and    *)
(* repaints, which keeps the trees.                                      *)
LEMMA RotatedRebalances ==
  ASSUME NEW h, IsHeap(h), NEW v, Shape(h, v), NEW n \in Allocated(h),
         h[n].up # head, h[h[n].up].up # head
  PROVE  Rebalanced(h, Rotated(h, n), v, v.own[n])
<1> DEFINE p   == h[n].up
           gp  == h[p].up
           ggp == h[gp].up
           o   == v.own[n]
           h1  == set_red(h, gp)
<1>1. /\ p \in Allocated(h) /\ v.own[p] = o /\ h[p].child[h[n].idx] = n
  BY UpParts
<1>2. /\ gp \in Allocated(h) /\ v.own[gp] = o /\ gp # p
  BY <1>1, UpParts
<1>3. Shape(h1, v) /\ Rebalanced(h, h1, v, o) /\ SameLinks(h, h1)
  BY <1>2, PaintRebalances
<1> HIDE DEF h1
<1>4. /\ IsHeap(h1) /\ SameElements(h, h1) /\ Allocated(h1) = Allocated(h)
  BY <1>3 DEF Rebalanced, SameElements
<1> HIDE DEF p, gp, ggp, o
<1>5. /\ h1[n].up = p /\ h1[p].up = gp /\ h1[gp].up = ggp /\ p # head /\ gp # head
      /\ h1[n].idx = h[n].idx /\ h1[p].idx = h[p].idx
  <2>1. h[n].up = p /\ h[p].up = gp /\ h[gp].up = ggp /\ p # head /\ gp # head
    BY DEF p, gp, ggp
  <2> QED
    BY <1>1, <1>2, <1>3, <2>1 DEF SameLinks
<1>6. SameTrees(v, v, o)
  BY DEF SameTrees
<1>7. CASE h[n].idx = h[p].idx
  <2> DEFINE h2 == rotate_return(h1, ggp, gp, p)
             h3 == set_black(h2, p)
  <2>1. \E c, i : RotatesTo(h1, h2, v, ggp, gp, p, c, i)
    <3>1. p \in Allocated(h1) /\ h1[p].up # head
      BY <1>1, <1>4, <1>5
    <3>2. RotatesTo(h1, rotate_return(h1, h1[h1[p].up].up, h1[p].up, p), v, h1[h1[p].up].up,
                    h1[p].up, p, h1[p].child[1 - h1[p].idx], h1[p].idx)
      BY <1>3, <1>4, <3>1, ReturnTurns
    <3>3. h1[h1[p].up].up = ggp /\ h1[p].up = gp
      BY <1>5
    <3>4. RotatesTo(h1, h2, v, ggp, gp, p, h1[p].child[1 - h1[p].idx], h1[p].idx)
      BY <3>2, <3>3
    <3> HIDE DEF h2
    <3> QED
      BY <3>4
  <2> HIDE DEF h2
  <2>2. Rebalanced(h1, h2, v, o)
    BY <1>2, <2>1, TurnRebalances
  <2>3. PICK v2 : Shape(h2, v2) /\ SameTrees(v, v2, o)
    BY <2>2 DEF Rebalanced
  <2>4. IsHeap(h2) /\ SameElements(h, h2) /\ p \in Places(h2)
    BY <1>1, <1>4, <2>2 DEF Rebalanced, SameElements, Places
  <2> HIDE DEF h3
  <2>5. Rebalanced(h2, h3, v2, o)
    BY <2>3, <2>4, PaintRebalances DEF h3
  <2>6. Rebalanced(h, h3, v, o)
    BY <2>3, <2>4, <2>5, RebalancedTrans
  <2>7. h3 = Rotated(h, n)
    BY <1>7 DEF Rotated, parent, h3, h2, h1, p, gp, ggp
  <2> QED
    BY <2>6, <2>7 DEF o
<1>8. CASE h[n].idx # h[p].idx
  <2> DEFINE h2 == rotate_return(h1, gp, p, n)
             h3 == rotate_return(h2, ggp, gp, n)
             h4 == set_black(h3, n)
  <2>1. \E c, i : RotatesTo(h1, h2, v, gp, p, n, c, i)
    <3>1. n \in Allocated(h1) /\ h1[n].up # head
      BY <1>4, <1>5
    <3>2. RotatesTo(h1, rotate_return(h1, h1[h1[n].up].up, h1[n].up, n), v, h1[h1[n].up].up,
                    h1[n].up, n, h1[n].child[1 - h1[n].idx], h1[n].idx)
      BY <1>3, <1>4, <3>1, ReturnTurns
    <3>3. h1[h1[n].up].up = gp /\ h1[n].up = p
      BY <1>5
    <3>4. RotatesTo(h1, h2, v, gp, p, n, h1[n].child[1 - h1[n].idx], h1[n].idx)
      BY <3>2, <3>3
    <3> HIDE DEF h2
    <3> QED
      BY <3>4
  <2> HIDE DEF h2
  <2>2. /\ Rebalanced(h1, h2, v, o) /\ h2[n].up = gp /\ h2[gp].up = ggp
    <3>1. PICK c, i : RotatesTo(h1, h2, v, gp, p, n, c, i)
      BY <2>1
    <3>2. Rebalanced(h1, h2, v, o)
      BY <1>1, <3>1, TurnRebalances
    <3>3. h2[n].up = gp /\ h2[gp].up = h1[gp].up
      BY <1>5, <3>1 DEF RotatesTo, RotatedLinks
    <3> QED
      BY <1>5, <3>2, <3>3
  <2>3. PICK v2 : Shape(h2, v2) /\ SameTrees(v, v2, o)
    BY <2>2 DEF Rebalanced
  <2>4. IsHeap(h2) /\ SameElements(h, h2) /\ n \in Allocated(h2)
    BY <1>4, <2>2 DEF Rebalanced, SameElements
  <2>5. \E c, i : RotatesTo(h2, h3, v2, ggp, gp, n, c, i)
    <3>1. h2[n].up # head
      BY <1>5, <2>2
    <3>2. RotatesTo(h2, rotate_return(h2, h2[h2[n].up].up, h2[n].up, n), v2, h2[h2[n].up].up,
                    h2[n].up, n, h2[n].child[1 - h2[n].idx], h2[n].idx)
      BY <2>3, <2>4, <3>1, ReturnTurns
    <3>3. h2[h2[n].up].up = ggp /\ h2[n].up = gp
      BY <2>2
    <3>4. RotatesTo(h2, h3, v2, ggp, gp, n, h2[n].child[1 - h2[n].idx], h2[n].idx)
      BY <3>2, <3>3
    <3> HIDE DEF h3
    <3> QED
      BY <3>4
  <2> HIDE DEF h3
  <2>6. v2.own[gp] = o
    BY <1>2, <2>3 DEF SameTrees
  <2>7. Rebalanced(h2, h3, v2, o)
    BY <2>5, <2>6, TurnRebalances
  <2>8. PICK v3 : Shape(h3, v3) /\ SameTrees(v2, v3, o)
    BY <2>7 DEF Rebalanced
  <2>9. IsHeap(h3) /\ SameElements(h, h3) /\ n \in Places(h3)
    BY <2>4, <2>7 DEF Rebalanced, SameElements, Places
  <2>10. SameTrees(v, v3, o)
    BY <2>3, <2>8, SameTreesTrans
  <2> HIDE DEF h4
  <2>11. Rebalanced(h3, h4, v3, o)
    BY <2>8, <2>9, PaintRebalances DEF h4
  <2>12. Rebalanced(h, h4, v, o)
    BY <2>9, <2>10, <2>11, RebalancedTrans
  <2>13. h4 = Rotated(h, n)
    BY <1>8 DEF Rotated, parent, h4, h3, h2, h1, p, gp, ggp
  <2> QED
    BY <2>12, <2>13 DEF o
<1> QED
  BY <1>7, <1>8

(* The links of node x are the same. *)
Untouched(h, h2, x) == h2[x].up = h[x].up /\ h2[x].idx = h[x].idx /\ h2[x].child = h[x].child

(* Node x is below n, or is n. *)
Under(v, x, n) == v.own[x] = v.own[n] /\ v.lo[n] <= v.at[x] /\ v.at[x] <= v.hi[n]

(* The span of a child is within that of its parent. *)
LEMMA ChildSpan ==
  ASSUME NEW h, IsHeap(h), NEW v, Shape(h, v), NEW n \in Allocated(h), NEW i \in 0 .. 1,
         h[n].child[i] # tail
  PROVE  LET c == h[n].child[i]
         IN  /\ c \in Allocated(h) /\ v.own[c] = v.own[n] /\ h[c].up = n /\ h[c].idx = i
             /\ v.lo[n] <= v.lo[c] /\ v.hi[c] <= v.hi[n]
<1> DEFINE c == h[n].child[i]
<1>1. /\ v.lo[n] \in Nat /\ v.at[n] \in Nat /\ v.hi[n] \in Nat
      /\ v.lo[n] <= v.at[n] /\ v.at[n] <= v.hi[n]
  BY ShapeParts
<1>2. CASE i = 0
  <2>1. /\ c \in Allocated(h) /\ v.own[c] = v.own[n] /\ h[c].up = n /\ h[c].idx = i
        /\ v.lo[c] = v.lo[n] /\ v.hi[c] = v.at[n] - 1
    BY <1>2, LeftParts
  <2> HIDE DEF c
  <2> QED
    BY <1>1, <2>1 DEF c
<1>3. CASE i = 1
  <2>1. /\ c \in Allocated(h) /\ v.own[c] = v.own[n] /\ h[c].up = n /\ h[c].idx = i
        /\ v.lo[c] = v.at[n] + 1 /\ v.hi[c] = v.hi[n]
    BY <1>3, RightParts
  <2> HIDE DEF c
  <2> QED
    BY <1>1, <2>1 DEF c
<1> QED
  BY <1>2, <1>3

(* What is below a node is not near its sibling and not above. *)
Beside(h, v, n, x) ==
  LET p   == h[n].up
      sib == sibling(h, n)
  IN  /\ p \in Allocated(h) /\ v.own[p] = v.own[n] /\ x # p /\ x # h[p].up
      /\ sib # tail => /\ sib \in Allocated(h) /\ v.own[sib] = v.own[n]
                       /\ h[sib].up = p /\ h[sib].idx = 1 - h[n].idx
                       /\ x # sib
                       /\ \A i \in 0 .. 1 : h[sib].child[i] # tail =>
                            /\ x # h[sib].child[i]
                            /\ \A j \in 0 .. 1 : x # h[h[sib].child[i]].child[j]

(* Nothing below a node is its parent, its grandparent, its sibling or   *)
(* one of the two generations below the sibling.                         *)
LEMMA SiblingApart ==
  ASSUME NEW h, IsHeap(h), NEW v, Shape(h, v), NEW n \in Allocated(h), h[n].up # head,
         NEW x \in Allocated(h), Under(v, x, n)
  PROVE  Beside(h, v, n, x)
<1> DEFINE p   == h[n].up
           gp  == h[p].up
           g   == h[n].idx
           sib == sibling(h, n)
           A   == Allocated(h)
<1>1. tail \notin A /\ head \notin A /\ x \in A
  BY HeapParts, Zenon
<1>2. /\ p \in A /\ v.own[p] = v.own[n] /\ v.lo[p] <= v.lo[n] /\ v.hi[n] <= v.hi[p]
      /\ v.at[p] \notin v.lo[n] .. v.hi[n]
      /\ g = 0 => v.hi[n] = v.at[p] - 1
      /\ g = 1 => v.lo[n] = v.at[p] + 1
  BY UpParts
<1>3. /\ v.lo[n] \in Nat /\ v.hi[n] \in Nat /\ g \in 0 .. 1
  BY ShapeParts
<1>4. v.lo[p] \in Nat /\ v.at[p] \in Nat /\ v.hi[p] \in Nat /\ gp \in A \cup {head}
  BY <1>2, ShapeParts
<1>5. v.at[x] \in Nat /\ v.own[x] = v.own[n] /\ v.lo[n] <= v.at[x] /\ v.at[x] <= v.hi[n]
  BY ShapeParts DEF Under
<1>6. x # p
  BY <1>2, <1>3, <1>5
<1>7. x # gp
  <2>1. CASE gp = head
    BY <1>1, <2>1
  <2>2. CASE gp # head
    <3>1. v.at[gp] \notin v.lo[p] .. v.hi[p]
      BY <1>2, <2>2, UpParts
    <3>2. v.at[x] \in v.lo[p] .. v.hi[p]
      BY <1>2, <1>3, <1>4, <1>5
    <3> QED
      BY <3>1, <3>2
  <2> QED
    BY <2>1, <2>2
<1>8. ASSUME sib # tail
      PROVE  /\ sib \in A /\ v.own[sib] = v.own[n] /\ h[sib].up = p /\ h[sib].idx = 1 - g
             /\ \A y \in A : v.at[y] \in v.lo[sib] .. v.hi[sib] => y # x
             /\ v.at[sib] \in v.lo[sib] .. v.hi[sib]
             /\ v.lo[sib] \in Nat /\ v.hi[sib] \in Nat
  <2>1. CASE g = 0
    <3>1. sib = h[p].child[1]
      BY <2>1 DEF sibling
    <3>2. /\ sib \in A /\ v.own[sib] = v.own[p] /\ h[sib].up = p /\ h[sib].idx = 1
          /\ v.lo[sib] = v.at[p] + 1
      BY <1>2, <1>8, <3>1, RightParts
    <3>3. /\ v.lo[sib] \in Nat /\ v.at[sib] \in Nat /\ v.hi[sib] \in Nat
          /\ v.lo[sib] <= v.at[sib] /\ v.at[sib] <= v.hi[sib]
      BY <3>2, ShapeParts
    <3> HIDE DEF sib
    <3>4. v.hi[n] < v.lo[sib]
      BY <1>2, <1>3, <1>4, <2>1, <3>2
    <3>5. \A y \in A : v.at[y] \in v.lo[sib] .. v.hi[sib] => y # x
      BY <1>3, <1>5, <3>3, <3>4
    <3> QED
      BY <1>2, <2>1, <3>2, <3>3, <3>5
  <2>2. CASE g = 1
    <3>1. sib = h[p].child[0]
      BY <2>2 DEF sibling
    <3>2. /\ sib \in A /\ v.own[sib] = v.own[p] /\ h[sib].up = p /\ h[sib].idx = 0
          /\ v.hi[sib] = v.at[p] - 1
      BY <1>2, <1>8, <3>1, LeftParts
    <3>3. /\ v.lo[sib] \in Nat /\ v.at[sib] \in Nat /\ v.hi[sib] \in Nat
          /\ v.lo[sib] <= v.at[sib] /\ v.at[sib] <= v.hi[sib]
      BY <3>2, ShapeParts
    <3> HIDE DEF sib
    <3>4. v.hi[sib] < v.lo[n]
      BY <1>2, <1>3, <1>4, <2>2, <3>2
    <3>5. \A y \in A : v.at[y] \in v.lo[sib] .. v.hi[sib] => y # x
      BY <1>3, <1>5, <3>3, <3>4
    <3> QED
      BY <1>2, <2>2, <3>2, <3>3, <3>5
  <2> QED
    BY <1>3, <2>1, <2>2
<1> HIDE DEF sib
<1>9. ASSUME sib # tail, NEW i \in 0 .. 1, h[sib].child[i] # tail
      PROVE  x # h[sib].child[i] /\ \A j \in 0 .. 1 : x # h[h[sib].child[i]].child[j]
  <2> DEFINE c == h[sib].child[i]
  <2>1. /\ c \in A /\ v.lo[sib] <= v.lo[c] /\ v.hi[c] <= v.hi[sib]
    BY <1>8, <1>9, ChildSpan
  <2>2. /\ v.lo[c] \in Nat /\ v.at[c] \in Nat /\ v.hi[c] \in Nat
        /\ v.lo[c] <= v.at[c] /\ v.at[c] <= v.hi[c]
    BY <2>1, ShapeParts
  <2> HIDE DEF c
  <2>3. x # c
    BY <1>8, <1>9, <2>1, <2>2
  <2>4. ASSUME NEW j \in 0 .. 1 PROVE x # h[c].child[j]
    <3>1. CASE h[c].child[j] = tail
      BY <1>1, <3>1
    <3>2. CASE h[c].child[j] # tail
      <4> DEFINE d == h[c].child[j]
      <4>1. d \in A /\ v.lo[c] <= v.lo[d] /\ v.hi[d] <= v.hi[c]
        BY <2>1, <3>2, ChildSpan
      <4>2. /\ v.lo[d] \in Nat /\ v.at[d] \in Nat /\ v.hi[d] \in Nat
            /\ v.lo[d] <= v.at[d] /\ v.at[d] <= v.hi[d]
        BY <4>1, ShapeParts
      <4> HIDE DEF d
      <4> QED
        BY <1>8, <1>9, <2>1, <2>2, <4>1, <4>2 DEF d
    <3> QED
      BY <3>1, <3>2
  <2> QED
    BY <2>3, <2>4 DEF c
<1>10. sib # tail => x # sib
  BY <1>8
<1> QED
  BY <1>2, <1>6, <1>7, <1>8, <1>9, <1>10 DEF Beside, sib

(* The last step of rbtree_delete_balance keeps the trees and the links  *)
(* of every node below the one it is for: the node to discard keeps the  *)
(* parent that rbtree_iter_discard read.                                 *)
LEMMA BorrowedRebalances ==
  ASSUME NEW h, IsHeap(h), NEW v, Shape(h, v), NEW n \in Allocated(h),
         h[n].up # head, sibling(h, n) # tail, NEW x \in Allocated(h), Under(v, x, n)
  PROVE  Rebalanced(h, Borrowed(h, n), v, v.own[n]) /\ Untouched(h, Borrowed(h, n), x)
<1> DEFINE p    == h[n].up
           gp   == h[p].up
           g    == h[n].idx
           sib  == sibling(h, n)
           near == h[sib].child[g]
           far  == h[sib].child[1 - g]
           o    == v.own[n]
           h1   == rotate_borrow(h, gp, p, n, sib)
           A    == Allocated(h)
<1>1. Beside(h, v, n, x)
  BY SiblingApart
<1>2. /\ p \in A /\ v.own[p] = o /\ x # p /\ x # gp /\ x # sib /\ sib # tail
      /\ sib \in A /\ v.own[sib] = o /\ h[sib].up = p /\ h[sib].idx = 1 - g
  BY <1>1 DEF Beside
<1>3. /\ g \in 0 .. 1 /\ 1 - g \in 0 .. 1 /\ tail \notin A /\ head \notin A /\ x \in A
      /\ 1 - (1 - g) = g /\ h[p].child[g] = n
  <2>1. g \in 0 .. 1 /\ h[p].child[g] = n
    BY ShapeParts
  <2>2. 1 - g \in 0 .. 1 /\ 1 - (1 - g) = g
    <3> HIDE DEF g
    <3> QED
      BY <2>1
  <2>3. tail \notin A /\ head \notin A
    BY HeapParts, Zenon
  <2> QED
    BY <2>1, <2>2, <2>3
<1>4. x # near /\ x # far /\ x # h[near].child[g] /\ x # h[near].child[1 - g]
  <2>1. \A i \in 0 .. 1 : h[sib].child[i] # tail =>
          /\ x # h[sib].child[i]
          /\ \A j \in 0 .. 1 : x # h[h[sib].child[i]].child[j]
    BY <1>1, <1>2 DEF Beside
  <2>2. near # tail => x # near /\ x # h[near].child[g] /\ x # h[near].child[1 - g]
    BY <1>3, <2>1
  <2>3. far # tail => x # far
    BY <1>3, <2>1
  <2>4. near = tail => h[near].child[g] = tail /\ h[near].child[1 - g] = tail
    <3>1. h[tail].child[0] = tail /\ h[tail].child[1] = tail
      BY HeapParts, Zenon
    <3>2. (g = 0 /\ 1 - g = 1) \/ (g = 1 /\ 1 - g = 0)
      BY <1>3
    <3> QED
      BY <3>1, <3>2
  <2> HIDE DEF near, far
  <2> QED
    BY <1>3, <2>2, <2>3, <2>4
<1>5. near \in Places(h) /\ far \in Places(h)
  <2>1. h[sib].child[0] \in Places(h) /\ h[sib].child[1] \in Places(h)
    BY <1>2, ShapeParts DEF Places
  <2>2. (g = 0 /\ 1 - g = 1) \/ (g = 1 /\ 1 - g = 0)
    BY <1>3
  <2> QED
    BY <2>1, <2>2
<1>6. RotatesTo(h, h1, v, gp, p, sib, near, 1 - g)
  BY BorrowTurns
<1>7. Borrowed(h, n) = IF is_red(h, p) THEN h1
                       ELSE IF is_red(h, sib) THEN set_black(h1, sib)
                       ELSE IF is_red(h, near)
                            THEN set_black(rotate_borrow(rotate_return(h, p, sib, near), gp, p, n, near), near)
                       ELSE set_black(h1, far)
  BY DEF Borrowed, parent
<1> HIDE DEF h1, A, p, gp, sib, near, far, o
<1>8. Rebalanced(h, h1, v, o) /\ Untouched(h, h1, x)
  <2>1. Rebalanced(h, h1, v, o)
    BY <1>2, <1>6, TurnRebalances
  <2>2. Untouched(h, h1, x)
    <3>1. RotatedLinks(h, h1, gp, p, sib, near, 1 - g)
      BY <1>6 DEF RotatesTo
    <3> QED
      BY <1>2, <1>3, <1>4, <3>1 DEF RotatedLinks, Untouched, A
  <2> QED
    BY <2>1, <2>2
<1>9. ASSUME NEW m \in Places(h)
      PROVE  Rebalanced(h, set_black(h1, m), v, o) /\ Untouched(h, set_black(h1, m), x)
  <2> DEFINE h2 == set_black(h1, m)
  <2>1. PICK v1 : Shape(h1, v1) /\ SameTrees(v, v1, o)
    BY <1>8 DEF Rebalanced
  <2>2. IsHeap(h1) /\ SameElements(h, h1) /\ m \in Places(h1) /\ x \in Allocated(h1)
    BY <1>3, <1>8 DEF Rebalanced, SameElements, Places, A
  <2>3. Rebalanced(h1, h2, v1, o) /\ SameLinks(h1, h2)
    BY <2>1, <2>2, PaintRebalances
  <2> HIDE DEF h2
  <2>4. Rebalanced(h, h2, v, o)
    BY <2>1, <2>2, <2>3, RebalancedTrans
  <2>5. Untouched(h, h2, x)
    BY <1>8, <2>2, <2>3 DEF Untouched, SameLinks
  <2> QED
    BY <2>4, <2>5 DEF h2
<1>10. CASE is_red(h, near) /\ ~is_red(h, p) /\ ~is_red(h, sib)
  <2> DEFINE k  == rotate_return(h, p, sib, near)
             k1 == rotate_borrow(k, gp, p, n, near)
             k2 == set_black(k1, near)
  <2>1. near \in A
    <3>1. ~is_red(h, tail)
      BY HeapParts, Zenon DEF is_red
    <3> QED
      BY <1>5, <1>10, <3>1 DEF Places, A
  <2>2. h[near].up = sib /\ h[near].idx = g
    <3>1. h[sib].child[g] = near /\ near # tail
      BY <1>3, <2>1 DEF near
    <3> QED
      BY <1>2, <1>3, <3>1, ChildSpan DEF A
  <2> DEFINE c == h[near].child[1 - g]
  <2>3. RotatesTo(h, k, v, p, sib, near, c, g)
    <3>1. RotatesTo(h, rotate_return(h, h[h[near].up].up, h[near].up, near), v, h[h[near].up].up,
                    h[near].up, near, h[near].child[1 - h[near].idx], h[near].idx)
      <4>1. h[near].up # head
        BY <1>2, <1>3, <2>2
      <4> QED
        BY <2>1, <4>1, ReturnTurns DEF A
    <3>2. h[h[near].up].up = p /\ h[near].up = sib
      BY <1>2, <2>2
    <3> QED
      BY <2>2, <3>1, <3>2
  <2> HIDE DEF k
  <2>4. RotatedLinks(h, k, p, sib, near, c, g) /\ IsHeap(k) /\ SameElements(h, k)
    BY <2>3 DEF RotatesTo
  <2>5. Rebalanced(h, k, v, o)
    BY <1>2, <2>3, TurnRebalances
  <2>6. PICK v1 : Shape(k, v1) /\ SameTrees(v, v1, o)
    BY <2>5 DEF Rebalanced
  <2>7. /\ k[p].child[1 - g] = near /\ k[p].up = gp
        /\ k[near].child[g] = h[near].child[g]
    <3>1. p # head /\ h[p].up = gp
      BY <1>2, <1>3 DEF gp
    <3> QED
      BY <1>2, <2>4, <3>1 DEF RotatedLinks
  <2>8. k[n].up = p /\ k[n].idx = g /\ n \in Allocated(k)
    <3>1. n # sib /\ n # near /\ n # c /\ n # p
      <4>1. Beside(h, v, n, n)
        <5>1. Under(v, n, n)
          BY ShapeParts DEF Under
        <5> QED
          BY <5>1, SiblingApart
      <4>2. n # p /\ n # sib
        BY <1>2, <4>1 DEF Beside, p, sib
      <4>3. n # near /\ n # h[near].child[1 - g]
        <5>1. h[sib].child[g] # tail /\ near = h[sib].child[g] /\ sibling(h, n) # tail
          BY <1>3, <2>1 DEF near, A
        <5>2. \A i \in 0 .. 1 : h[sib].child[i] # tail =>
                /\ n # h[sib].child[i]
                /\ \A j \in 0 .. 1 : n # h[h[sib].child[i]].child[j]
          BY <4>1 DEF Beside, sib
        <5> QED
          BY <1>3, <5>1, <5>2
      <4> QED
        BY <4>2, <4>3
    <3>2. k[n].up = h[n].up /\ k[n].idx = h[n].idx
      <4> HIDE DEF g
      <4>1. n \in Allocated(h) \ {sib, near, c, p}
        BY <3>1
      <4> QED
        BY <2>4, <4>1 DEF RotatedLinks
    <3>3. n \in Allocated(k)
      BY <2>4 DEF SameElements
    <3> QED
      BY <3>2, <3>3 DEF p
  <2>9. sibling(k, n) = near
    BY <2>7, <2>8 DEF sibling
  <2>10. RotatesTo(k, k1, v1, gp, p, near, k[near].child[g], 1 - g)
    <3>1. k[n].up # head /\ sibling(k, n) # tail
      BY <1>2, <1>3, <2>1, <2>8, <2>9
    <3>2. RotatesTo(k, rotate_borrow(k, k[k[n].up].up, k[n].up, n, sibling(k, n)), v1, k[k[n].up].up,
                    k[n].up, sibling(k, n), k[sibling(k, n)].child[k[n].idx], 1 - k[n].idx)
      BY <2>4, <2>6, <2>8, <3>1, BorrowTurns
    <3>3. k[k[n].up].up = gp /\ k[n].up = p /\ sibling(k, n) = near /\ k[n].idx = g
      BY <2>7, <2>8, <2>9
    <3> HIDE DEF g
    <3> QED
      BY <3>2, <3>3
  <2> HIDE DEF k1
  <2>11. v1.own[p] = o
    BY <1>2, <2>6 DEF SameTrees
  <2>12. Rebalanced(k, k1, v1, o)
    BY <2>10, <2>11, TurnRebalances
  <2>13. PICK v2 : Shape(k1, v2) /\ SameTrees(v1, v2, o)
    BY <2>12 DEF Rebalanced
  <2>14. IsHeap(k1) /\ SameElements(h, k1) /\ near \in Places(k1) /\ x \in Allocated(k1) /\ x \in Allocated(k)
    BY <1>3, <2>1, <2>4, <2>12 DEF Rebalanced, SameElements, Places, A
  <2>15. SameTrees(v, v2, o)
    BY <2>6, <2>13, SameTreesTrans
  <2>16. Rebalanced(k1, k2, v2, o) /\ SameLinks(k1, k2)
    BY <2>13, <2>14, PaintRebalances
  <2> HIDE DEF k2
  <2>17. Rebalanced(h, k2, v, o)
    BY <2>14, <2>15, <2>16, RebalancedTrans
  <2>18. Untouched(h, k, x)
    BY <1>2, <1>3, <1>4, <2>4 DEF RotatedLinks, Untouched, A
  <2>19. Untouched(k, k1, x)
    <3>1. RotatedLinks(k, k1, gp, p, near, k[near].child[g], 1 - g)
      BY <2>10 DEF RotatesTo
    <3>2. x \in Allocated(k) \ {p, near, k[near].child[g], gp}
      BY <1>2, <1>4, <2>7, <2>14
    <3> QED
      BY <3>1, <3>2 DEF RotatedLinks, Untouched
  <2>20. Untouched(h, k2, x)
    BY <2>14, <2>16, <2>18, <2>19 DEF Untouched, SameLinks
  <2>21. Borrowed(h, n) = k2
    BY <1>10, <1>7 DEF k2, k1, k
  <2> QED
    BY <2>17, <2>20, <2>21 DEF o
<1>11. CASE is_red(h, p)
  BY <1>8, <1>11, <1>7 DEF o
<1>12. CASE ~is_red(h, p) /\ is_red(h, sib)
  <2>1. sib \in Places(h)
    BY <1>2 DEF Places, A
  <2> QED
    BY <1>9, <1>12, <1>7, <2>1 DEF o
<1>13. CASE ~is_red(h, p) /\ ~is_red(h, sib) /\ ~is_red(h, near)
  BY <1>5, <1>9, <1>13, <1>7 DEF o
<1> QED
  BY <1>10, <1>11, <1>12, <1>13

-----------------------------------------------------------------------------
(* What the calls write. *)

(* What rbtree_node_create and elem_insert make is a node without links. *)
LEMMA FreshStruct ==
  ASSUME NEW k \in Keys, NEW val \in Vals
  PROVE  LET r == FreshNode(k, val)
         IN  /\ r \in NodeStructs /\ r.up = head /\ r.idx = 0 /\ r.key = k /\ r.val = val
             /\ r.child[0] = tail /\ r.child[1] = tail
BY DEF FreshNode, NodeStructs, NoChildren

(* The new node x is red, and the others keep their colours. *)
AddsRed(h, h2, x) == h2[x].red = TRUE /\ \A m \in Allocated(h) : h2[m].red = h[m].red

(* A new node below p. *)
LEMMA AttachedGrafts ==
  ASSUME NEW h, IsHeap(h), NEW v, Shape(h, v), NEW p \in Allocated(h), NEW k \in Keys, NEW val \in Vals,
         NEW i \in 0 .. 1, i = InsertSide(h, p, k), h[p].child[i] = tail, NEW x \in Nodes \ Allocated(h)
  PROVE  LET h2 == Attached(h, x, k, val, p)
         IN  /\ IsHeap(h2) /\ Grafted(h, h2, x, p, i) /\ h2[x].key = k /\ h2[x].val = val
             /\ \A m \in Allocated(h) : h2[m].key = h[m].key /\ h2[m].val = h[m].val
             /\ AddsRed(h, h2, x)
<1> DEFINE A  == Allocated(h)
           r  == FreshNode(k, val)
           h0 == Put(h, x, r)
           h1 == attach_child(h0, p, i, x)
           h2 == set_red(h1, x)
<1>1. /\ A \subseteq Nodes /\ head \notin A /\ tail \notin A /\ p \in A /\ p # x /\ x \notin A
      /\ x # head /\ x # tail /\ p # head /\ x \in Nodes /\ p \in Nodes
  <2>1. A \subseteq Nodes /\ head \notin A /\ tail \notin A
    BY HeapParts
  <2> QED
    BY <2>1, SentinelsAssumption
<1>2. h[p].child[1 - i] \in A \cup {tail} /\ 1 - i \in 0 .. 1
  <2>1. h[p].child[0] \in A \cup {tail} /\ h[p].child[1] \in A \cup {tail}
    BY ShapeParts
  <2>2. (i = 0 /\ 1 - i = 1) \/ (i = 1 /\ 1 - i = 0)
    OBVIOUS
  <2> QED
    BY <2>1, <2>2
<1>3. /\ r \in NodeStructs /\ r.up = head /\ r.idx = 0 /\ r.key = k /\ r.val = val
      /\ r.child[0] = tail /\ r.child[1] = tail
  BY FreshStruct
<1> HIDE DEF r, h0
<1>4. /\ IsHeap(h0) /\ Allocated(h0) = A \cup {x} /\ h0[x] = r
      /\ \A m \in Nodes \cup {head, tail} : m # x => h0[m] = h[m]
  BY <1>1, <1>3, PutNode DEF h0
<1>5. h0[p] = h[p] /\ \A m \in A : m # x /\ h0[m] = h[m] /\ m \in Allocated(h0)
  BY <1>1, <1>4
<1>6. Attachable(h0, p, i, x)
  BY <1>1, <1>2, <1>4, <1>5 DEF Attachable
<1> HIDE DEF h1
<1>7. IsHeap(h1) /\ SameElements(h0, h1) /\ SameColours(h0, h1) /\ AttachedLinks(h0, h1, p, i, x)
  BY <1>4, <1>6, AttachLinks DEF h1
<1>8. /\ h1[p].child[i] = x /\ h1[p].child[1 - i] = h[p].child[1 - i]
      /\ h1[p].up = h[p].up /\ h1[p].idx = h[p].idx
      /\ h1[x].up = p /\ h1[x].idx = i /\ h1[x].child[0] = tail /\ h1[x].child[1] = tail
      /\ \A m \in A \ {p} : h1[m].up = h[m].up /\ h1[m].idx = h[m].idx /\ h1[m].child = h[m].child
  <2>1. /\ h1[p].child[i] = x /\ h1[p].child[1 - i] = h0[p].child[1 - i]
        /\ h1[p].up = h0[p].up /\ h1[p].idx = h0[p].idx
        /\ h1[x].up = p /\ h1[x].idx = i /\ h1[x].child = h0[x].child
    BY <1>1, <1>7 DEF AttachedLinks
  <2>2. ASSUME NEW m \in A \ {p}
        PROVE  h1[m].up = h[m].up /\ h1[m].idx = h[m].idx /\ h1[m].child = h[m].child
    <3>1. m \in Allocated(h0) \ {p, x} /\ h0[m] = h[m]
      BY <1>5
    <3> QED
      BY <1>7, <3>1 DEF AttachedLinks
  <2> QED
    BY <1>3, <1>4, <1>5, <2>1, <2>2
<1>9. x \in Allocated(h1) /\ Allocated(h1) = A \cup {x}
  BY <1>4, <1>7 DEF SameElements
<1> HIDE DEF h2
<1>10. IsHeap(h2) /\ SameElements(h1, h2) /\ SameLinks(h1, h2)
  BY <1>7, <1>9, ColourLinks DEF h2
<1>11. Allocated(h2) = A \cup {x}
  BY <1>9, <1>10 DEF SameElements
<1>12. \A m \in A \cup {x} : h2[m].up = h1[m].up /\ h2[m].idx = h1[m].idx /\ h2[m].child = h1[m].child
  BY <1>9, <1>10 DEF SameLinks
<1>13. Grafted(h, h2, x, p, i)
  BY <1>1, <1>8, <1>11, <1>12 DEF Grafted
<1>14. \A m \in A \cup {x} : h2[m].key = h0[m].key /\ h2[m].val = h0[m].val
  BY <1>4, <1>7, <1>9, <1>10 DEF SameElements
<1>15. AddsRed(h, h2, x)
  <2>1. h2[x].red = TRUE
    BY <1>7, <1>9, ColourLinks DEF h2
  <2>2. \A m \in Nodes \cup {head, tail} : m # x => h2[m] = h1[m]
    <3>1. DOMAIN h1 = Nodes \cup {head, tail}
      BY <1>7 DEF IsHeap
    <3> QED
      BY <1>1, <3>1 DEF h2, set_red
  <2>3. \A m \in A : h1[m].red = h0[m].red
    BY <1>4, <1>7 DEF SameColours
  <2> QED
    BY <1>1, <1>5, <2>1, <2>2, <2>3 DEF AddsRed
<1>16. h2 = Attached(h, x, k, val, p)
  BY DEF Attached, Put, h2, h1, h0, r
<1> QED
  BY <1>3, <1>4, <1>5, <1>10, <1>13, <1>14, <1>15, <1>16

(* A node with one child at most gives its place to it. *)
LEMMA UnlinkedPrunes ==
  ASSUME NEW h, IsHeap(h), NEW v, Shape(h, v), NEW c, NEW x \in Allocated(h), c.victim = x,
         c.parent = h[x].up,
         \/ h[x].child[0] = tail /\ c.child = h[x].child[1]
         \/ h[x].child[1] = tail /\ c.child = h[x].child[0]
  PROVE  LET h2 == [Unlinked(h, c) EXCEPT ![c.victim] = Unallocated]
         IN  /\ IsHeap(h2) /\ Pruned(h, h2, x, c.child)
             /\ \A m \in Allocated(h2) : h2[m].key = h[m].key /\ h2[m].val = h[m].val
             /\ c.child = tail => h2[tail].up = c.parent
<1> DEFINE A  == Allocated(h)
           P  == h[x].up
           g  == h[x].idx
           k  == c.child
           h0 == set_black(h, k)
           h1 == attach_child(h0, P, g, k)
           h2 == [h1 EXCEPT ![x] = Unallocated]
<1>1. A \subseteq Nodes /\ head \notin A /\ tail \notin A /\ x \in A /\ x \in Nodes /\ x # tail /\ head # tail
  <2>1. A \subseteq Nodes /\ head \notin A /\ tail \notin A
    BY HeapParts
  <2> QED
    BY <2>1, SentinelsAssumption
<1>2. /\ k \in A \cup {tail} /\ P \in A \cup {head} /\ g \in 0 .. 1 /\ (P = head => g = 0)
      /\ P # head => h[P].child[g] = x
  <2>1. /\ h[x].child[0] \in A \cup {tail} /\ h[x].child[1] \in A \cup {tail}
        /\ P \in A \cup {head} /\ g \in 0 .. 1 /\ (P = head => g = 0)
        /\ P # head => h[P].child[g] = x
    BY ShapeParts
  <2> QED
    BY <2>1
<1>3. P # head => P \in A /\ P # x /\ h[P].child[1 - g] \in A \cup {tail}
  <2> SUFFICES ASSUME P # head PROVE P \in A /\ P # x /\ h[P].child[1 - g] \in A \cup {tail}
    OBVIOUS
  <2>1. P \in A /\ P # x
    BY UpParts
  <2>2. h[P].child[0] \in A \cup {tail} /\ h[P].child[1] \in A \cup {tail}
    BY <2>1, ShapeParts
  <2>3. (g = 0 /\ 1 - g = 1) \/ (g = 1 /\ 1 - g = 0)
    <3> HIDE DEF g
    <3> QED
      BY <1>2
  <2> QED
    BY <2>1, <2>2, <2>3
<1>4. k # tail => k # x /\ k # P
  <2> SUFFICES ASSUME k # tail PROVE k # x /\ k # P
    OBVIOUS
  <2>1. PICK i \in 0 .. 1 : k = h[x].child[i]
    <3>1. 0 \in 0 .. 1 /\ 1 \in 0 .. 1
      OBVIOUS
    <3> QED
      BY <3>1
  <2>2. /\ k \in A /\ h[k].up = x
    BY <2>1, ChildSpan
  <2>3. k # x
    BY <1>1, <2>2, UpParts
  <2>4. k # P
    <3>1. CASE P = head
      BY <1>1, <2>2, <3>1
    <3>2. CASE P # head
      <4>1. v.lo[x] <= v.lo[k] /\ v.hi[k] <= v.hi[x]
        BY <2>1, ChildSpan
      <4>2. v.at[P] \notin v.lo[x] .. v.hi[x]
        BY <3>2, UpParts
      <4>3. /\ v.lo[k] \in Nat /\ v.at[k] \in Nat /\ v.hi[k] \in Nat /\ v.lo[x] \in Nat /\ v.hi[x] \in Nat
            /\ v.lo[k] <= v.at[k] /\ v.at[k] <= v.hi[k]
        BY <2>2, ShapeParts
      <4>4. v.at[k] \in v.lo[x] .. v.hi[x]
        <5> HIDE DEF k
        <5> QED
          BY <4>1, <4>3
      <4> QED
        BY <4>2, <4>4
    <3> QED
      BY <3>1, <3>2
  <2> QED
    BY <2>3, <2>4
<1>5. \/ h[x].child[0] = tail /\ k = h[x].child[1]
      \/ h[x].child[1] = tail /\ k = h[x].child[0]
  OBVIOUS
<1>6. c.victim = x /\ c.parent = P /\ c.child = k
  OBVIOUS
<1> HIDE DEF k, P, g, h0
<1>7. IsHeap(h0) /\ SameElements(h, h0) /\ SameLinks(h, h0)
  <2>1. k \in Places(h)
    BY <1>2 DEF Places
  <2> QED
    BY <2>1, PaintRebalances DEF Rebalanced, h0
<1>8. Attachable(h0, P, g, k)
  <2>1. Allocated(h0) = A
    BY <1>7 DEF SameElements
  <2>2. P # head => h0[P].child = h[P].child
    BY <1>3, <1>7 DEF SameLinks
  <2>3. P # k
    BY <1>1, <1>2, <1>4
  <2> QED
    BY <1>2, <1>3, <2>1, <2>2, <2>3 DEF Attachable
<1> HIDE DEF h1
<1>9. IsHeap(h1) /\ SameElements(h0, h1) /\ AttachedLinks(h0, h1, P, g, k)
  BY <1>7, <1>8, AttachLinks DEF h1
<1>10. Allocated(h1) = A /\ Allocated(h0) = A /\ \A m \in A : h1[m].key = h[m].key /\ h1[m].val = h[m].val
  BY <1>7, <1>9 DEF SameElements
<1>11. /\ IsHeap(h2) /\ Allocated(h2) = A \ {x}
       /\ \A m \in Nodes \cup {head, tail} : m # x => h2[m] = h1[m]
  <2> HIDE DEF A
  <2>1. IsHeap(h1) /\ x \in Nodes
    BY <1>1, <1>9
  <2>2. /\ IsHeap(h2) /\ Allocated(h2) = Allocated(h1) \ {x}
        /\ \A m \in Nodes \cup {head, tail} : m # x => h2[m] = h1[m]
    BY <2>1, DropNode
  <2> HIDE DEF h2
  <2> QED
    BY <1>10, <2>2
<1> HIDE DEF h2
<1>12. \A m \in A : h0[m].up = h[m].up /\ h0[m].idx = h[m].idx /\ h0[m].child = h[m].child
  BY <1>7 DEF SameLinks
<1>13. P # head => h2[P].child[g] = k /\ h2[P].child[1 - g] = h[P].child[1 - g]
                   /\ h2[P].up = h[P].up /\ h2[P].idx = h[P].idx
  BY <1>1, <1>3, <1>9, <1>11, <1>12 DEF AttachedLinks
<1>14. k # tail => h2[k].up = P /\ h2[k].idx = g /\ h2[k].child = h[k].child
  BY <1>1, <1>2, <1>4, <1>9, <1>11, <1>12 DEF AttachedLinks
<1>15. \A m \in A \ {x, P, k} : h2[m].up = h[m].up /\ h2[m].idx = h[m].idx /\ h2[m].child = h[m].child
  <2> SUFFICES ASSUME NEW m \in A \ {x, P, k}
               PROVE  h2[m].up = h[m].up /\ h2[m].idx = h[m].idx /\ h2[m].child = h[m].child
    OBVIOUS
  <2>1. h1[m].up = h0[m].up /\ h1[m].idx = h0[m].idx /\ h1[m].child = h0[m].child
    BY <1>9, <1>10 DEF AttachedLinks
  <2>2. h2[m] = h1[m]
    BY <1>1, <1>11
  <2> QED
    BY <1>12, <2>1, <2>2
<1>16. k = tail => h2[tail].up = P
  BY <1>1, <1>9, <1>11 DEF AttachedLinks
<1>17. \A m \in A \ {x, k} : h2[m].up = h[m].up /\ h2[m].idx = h[m].idx
  BY <1>1, <1>13, <1>15
<1>18. \A m \in A \ {x, P} : h2[m].child = h[m].child
  BY <1>1, <1>14, <1>15
<1>19. Pruned(h, h2, x, k)
  BY <1>1, <1>5, <1>11, <1>13, <1>14, <1>17, <1>18 DEF Pruned, P, g
<1>20. \A m \in Allocated(h2) : h2[m].key = h[m].key /\ h2[m].val = h[m].val
  BY <1>1, <1>10, <1>11
<1>21. h2 = [Unlinked(h, c) EXCEPT ![c.victim] = Unallocated]
  BY <1>6 DEF Unlinked, h2, h1, h0, g
<1> QED
  BY <1>6, <1>11, <1>16, <1>19, <1>20, <1>21

(* A struct with another element. *)
Rewritten(r, k, w) == [r EXCEPT !.key = k, !.val = w]

(* Another element at a node. *)
LEMMA ElementWritten ==
  ASSUME NEW h, IsHeap(h), NEW n \in Allocated(h), NEW k \in Keys, NEW w \in Vals
  PROVE  LET h2 == Put(h, n, Rewritten(h[n], k, w))
         IN  /\ IsHeap(h2) /\ Allocated(h2) = Allocated(h) /\ SameLinks(h, h2)
             /\ h2[n].key = k /\ h2[n].val = w
             /\ \A m \in Nodes \cup {head, tail} : m # n => h2[m] = h[m]
<1> DEFINE r  == Rewritten(h[n], k, w)
           h2 == Put(h, n, r)
<1>1. n \in Nodes /\ h[n] \in NodeStructs /\ Allocated(h) \subseteq Nodes
  BY HeapParts
<1>2. /\ r \in NodeStructs /\ r.up = h[n].up /\ r.idx = h[n].idx /\ r.child = h[n].child
      /\ r.key = k /\ r.val = w
  BY <1>1 DEF NodeStructs, Rewritten
<1> HIDE DEF r
<1>3. /\ IsHeap(h2) /\ Allocated(h2) = Allocated(h) \cup {n} /\ h2[n] = r
      /\ \A m \in Nodes \cup {head, tail} : m # n => h2[m] = h[m]
  BY <1>1, <1>2, PutNode
<1> HIDE DEF h2
<1>4. SameLinks(h, h2)
  BY <1>1, <1>2, <1>3 DEF SameLinks
<1> QED
  BY <1>2, <1>3, <1>4 DEF h2, r

(* Discard copies the element of one node to another. *)
LEMMA MovedElement ==
  ASSUME NEW h, IsHeap(h), NEW n \in Allocated(h), NEW m \in Allocated(h)
  PROVE  LET h2 == Moved(h, n, m)
         IN  /\ IsHeap(h2) /\ Allocated(h2) = Allocated(h) /\ SameLinks(h, h2)
             /\ h2[n].key = h[m].key /\ h2[n].val = h[m].val
             /\ \A l \in Nodes \cup {head, tail} : l # n => h2[l] = h[l]
<1> DEFINE k == h[m].key
           w == h[m].val
<1>1. k \in Keys /\ w \in Vals
  BY HeapParts
<1>2. n \in DOMAIN h
  BY HeapParts DEF IsHeap
<1> HIDE DEF k, w
<1>3. Moved(h, n, m) = Put(h, n, Rewritten(h[n], k, w))
  <2>1. Moved(h, n, m) = [h EXCEPT ![n].key = k, ![n].val = w]
    BY DEF Moved, k, w
  <2> QED
    BY <1>2, <2>1 DEF Put, Rewritten
<1> DEFINE h2 == Put(h, n, Rewritten(h[n], k, w))
<1>4. /\ IsHeap(h2) /\ Allocated(h2) = Allocated(h) /\ SameLinks(h, h2)
      /\ h2[n].key = k /\ h2[n].val = w
      /\ \A l \in Nodes \cup {head, tail} : l # n => h2[l] = h[l]
  BY <1>1, ElementWritten
<1> HIDE DEF h2
<1> QED
  BY <1>3, <1>4 DEF k, w, h2

(* Another value at a node. *)
ValueWritten(h, n, w) == [h EXCEPT ![n].val = w]

(* elem_update writes one value and nothing else. *)
LEMMA UpdatedElement ==
  ASSUME NEW h, IsHeap(h), NEW n \in Allocated(h), NEW w \in Vals
  PROVE  LET h2 == ValueWritten(h, n, w)
         IN  /\ IsHeap(h2) /\ Allocated(h2) = Allocated(h) /\ SameLinks(h, h2)
             /\ h2[n].key = h[n].key /\ h2[n].val = w
             /\ \A l \in Nodes \cup {head, tail} : l # n => h2[l] = h[l]
<1> DEFINE k == h[n].key
<1>1. k \in Keys /\ h[n] \in NodeStructs
  BY HeapParts
<1>2. n \in DOMAIN h
  BY HeapParts DEF IsHeap
<1>3. [h[n] EXCEPT !.val = w] = Rewritten(h[n], k, w)
  BY <1>1 DEF NodeStructs, Rewritten
<1>4. ValueWritten(h, n, w) = Put(h, n, Rewritten(h[n], k, w))
  <2>1. [h EXCEPT ![n].val = w] = Put(h, n, [h[n] EXCEPT !.val = w])
    BY <1>2 DEF Put
  <2> QED
    BY <1>3, <2>1 DEF ValueWritten
<1> HIDE DEF k
<1> DEFINE h2 == Put(h, n, Rewritten(h[n], k, w))
<1>5. /\ IsHeap(h2) /\ Allocated(h2) = Allocated(h) /\ SameLinks(h, h2)
      /\ h2[n].key = k /\ h2[n].val = w
      /\ \A l \in Nodes \cup {head, tail} : l # n => h2[l] = h[l]
  BY <1>1, ElementWritten
<1> HIDE DEF h2
<1> QED
  BY <1>4, <1>5 DEF k, h2

(* Spoilt sentinels are sentinels. *)
LEMMA SpoiltStructs ==
  ASSUME NEW r \in TailStructs, NEW q \in HeadStructs, q.child[1] = tail
  PROVE  /\ WithParent(r, Unallocated, 0) \in TailStructs
         /\ WithChild(q, 0, Unallocated, 0) \in HeadStructs
         /\ WithChild(q, 0, Unallocated, 0).child[1] = tail
<1> DEFINE p == WithChild(q, 0, Unallocated, 0)
           kids == [q.child EXCEPT ![0] = Unallocated]
<1>1. WithParent(r, Unallocated, 0) \in TailStructs
  <2>1. ASSUME NEW i \in 0 .. 1, NEW u \in Nodes \cup {head, Unallocated}
        PROVE  WithParent(r, u, i) \in TailStructs
    BY DEF TailStructs, WithParent
  <2>2. 0 \in 0 .. 1 /\ Unallocated \in Nodes \cup {head, Unallocated}
    OBVIOUS
  <2> QED
    BY <2>1, <2>2
<1>2. kids \in [0 .. 1 -> Nodes \cup {tail, Unallocated}] /\ kids[1] = tail
  <2>1. q.child \in [0 .. 1 -> Nodes \cup {tail, Unallocated}]
    BY DEF HeadStructs
  <2> QED
    BY <2>1
<1>3. p = [q EXCEPT !.child = kids, !.size = 0]
  BY DEF WithChild
<1> HIDE DEF kids, p
<1>4. p \in HeadStructs /\ p.child = kids
  BY <1>2, <1>3 DEF HeadStructs
<1> QED
  BY <1>1, <1>2, <1>4 DEF p

(* What is kept of a heap between calls has its nodes. *)
LEMMA ResidueHeap ==
  ASSUME NEW h, IsHeap(h)
  PROVE  /\ IsHeap(Residue(h)) /\ SameElements(h, Residue(h)) /\ SameLinks(h, Residue(h))
         /\ \A m \in Nodes : Residue(h)[m] = h[m]
<1> DEFINE s == Spoilt(h)
           tl == WithParent(h[tail], Unallocated, 0)
           hd == WithChild(h[head], 0, Unallocated, 0)
<1>1. /\ DOMAIN h = Nodes \cup {head, tail}
      /\ h[tail] \in TailStructs /\ h[head] \in HeadStructs /\ h[head].child[1] = tail
      /\ \A n \in Nodes : h[n] \in NodeStructs \cup {Unallocated}
  BY DEF IsHeap
<1>2. head # tail /\ \A n \in Nodes : n # head /\ n # tail
  BY SentinelsAssumption
<1>3. s = [[h EXCEPT ![tail] = tl] EXCEPT ![head] = hd]
  BY <1>1, <1>2 DEF Spoilt, WithParent, WithChild
<1>4. tl \in TailStructs /\ hd \in HeadStructs /\ hd.child[1] = tail
  BY <1>1, SpoiltStructs
<1> HIDE DEF s, tl, hd
<1>5. DOMAIN s = Nodes \cup {head, tail} /\ s = [n \in DOMAIN s |-> s[n]]
  BY <1>1, <1>3
<1>6. s[tail] = tl /\ s[head] = hd
  BY <1>1, <1>2, <1>3
<1>7. \A n \in Nodes : s[n] = h[n]
  BY <1>1, <1>2, <1>3
<1>8. IsHeap(s)
  BY <1>1, <1>5, <1>6, <1>7, <1>4 DEF IsHeap
<1>9. SameElements(h, s) /\ SameLinks(h, s)
  BY <1>7 DEF SameElements, SameLinks, Allocated
<1>10. SameElements(h, h) /\ SameLinks(h, h)
  BY DEF SameElements, SameLinks
<1> QED
  BY <1>7, <1>8, <1>9, <1>10 DEF Residue, s

(* Nodes that are given up. *)
LEMMA DropNodes ==
  ASSUME NEW h, IsHeap(h), NEW L \in SUBSET Allocated(h)
  PROVE  LET h2 == [n \in DOMAIN h |-> IF n \in L THEN Unallocated ELSE h[n]]
         IN  /\ IsHeap(h2) /\ Allocated(h2) = Allocated(h) \ L
             /\ \A m \in Nodes \cup {head, tail} : m \notin L => h2[m] = h[m]
<1> DEFINE h2 == [n \in DOMAIN h |-> IF n \in L THEN Unallocated ELSE h[n]]
<1>1. DOMAIN h = Nodes \cup {head, tail} /\ head \notin L /\ tail \notin L
  BY SentinelsAssumption DEF IsHeap, Allocated
<1>2. DOMAIN h2 = Nodes \cup {head, tail} /\ h2 = [n \in DOMAIN h2 |-> h2[n]]
  BY <1>1
<1>3. \A n \in Nodes \cup {head, tail} : h2[n] = IF n \in L THEN Unallocated ELSE h[n]
  BY <1>1
<1> HIDE DEF h2
<1>4. IsHeap(h2)
  BY <1>1, <1>2, <1>3 DEF IsHeap
<1>5. Allocated(h2) = Allocated(h) \ L
  BY <1>3 DEF Allocated
<1> QED
  BY <1>1, <1>3, <1>4, <1>5 DEF h2

(* Elements in the order of their keys. *)

(* The keys of a sequence of elements. *)
KeysOf(s) == [j \in 1 .. Len(s) |-> Abstract!Key(s[j])]

Ascends(K, n) == \A i, j \in 1 .. n : i < j => K[i] <= K[j]

(* A sequence of elements is in order if its keys are. *)
LEMMA KeysParts ==
  ASSUME NEW s \in Seq(Keys \X Vals)
  PROVE  /\ Len(s) \in Nat /\ KeysOf(s) \in [1 .. Len(s) -> Int]
         /\ \A j \in 1 .. Len(s) : s[j] \in Keys \X Vals /\ KeysOf(s)[j] = s[j][1]
         /\ Abstract!Sorted(s) <=> Ascends(KeysOf(s), Len(s))
<1>1. Len(s) \in Nat /\ DOMAIN s = 1 .. Len(s) /\ \A j \in 1 .. Len(s) : s[j] \in Keys \X Vals
  BY LenProperties
<1>2. \A j \in 1 .. Len(s) : s[j][1] \in Int
  BY <1>1, KeysAssumption, Zenon
<1>3. \A j \in 1 .. Len(s) : KeysOf(s)[j] = s[j][1] /\ Abstract!Key(s[j]) = s[j][1]
  BY DEF KeysOf, Abstract!Key
<1>4. KeysOf(s) \in [1 .. Len(s) -> Int]
  BY <1>2, <1>3 DEF KeysOf
<1>5. Abstract!Sorted(s) <=> Ascends(KeysOf(s), Len(s))
  <2>1. \A j \in 1 .. Len(s) : KeysOf(s)[j] = Abstract!Key(s[j])
    BY DEF KeysOf
  <2>2. ASSUME Abstract!Sorted(s) PROVE Ascends(KeysOf(s), Len(s))
    <3>1. ASSUME NEW i \in 1 .. Len(s), NEW j \in 1 .. Len(s), i < j
          PROVE  KeysOf(s)[i] <= KeysOf(s)[j]
      <4>1. Abstract!Key(s[i]) <= Abstract!Key(s[j])
        BY <1>1, <2>2, <3>1, Zenon DEF Abstract!Sorted
      <4> QED
        BY <2>1, <4>1, Zenon
    <3> QED
      BY <3>1, Zenon DEF Ascends
  <2>3. ASSUME Ascends(KeysOf(s), Len(s)) PROVE Abstract!Sorted(s)
    <3>1. ASSUME NEW i \in 1 .. Len(s), NEW j \in 1 .. Len(s), i < j
          PROVE  Abstract!Key(s[i]) <= Abstract!Key(s[j])
      <4>1. KeysOf(s)[i] <= KeysOf(s)[j]
        BY <2>3, <3>1, Zenon DEF Ascends
      <4> QED
        BY <2>1, <4>1, Zenon
    <3> QED
      BY <1>1, <3>1, Zenon DEF Abstract!Sorted
  <2> QED
    BY <2>2, <2>3
<1> QED
  BY <1>1, <1>3, <1>4, <1>5

(* An element put in among smaller and larger ones. *)
LEMMA InsertSorted ==
  ASSUME NEW s \in Seq(Keys \X Vals), NEW i \in 1 .. Len(s) + 1, NEW e \in Keys \X Vals,
         Abstract!Sorted(s),
         \A j \in 1 .. Len(s) : IF j < i THEN s[j][1] <= e[1] ELSE s[j][1] >= e[1]
  PROVE  Abstract!Sorted(Abstract!InsertAt(s, i, e))
<1> DEFINE s2 == Abstract!InsertAt(s, i, e)
           K == KeysOf(s)
           K2 == KeysOf(s2)
           n == Len(s)
           x == e[1]
<1>1. s2 \in Seq(Keys \X Vals) /\ PutIn(s2, s, i, e)
  BY InsertAtParts
<1>2. Len(s2) = n + 1 /\ \A j \in 1 .. n + 1 : s2[j] = IF j < i THEN s[j] ELSE IF j = i THEN e ELSE s[j - 1]
  BY <1>1 DEF PutIn
<1> HIDE DEF s2
<1>3. /\ n \in Nat /\ K \in [1 .. n -> Int] /\ Ascends(K, n)
      /\ \A j \in 1 .. n : K[j] = s[j][1]
  BY KeysParts
<1>4. /\ \A j \in 1 .. n + 1 : K2[j] = s2[j][1]
      /\ Ascends(K2, n + 1) => Abstract!Sorted(s2)
  BY <1>1, <1>2, KeysParts
<1>5. x \in Int
  BY KeysAssumption
<1>6. \A j \in 1 .. n : IF j < i THEN K[j] <= x ELSE K[j] >= x
  BY <1>3
<1>7. i \in 1 .. n + 1
  OBVIOUS
<1> HIDE DEF K, K2, x, n
<1>8. ASSUME NEW j \in 1 .. n + 1
      PROVE  /\ j < i => j \in 1 .. n /\ K2[j] = K[j]
             /\ j = i => K2[j] = x
             /\ j > i => j - 1 \in 1 .. n /\ K2[j] = K[j - 1]
  <2>1. CASE j < i
    <3>1. j \in 1 .. n /\ s2[j] = s[j] /\ ~(j = i) /\ ~(j > i)
      BY <1>2, <1>3, <1>7, <2>1
    <3> QED
      BY <1>3, <1>4, <2>1, <3>1
  <2>2. CASE j = i
    <3>1. s2[j] = e /\ ~(j < i) /\ ~(j > i)
      BY <1>2, <1>3, <1>7, <2>2
    <3> QED
      BY <1>4, <2>2, <3>1 DEF x
  <2>3. CASE j > i
    <3>1. j - 1 \in 1 .. n /\ s2[j] = s[j - 1] /\ ~(j < i) /\ ~(j = i)
      BY <1>2, <1>3, <1>7, <2>3
    <3> QED
      BY <1>3, <1>4, <2>3, <3>1
  <2> QED
    BY <1>3, <1>7, <2>1, <2>2, <2>3
<1>9. ASSUME NEW j \in 1 .. n + 1, NEW l \in 1 .. n + 1, j < l PROVE K2[j] <= K2[l]
  <2>1. CASE l < i
    <3>1. K2[j] = K[j] /\ K2[l] = K[l] /\ j \in 1 .. n /\ l \in 1 .. n
      BY <1>3, <1>7, <1>8, <1>9, <2>1
    <3> QED
      BY <1>3, <1>9, <3>1 DEF Ascends
  <2>2. CASE l = i
    <3>1. K2[j] = K[j] /\ K2[l] = x /\ j \in 1 .. n /\ j < i
      BY <1>3, <1>7, <1>8, <1>9, <2>2
    <3> QED
      BY <1>6, <3>1
  <2>3. CASE l > i
    <3>1. l - 1 \in 1 .. n /\ K2[l] = K[l - 1] /\ ~(l - 1 < i)
      BY <1>3, <1>7, <1>8, <2>3
    <3>2. CASE j < i
      <4>1. j \in 1 .. n /\ K2[j] = K[j] /\ j < l - 1
        BY <1>3, <1>7, <1>8, <2>3, <3>2
      <4> QED
        BY <1>3, <3>1, <4>1 DEF Ascends
    <3>3. CASE j = i
      <4>1. K2[j] = x
        BY <1>8, <3>3
      <4> QED
        BY <1>3, <1>5, <1>6, <3>1, <4>1
    <3>4. CASE j > i
      <4>1. j - 1 \in 1 .. n /\ K2[j] = K[j - 1] /\ j - 1 < l - 1
        BY <1>3, <1>7, <1>8, <1>9, <3>4
      <4> QED
        BY <1>3, <3>1, <4>1 DEF Ascends
    <3> QED
      BY <1>3, <1>7, <3>2, <3>3, <3>4
  <2> QED
    BY <1>3, <1>7, <2>1, <2>2, <2>3
<1>10. Ascends(K2, n + 1)
  BY <1>9 DEF Ascends
<1> QED
  BY <1>4, <1>10 DEF s2

(* An element less leaves the order. *)
LEMMA RemoveSorted ==
  ASSUME NEW s \in Seq(Keys \X Vals), NEW i \in 1 .. Len(s), Abstract!Sorted(s)
  PROVE  Abstract!Sorted(Abstract!RemoveAt(s, i))
<1> DEFINE s2 == Abstract!RemoveAt(s, i)
           K == KeysOf(s)
           K2 == KeysOf(s2)
           n == Len(s)
<1>1. s2 \in Seq(Keys \X Vals) /\ TakenOut(s2, s, i)
  BY RemoveAtParts
<1>2. Len(s2) = n - 1 /\ \A j \in 1 .. n - 1 : s2[j] = IF j < i THEN s[j] ELSE s[j + 1]
  BY <1>1 DEF TakenOut
<1> HIDE DEF s2
<1>3. /\ n \in Nat /\ K \in [1 .. n -> Int] /\ Ascends(K, n)
      /\ \A j \in 1 .. n : K[j] = s[j][1]
  BY KeysParts
<1>4. /\ \A j \in 1 .. n - 1 : K2[j] = s2[j][1]
      /\ Ascends(K2, n - 1) => Abstract!Sorted(s2)
  BY <1>1, <1>2, KeysParts
<1>5. i \in 1 .. n
  OBVIOUS
<1> HIDE DEF K, K2, n
<1>6. ASSUME NEW j \in 1 .. n - 1
      PROVE  /\ j < i => j \in 1 .. n /\ K2[j] = K[j]
             /\ j >= i => j + 1 \in 1 .. n /\ K2[j] = K[j + 1]
  <2>1. CASE j < i
    <3>1. j \in 1 .. n /\ s2[j] = s[j] /\ ~(j >= i)
      BY <1>2, <1>3, <1>5, <2>1
    <3> QED
      BY <1>3, <1>4, <2>1, <3>1
  <2>2. CASE j >= i
    <3>1. j + 1 \in 1 .. n /\ s2[j] = s[j + 1] /\ ~(j < i)
      BY <1>2, <1>3, <1>5, <2>2
    <3> QED
      BY <1>3, <1>4, <2>2, <3>1
  <2> QED
    BY <1>3, <1>5, <2>1, <2>2
<1>7. ASSUME NEW j \in 1 .. n - 1, NEW l \in 1 .. n - 1, j < l PROVE K2[j] <= K2[l]
  <2>1. CASE l < i
    <3>1. K2[j] = K[j] /\ K2[l] = K[l] /\ j \in 1 .. n /\ l \in 1 .. n
      BY <1>3, <1>5, <1>6, <1>7, <2>1
    <3> QED
      BY <1>3, <1>7, <3>1 DEF Ascends
  <2>2. CASE l >= i
    <3>1. l + 1 \in 1 .. n /\ K2[l] = K[l + 1]
      BY <1>6, <2>2
    <3>2. CASE j < i
      <4>1. j \in 1 .. n /\ K2[j] = K[j] /\ j < l + 1
        BY <1>3, <1>5, <1>6, <1>7, <3>2
      <4> QED
        BY <1>3, <3>1, <4>1 DEF Ascends
    <3>3. CASE j >= i
      <4>1. j + 1 \in 1 .. n /\ K2[j] = K[j + 1] /\ j + 1 < l + 1
        BY <1>3, <1>5, <1>6, <1>7, <3>3
      <4> QED
        BY <1>3, <3>1, <4>1 DEF Ascends
    <3> QED
      BY <1>3, <1>5, <3>2, <3>3
  <2> QED
    BY <1>3, <1>5, <2>1, <2>2
<1>8. Ascends(K2, n - 1)
  BY <1>7 DEF Ascends
<1> QED
  BY <1>4, <1>8 DEF s2

(* Another value at an element leaves the order: the key stays. *)
LEMMA UpdateSorted ==
  ASSUME NEW s \in Seq(Keys \X Vals), NEW i \in 1 .. Len(s), NEW w \in Vals, Abstract!Sorted(s)
  PROVE  /\ [s EXCEPT ![i] = <<s[i][1], w>>] \in Seq(Keys \X Vals)
         /\ Abstract!Sorted([s EXCEPT ![i] = <<s[i][1], w>>])
<1> DEFINE s2 == [s EXCEPT ![i] = <<s[i][1], w>>]
<1>1. /\ Len(s) \in Nat /\ \A j \in 1 .. Len(s) : s[j] \in Keys \X Vals /\ KeysOf(s)[j] = s[j][1]
      /\ Ascends(KeysOf(s), Len(s))
  BY KeysParts
<1>2. <<s[i][1], w>> \in Keys \X Vals
  BY <1>1
<1>3. s2 \in Seq(Keys \X Vals) /\ Len(s2) = Len(s)
      /\ \A j \in 1 .. Len(s) : s2[j] = IF j = i THEN <<s[i][1], w>> ELSE s[j]
  BY <1>2, ExceptSeq
<1> HIDE DEF s2
<1>4. /\ \A j \in 1 .. Len(s) : KeysOf(s2)[j] = s2[j][1]
      /\ Ascends(KeysOf(s2), Len(s)) => Abstract!Sorted(s2)
  BY <1>3, KeysParts
<1>5. \A j \in 1 .. Len(s) : KeysOf(s2)[j] = KeysOf(s)[j]
  BY <1>1, <1>3, <1>4
<1>6. Ascends(KeysOf(s2), Len(s))
  BY <1>1, <1>5, Zenon DEF Ascends
<1> QED
  BY <1>3, <1>4, <1>6 DEF s2

-----------------------------------------------------------------------------
(* There is a node for every element. *)
LEMMA HolderOf ==
  ASSUME NEW h, NEW v, Good(h, v), NEW t \in Trees, NEW j \in 1 .. Len(v.held[t])
  PROVE  \E m \in Allocated(h) : v.own[m] = t /\ v.at[m] = j
<1> DEFINE x == v.top[t]
<1>1. Len(v.held[t]) = Extent(v, t)
  BY DEF Good, Contents
<1>2. x \notin {tail, NoTree}
  BY <1>1 DEF Extent
<1>3. /\ x \in Allocated(h) /\ v.own[x] = t /\ v.lo[x] = 1
  BY <1>2 DEF Good, Shape, TopFits
<1>4. j \in v.lo[x] .. v.hi[x]
  BY <1>1, <1>2, <1>3 DEF Extent
<1>5. IsHeap(h) /\ Shape(h, v)
  BY DEF Good
<1> HIDE DEF x
<1>6. \E m \in Allocated(h) : v.own[m] = v.own[x] /\ v.at[m] = j
  BY <1>3, <1>4, <1>5, Covered
<1> QED
  BY <1>3, <1>6

(* The nodes of a tree whose elements are in order are in the order of   *)
(* their keys.                                                           *)
LEMMA SortedNodes ==
  ASSUME NEW h, NEW v, Good(h, v), NEW t \in Trees, Abstract!Sorted(v.held[t])
  PROVE  InOrderOfKeys(h, v, t)
<1>1. v.held[t] \in Seq(Keys \X Vals)
  BY DEF Good, Contents
<1>2. /\ \A j \in 1 .. Len(v.held[t]) : KeysOf(v.held[t])[j] = v.held[t][j][1]
      /\ Ascends(KeysOf(v.held[t]), Len(v.held[t]))
  BY <1>1, KeysParts
<1>3. ASSUME NEW m \in Allocated(h), v.own[m] = t
      PROVE  v.at[m] \in 1 .. Len(v.held[t]) /\ KeysOf(v.held[t])[v.at[m]] = h[m].key
  <2>1. v.at[m] \in 1 .. Len(v.held[t]) /\ v.held[t][v.at[m]] = <<h[m].key, h[m].val>>
    BY <1>3, PlaceParts
  <2> QED
    BY <1>2, <2>1
<1>4. ASSUME NEW m \in Allocated(h), NEW n \in Allocated(h),
             v.own[m] = t, v.own[n] = t, v.at[m] < v.at[n]
      PROVE  h[m].key <= h[n].key
  <2>1. v.at[m] \in 1 .. Len(v.held[t]) /\ KeysOf(v.held[t])[v.at[m]] = h[m].key
    BY <1>3, <1>4
  <2>2. v.at[n] \in 1 .. Len(v.held[t]) /\ KeysOf(v.held[t])[v.at[n]] = h[n].key
    BY <1>3, <1>4
  <2>3. KeysOf(v.held[t])[v.at[m]] <= KeysOf(v.held[t])[v.at[n]]
    BY <1>2, <1>4, <2>1, <2>2, Zenon DEF Ascends
  <2> QED
    BY <2>1, <2>2, <2>3
<1> QED
  BY <1>4 DEF InOrderOfKeys

(* An element put in at a place that divides the keys leaves the order. *)
LEMMA SplitsSorted ==
  ASSUME NEW h, NEW v, Good(h, v), NEW t \in Trees, Abstract!Sorted(v.held[t]),
         NEW k \in Keys, NEW w \in Vals, NEW j \in 1 .. Len(v.held[t]) + 1, Splits(h, v, t, k, j)
  PROVE  Abstract!Sorted(Abstract!InsertAt(v.held[t], j, <<k, w>>))
<1>1. v.held[t] \in Seq(Keys \X Vals)
  BY DEF Good, Contents
<1>2. k \in Int
  BY KeysAssumption
<1>3. ASSUME NEW i \in 1 .. Len(v.held[t])
      PROVE  IF i < j THEN v.held[t][i][1] <= k ELSE v.held[t][i][1] >= k
  <2>1. PICK m \in Allocated(h) : v.own[m] = t /\ v.at[m] = i
    BY HolderOf
  <2>2. v.held[t][i] = <<h[m].key, h[m].val>>
    BY <2>1, PlaceParts
  <2>3. v.held[t][i][1] = h[m].key
    BY <2>2
  <2>4. h[m].key \in Keys
    BY HeapParts, Zenon DEF Good
  <2>5. IF i < j THEN h[m].key < k ELSE h[m].key >= k
    BY <2>1 DEF Splits
  <2> DEFINE a == h[m].key
  <2>6. a \in Int
    BY <2>4, KeysAssumption, Zenon
  <2>7. IF i < j THEN a < k ELSE a >= k
    BY <2>5
  <2> HIDE DEF a
  <2>8. IF i < j THEN a <= k ELSE a >= k
    BY <1>2, <2>6, <2>7
  <2> QED
    BY <2>3, <2>8 DEF a
<1>4. <<k, w>> \in Keys \X Vals /\ <<k, w>>[1] = k
  OBVIOUS
<1> DEFINE e == <<k, w>>
<1>5. e \in Keys \X Vals /\ \A i \in 1 .. Len(v.held[t]) : IF i < j THEN v.held[t][i][1] <= e[1] ELSE v.held[t][i][1] >= e[1]
  BY <1>3, <1>4
<1> HIDE DEF e
<1>6. Abstract!Sorted(Abstract!InsertAt(v.held[t], j, e))
  BY <1>1, <1>5, InsertSorted
<1> QED
  BY <1>6 DEF e

-----------------------------------------------------------------------------
(* The inductive invariant. *)

(* What a call may do to the elements s of its tree: it leaves s2 and      *)
(* answers val.  If first, it takes out no element but the first one.      *)
Does(first, s, s2, val) ==
  \/ \E k \in Keys, w \in Vals, i \in 1 .. Len(s) + 1 :
       s2 = Abstract!InsertAt(s, i, <<k, w>>) /\ Abstract!Sorted(s2) /\ val = None
  \/ \E i \in 1 .. Len(s) :
       /\ s2 = Abstract!RemoveAt(s, i) /\ val \in {s[i][2], None}
       /\ first => i = 1 /\ val = s[i][2]

Typed ==
  /\ root \in [Trees -> Nodes \cup {tail, NoTree}]
  /\ pc \in {"idle", "insert_balance", "discard", "delete_balance", "unlink", "maintain", "abort"}
  /\ tree \in Trees \cup {None} /\ (tree = None <=> pc = "idle")
  /\ tree # None => root[tree] # NoTree
  /\ node \in Places(heap)
  /\ cut \in [victim : Nodes \cup {tail}, parent : Allocated(heap) \cup {head, tail},
              child : Places(heap)]
  /\ out \in Vals \cup {None} /\ (pc = "idle" => out = None)
  /\ ret \in [Trees -> [err : {0, -1}, val : Vals \cup {None}]]
  /\ seen \in [Trees -> Seq(Keys \X Vals)] /\ \A t \in Trees : Abstract!Sorted(seen[t])

(* The trees that no call works on are what their last call left. *)
Settled(v) ==
  \A t \in Trees : IF t = tree THEN v.top[t] # NoTree
                   ELSE v.top[t] = root[t] /\ v.held[t] = seen[t]

Owned(v, n) == n \in Allocated(heap) /\ v.own[n] = tree

(* The node to unlink has at most one child, which will take its place. *)
CutFits(v) ==
  /\ Owned(v, cut.victim) /\ heap[cut.victim].up = cut.parent
  /\ \/ heap[cut.victim].child[0] = tail /\ cut.child = heap[cut.victim].child[1]
     \/ heap[cut.victim].child[1] = tail /\ cut.child = heap[cut.victim].child[0]

(* What is left to do will do what the call is to do.  The elements have   *)
(* changed already, but for the node that is still to be unlinked.         *)
Pending(first, v) ==
  /\ pc = "insert_balance" => Owned(v, node) /\ Does(first, seen[tree], v.held[tree], out)
  /\ pc = "discard" =>
       /\ Owned(v, node)
       /\ Does(first, seen[tree], Abstract!RemoveAt(v.held[tree], v.at[node]), out)
  /\ pc \in {"delete_balance", "unlink"} =>
       /\ CutFits(v)
       /\ Does(first, seen[tree], Abstract!RemoveAt(v.held[tree], v.at[cut.victim]), out)
  /\ pc = "delete_balance" => Owned(v, node) /\ Under(v, cut.victim, node)
  /\ pc = "maintain" =>
       /\ Does(first, seen[tree], v.held[tree], out)
       /\ \/ Owned(v, node)
          \/ node = tail /\ Owned(v, heap[tail].up)
          \/ node = tail /\ heap[tail].up = head /\ v.top[tree] = tail

Holds(first, v) == Good(heap, v) /\ Settled(v) /\ Pending(first, v)

IInv(first) == Typed /\ \E v : Holds(first, v)

(* What a call may leave of the elements s of its tree, and its answer. *)
Makes(first, s, s2, a) ==
  \/ s2 = <<>> /\ a = Answer(0, None) /\ (first => s = <<>>)
  \/ \E val : Does(first, s, s2, val) /\ a = Answer(0, val)
  \/ \E i \in 1 .. Len(s), w \in Vals :
       s2 = [s EXCEPT ![i] = <<s[i][1], w>>] /\ a = Answer(0, None)
  \/ s2 = s /\ a = Answer(-1, None)

Answered(first, t) ==
  \E s2, a : /\ Makes(first, seen[t], s2, a)
             /\ seen' = [seen EXCEPT ![t] = s2] /\ ret' = [ret EXCEPT ![t] = a]

Step(first) == UNCHANGED <<seen, ret>> \/ \E t \in Trees : Answered(first, t)

-----------------------------------------------------------------------------

(* What a call leaves is in order again, and its answer is one. *)
LEMMA MakesSorted ==
  ASSUME NEW first, NEW s \in Seq(Keys \X Vals), Abstract!Sorted(s), NEW s2, NEW a,
         Makes(first, s, s2, a)
  PROVE  /\ s2 \in Seq(Keys \X Vals) /\ Abstract!Sorted(s2)
         /\ a \in [err : {0, -1}, val : Vals \cup {None}]
<1>1. CASE s2 = <<>> /\ a = Answer(0, None)
  <2>1. s2 \in Seq(Keys \X Vals) /\ DOMAIN s2 = {}
    BY <1>1
  <2>2. Abstract!Sorted(s2)
    BY <2>1, Zenon DEF Abstract!Sorted
  <2> QED
    BY <1>1, <2>1, <2>2 DEF Answer
<1>2. ASSUME NEW val, Does(first, s, s2, val), a = Answer(0, val)
      PROVE  /\ s2 \in Seq(Keys \X Vals) /\ Abstract!Sorted(s2)
             /\ a \in [err : {0, -1}, val : Vals \cup {None}]
  <2>1. ASSUME NEW k \in Keys, NEW w \in Vals, NEW i \in 1 .. Len(s) + 1,
               s2 = Abstract!InsertAt(s, i, <<k, w>>), Abstract!Sorted(s2), val = None
        PROVE  /\ s2 \in Seq(Keys \X Vals) /\ Abstract!Sorted(s2)
               /\ a \in [err : {0, -1}, val : Vals \cup {None}]
    <3>1. <<k, w>> \in Keys \X Vals
      OBVIOUS
    <3> DEFINE e == <<k, w>>
    <3> HIDE DEF e
    <3>2. Abstract!InsertAt(s, i, e) \in Seq(Keys \X Vals)
      BY <3>1, InsertAtParts DEF e
    <3>3. a \in [err : {0, -1}, val : Vals \cup {None}]
      BY <1>2, <2>1 DEF Answer
    <3> QED
      BY <2>1, <3>2, <3>3 DEF e
  <2>2. ASSUME NEW i \in 1 .. Len(s), s2 = Abstract!RemoveAt(s, i), val \in {s[i][2], None}
        PROVE  /\ s2 \in Seq(Keys \X Vals) /\ Abstract!Sorted(s2)
               /\ a \in [err : {0, -1}, val : Vals \cup {None}]
    <3>1. Abstract!RemoveAt(s, i) \in Seq(Keys \X Vals)
      BY RemoveAtParts
    <3>2. Abstract!Sorted(Abstract!RemoveAt(s, i))
      BY RemoveSorted
    <3>3. s[i] \in Keys \X Vals
      OBVIOUS
    <3>4. a \in [err : {0, -1}, val : Vals \cup {None}]
      BY <1>2, <2>2, <3>3 DEF Answer
    <3> QED
      BY <2>2, <3>1, <3>2, <3>4
  <2> QED
    BY <1>2, <2>1, <2>2, Zenon DEF Does
<1>3. ASSUME NEW i \in 1 .. Len(s), NEW w \in Vals,
             s2 = [s EXCEPT ![i] = <<s[i][1], w>>], a = Answer(0, None)
      PROVE  /\ s2 \in Seq(Keys \X Vals) /\ Abstract!Sorted(s2)
             /\ a \in [err : {0, -1}, val : Vals \cup {None}]
  <2>1. /\ [s EXCEPT ![i] = <<s[i][1], w>>] \in Seq(Keys \X Vals)
        /\ Abstract!Sorted([s EXCEPT ![i] = <<s[i][1], w>>])
    BY UpdateSorted
  <2>2. a \in [err : {0, -1}, val : Vals \cup {None}]
    BY <1>3 DEF Answer
  <2> QED
    BY <1>3, <2>1, <2>2
<1>4. CASE s2 = s /\ a = Answer(-1, None)
  BY <1>4 DEF Answer
<1> QED
  BY <1>1, <1>2, <1>3, <1>4, Zenon DEF Makes

(* The history variable records the elements that the view has. *)
LEMMA SeenIsHeld ==
  ASSUME NEW h, NEW v, Good(h, v), NEW t \in Trees, NEW r, r = v.top[t]
  PROVE  (IF r = NoTree THEN <<>> ELSE InOrder(h, r)) = v.held[t]
<1>1. CASE r = NoTree
  <2>1. v.held[t] \in Seq(Keys \X Vals) /\ Len(v.held[t]) = 0
    BY <1>1 DEF Good, Contents, Extent
  <2> QED
    BY <1>1, <2>1
<1>2. CASE r # NoTree
  BY <1>2, InOrderHeld
<1> QED
  BY <1>1, <1>2

(* A step inside a call. *)
LEMMA GoesOn ==
  ASSUME NEW first, Typed, NEW v, Holds(first, v), tree # None,
         UNCHANGED <<root, tree, out, seen, ret>>, node' \in Places(heap'),
         cut' \in [victim : Nodes \cup {tail}, parent : Allocated(heap') \cup {head, tail},
                   child : Places(heap')],
         pc' \in {"insert_balance", "discard", "delete_balance", "unlink", "maintain", "abort"},
         NEW v2, Good(heap', v2), v2.top[tree] # NoTree,
         \A t \in Trees : t # tree => v2.top[t] = v.top[t] /\ v2.held[t] = v.held[t],
         Pending(first, v2)'
  PROVE  IInv(first)' /\ Step(first)
<1>1. Typed'
  BY DEF Typed
<1>2. Settled(v2)'
  BY DEF Holds, Settled
<1>3. Holds(first, v2)'
  BY <1>2 DEF Holds
<1> QED
  BY <1>1, <1>3 DEF IInv, Step

(* The return of a call. *)
LEMMA Returns ==
  ASSUME NEW first, Typed, NEW v, Holds(first, v), NEW t \in Trees, tree \in {t, None},
         NEW err, NEW val, Return(t, err, val),
         root' \in [Trees -> Nodes \cup {tail, NoTree}],
         \A o \in Trees : o # t => root'[o] = root[o],
         NEW v2, Good(heap', v2), v2.top[t] = root'[t],
         \A o \in Trees : o # t => v2.top[o] = v.top[o] /\ v2.held[o] = v.held[o],
         Makes(first, seen[t], v2.held[t], Answer(err, val))
  PROVE  IInv(first)' /\ Step(first)
<1>1. /\ pc' = "idle" /\ tree' = None /\ node' = tail /\ cut' = NoCut /\ out' = None
      /\ ret' = [ret EXCEPT ![t] = Answer(err, val)]
      /\ seen' = [seen EXCEPT ![t] = IF root'[t] = NoTree THEN <<>> ELSE InOrder(heap', root'[t])]
  BY DEF Return
<1>2. (IF root'[t] = NoTree THEN <<>> ELSE InOrder(heap', root'[t])) = v2.held[t]
  BY SeenIsHeld
<1>3. seen' = [seen EXCEPT ![t] = v2.held[t]]
  BY <1>1, <1>2
<1>4. /\ seen \in [Trees -> Seq(Keys \X Vals)] /\ \A o \in Trees : Abstract!Sorted(seen[o])
      /\ ret \in [Trees -> [err : {0, -1}, val : Vals \cup {None}]]
  BY DEF Typed
<1>5. /\ v2.held[t] \in Seq(Keys \X Vals) /\ Abstract!Sorted(v2.held[t])
      /\ Answer(err, val) \in [err : {0, -1}, val : Vals \cup {None}]
  BY <1>4, MakesSorted
<1>6. seen' \in [Trees -> Seq(Keys \X Vals)] /\ \A o \in Trees : Abstract!Sorted(seen'[o])
  <2>1. ASSUME NEW o \in Trees PROVE seen'[o] = IF o = t THEN v2.held[t] ELSE seen[o]
    BY <1>3, <1>4
  <2>2. seen' \in [Trees -> Seq(Keys \X Vals)]
    BY <1>3, <1>4, <1>5
  <2> QED
    BY <1>4, <1>5, <2>1, <2>2, Zenon
<1>7. ret' \in [Trees -> [err : {0, -1}, val : Vals \cup {None}]]
  BY <1>1, <1>4, <1>5, Zenon
<1>8. Typed'
  <2>1. cut' \in [victim : Nodes \cup {tail}, parent : Allocated(heap') \cup {head, tail},
                  child : Places(heap')]
    BY <1>1 DEF NoCut, Places
  <2>2. node' \in Places(heap')
    BY <1>1 DEF Places
  <2> QED
    BY <1>1, <1>6, <1>7, <2>1, <2>2 DEF Typed
<1>9. Settled(v2)'
  <2>1. None \notin Trees
    BY MarksAssumption
  <2>2. \A o \in Trees : v2.held[o] = seen'[o] /\ v2.top[o] = root'[o]
    BY <1>3, <1>4, <2>1 DEF Holds, Settled
  <2> QED
    BY <1>1, <2>1, <2>2 DEF Settled
<1>10. Pending(first, v2)'
  BY <1>1 DEF Pending
<1>11. Answered(first, t)
  BY <1>1, <1>3 DEF Answered
<1> QED
  BY <1>8, <1>9, <1>10, <1>11 DEF IInv, Holds, Step

-----------------------------------------------------------------------------
(* The calls. *)

(* Between calls the view shows what the variables say. *)
LEMMA IdleParts ==
  ASSUME NEW first, Typed, NEW v, Holds(first, v), NEW t \in Trees, pc = "idle"
  PROVE  /\ tree = None /\ out = None /\ t # None /\ IsHeap(heap) /\ Shape(heap, v)
         /\ v.top[t] = root[t] /\ v.held[t] = seen[t]
         /\ seen[t] \in Seq(Keys \X Vals) /\ Abstract!Sorted(seen[t])
         /\ root[t] \in Allocated(heap) \cup {tail, NoTree}
         /\ root[t] \in {tail, NoTree} => seen[t] = <<>>
<1>1. tree = None /\ out = None /\ None \notin Trees
  BY MarksAssumption DEF Typed
<1>2. IsHeap(heap) /\ Shape(heap, v) /\ v.top[t] = root[t] /\ v.held[t] = seen[t]
  BY <1>1 DEF Holds, Good, Settled
<1>3. seen[t] \in Seq(Keys \X Vals) /\ Abstract!Sorted(seen[t])
  BY DEF Typed
<1>4. root[t] \in Allocated(heap) \cup {tail, NoTree}
  BY <1>2 DEF Shape, TopFits
<1>5. ASSUME root[t] \in {tail, NoTree} PROVE seen[t] = <<>>
  <2>1. Len(v.held[t]) = 0
    BY <1>2, <1>5 DEF Holds, Good, Contents, Extent
  <2> QED
    BY <1>2, <1>3, <2>1
<1> QED
  BY <1>1, <1>2, <1>3, <1>4, <1>5

(* View v2 shows tree t with x at its top and with elements s, and the     *)
(* other trees as v does.                                                  *)
Shows(v2, v, t, x, s) ==
  /\ v2.top[t] = x /\ v2.held[t] = s
  /\ \A o \in Trees : o # t => v2.top[o] = v.top[o] /\ v2.held[o] = v.held[o]

(* A cleared view shows an empty tree and the others as they were. *)
LEMMA ClearedParts ==
  ASSUME NEW v, NEW t \in Trees, NEW mark
  PROVE  Shows(Cleared(v, t, mark), v, t, mark, <<>>)
BY DEF Cleared, Shows

(* rbtree_create keeps the invariant. *)
LEMMA CreateKeeps ==
  ASSUME NEW first, IInv(first), NEW t \in Trees, Create(t)
  PROVE  IInv(first)' /\ Step(first)
<1>1. Typed
  BY DEF IInv
<1>2. PICK v : Holds(first, v)
  BY DEF IInv
<1>3. /\ pc = "idle" /\ root[t] = NoTree /\ root' = [root EXCEPT ![t] = tail] /\ heap' = heap
      /\ Return(t, 0, None)
  BY DEF Create
<1>4. /\ tree = None /\ IsHeap(heap) /\ Shape(heap, v) /\ v.top[t] = NoTree /\ seen[t] = <<>>
  BY <1>1, <1>2, <1>3, IdleParts
<1>5. Allocated(heap) = {m \in Allocated(heap) : v.own[m] # t}
  <2>1. ASSUME NEW m \in Allocated(heap) PROVE v.own[m] # t
    <3>1. v.top[v.own[m]] \in Nodes
      BY <1>4, ShapeParts DEF Allocated
    <3> QED
      BY <1>4, <3>1, MarksAssumption
  <2> QED
    BY <2>1
<1>6. Good(heap, Cleared(v, t, tail))
  <2>1. Good(heap, v)
    BY <1>2 DEF Holds
  <2> QED
    BY <1>4, <1>5, <2>1, ClearGood
<1> DEFINE v2 == Cleared(v, t, tail)
<1>7. Shows(v2, v, t, tail, <<>>)
  BY ClearedParts
<1>8. Good(heap', v2)
  BY <1>3, <1>6
<1> HIDE DEF v2
<1>9. /\ root' \in [Trees -> Nodes \cup {tail, NoTree}] /\ root'[t] = tail
      /\ \A o \in Trees : o # t => root'[o] = root[o]
  BY <1>1, <1>3 DEF Typed
<1>10. Makes(first, seen[t], v2.held[t], Answer(0, None))
  BY <1>4, <1>7 DEF Makes, Shows
<1> QED
  BY <1>1, <1>2, <1>3, <1>4, <1>7, <1>8, <1>9, <1>10, Returns DEF Shows

(* The nodes of a tree are those that the view says are in it. *)
LEMMA MembersOwned ==
  ASSUME NEW v, IsHeap(heap), Shape(heap, v), NEW t \in Trees, v.top[t] = root[t], root[t] # NoTree
  PROVE  Members(t) = {m \in Allocated(heap) : v.own[m] = t}
<1> DEFINE s == NodesInOrder(heap, root[t])
           k == Extent(v, t)
<1>1. Lists(heap, v, t, s)
  BY OrderedNodes
<1> HIDE DEF s
<1>2. /\ DOMAIN s = 1 .. k
      /\ \A i \in 1 .. k : s[i] \in Allocated(heap) /\ v.own[s[i]] = t
      /\ \A m \in Allocated(heap) : v.own[m] = t => v.at[m] \in 1 .. k /\ s[v.at[m]] = m
  BY <1>1 DEF Lists
<1> HIDE DEF k
<1>3. Members(t) = {s[i] : i \in DOMAIN s}
  BY DEF Members, s
<1> QED
  BY <1>2, <1>3

(* rbtree_delete keeps the invariant. *)
LEMMA DeleteKeeps ==
  ASSUME NEW first, first = FALSE, IInv(first), NEW t \in Trees, Delete(t)
  PROVE  IInv(first)' /\ Step(first)
<1> DEFINE L == Lost(t)
           h2 == [n \in DOMAIN heap |-> IF n \in L THEN Unallocated ELSE heap[n]]
<1>1. Typed
  BY DEF IInv
<1>2. PICK v : Holds(first, v)
  BY DEF IInv
<1>3. /\ pc = "idle" /\ root[t] # NoTree /\ root' = [root EXCEPT ![t] = NoTree]
      /\ heap' = Residue(h2) /\ Return(t, 0, None)
  BY DEF Delete, Idle, Live
<1>4. tree = None /\ IsHeap(heap) /\ Shape(heap, v) /\ v.top[t] = root[t]
  BY <1>1, <1>2, <1>3, IdleParts
<1>5. L = {m \in Allocated(heap) : v.own[m] = t}
  BY <1>3, <1>4, MembersOwned DEF Lost
<1> HIDE DEF L
<1>6. /\ IsHeap(h2) /\ Allocated(h2) = Allocated(heap) \ L
      /\ \A m \in Nodes \cup {head, tail} : m \notin L => h2[m] = heap[m]
  <2>1. L \in SUBSET Allocated(heap)
    BY <1>5
  <2> QED
    BY <1>4, <2>1, DropNodes
<1> HIDE DEF h2
<1>7. /\ IsHeap(heap') /\ Allocated(heap') = Allocated(h2)
      /\ \A m \in Nodes : heap'[m] = h2[m]
  BY <1>3, <1>6, ResidueHeap DEF SameElements
<1>8. Allocated(heap') = {m \in Allocated(heap) : v.own[m] # t}
  BY <1>5, <1>6, <1>7
<1>9. \A m \in Allocated(heap') : heap'[m] = heap[m]
  <2>1. Allocated(heap) \subseteq Nodes
    BY DEF Allocated
  <2> QED
    BY <1>5, <1>6, <1>7, <1>8, <2>1
<1>10. Good(heap', Cleared(v, t, NoTree))
  <2>1. Good(heap, v)
    BY <1>2 DEF Holds
  <2> QED
    BY <1>7, <1>8, <1>9, <2>1, ClearGood
<1> DEFINE v2 == Cleared(v, t, NoTree)
<1>11. Shows(v2, v, t, NoTree, <<>>)
  BY ClearedParts
<1>12. Good(heap', v2)
  BY <1>10
<1> HIDE DEF v2
<1>13. /\ root' \in [Trees -> Nodes \cup {tail, NoTree}] /\ root'[t] = NoTree
       /\ \A o \in Trees : o # t => root'[o] = root[o]
  BY <1>1, <1>3 DEF Typed
<1>14. Makes(first, seen[t], v2.held[t], Answer(0, None))
  BY <1>11 DEF Makes, Shows
<1> QED
  BY <1>1, <1>2, <1>3, <1>4, <1>11, <1>12, <1>13, <1>14, Returns DEF Shows

(* The first element of a tree. *)
LEMMA FirstElement ==
  ASSUME NEW k \in Keys, NEW w \in Vals
  PROVE  /\ Abstract!InsertAt(<<>>, 1, <<k, w>>) = <<<<k, w>>>>
         /\ Abstract!Sorted(<<<<k, w>>>>)
<1> DEFINE e == <<k, w>>
<1>1. e \in Keys \X Vals
  OBVIOUS
<1> HIDE DEF e
<1> DEFINE s2 == Abstract!InsertAt(<<>>, 1, e)
<1>2. s2 \in Seq(Keys \X Vals) /\ PutIn(s2, <<>>, 1, e)
  <2>1. <<>> \in Seq(Keys \X Vals) /\ 1 \in 1 .. Len(<<>>) + 1
    OBVIOUS
  <2> QED
    BY <1>1, <2>1, InsertAtParts, Zenon
<1> HIDE DEF s2
<1>3. Len(s2) = 1 /\ s2[1] = e
  BY <1>2 DEF PutIn
<1>4. s2 = <<e>>
  BY <1>2, <1>3
<1>5. Abstract!Sorted(<<e>>)
  <2>1. DOMAIN <<e>> = {1}
    OBVIOUS
  <2>2. \A i, j \in {1} : ~(i < j)
    OBVIOUS
  <2> QED
    BY <2>1, <2>2, Zenon DEF Abstract!Sorted
<1> QED
  BY <1>4, <1>5 DEF s2, e

(* A planted view shows a tree of one element and the others as they     *)
(* were.                                                                 *)
LEMMA PlantedParts ==
  ASSUME NEW v, NEW t \in Trees, NEW x, NEW e
  PROVE  Shows(Planted(v, t, x, e), v, t, x, <<e>>)
BY DEF Planted, Shows

(* rbtree_elem_insert into an empty tree keeps the invariant. *)
LEMMA InsertFirstKeeps ==
  ASSUME NEW first, IInv(first), NEW t \in Trees, NEW k \in Keys, NEW w \in Vals,
         InsertFirst(t, k, w)
  PROVE  IInv(first)' /\ Step(first)
<1> DEFINE x == Fresh(k)
           r == FreshNode(k, w)
<1>1. Typed
  BY DEF IInv
<1>2. PICK v : Holds(first, v)
  BY DEF IInv
<1>3. /\ pc = "idle" /\ root[t] = tail /\ root' = [root EXCEPT ![t] = x]
      /\ heap' = Put(heap, x, r) /\ Return(t, 0, None) /\ Free # {}
  BY DEF InsertFirst, Idle, Put
<1>4. tree = None /\ IsHeap(heap) /\ Shape(heap, v) /\ v.top[t] = tail /\ seen[t] = <<>>
  BY <1>1, <1>2, <1>3, IdleParts
<1>5. x \in Nodes \ Allocated(heap)
  BY <1>3, FreshIsFree DEF Free
<1>6. /\ r \in NodeStructs /\ r.up = head /\ r.idx = 0 /\ r.key = k /\ r.val = w
      /\ r.child[0] = tail /\ r.child[1] = tail
  BY FreshStruct
<1> HIDE DEF x, r
<1>7. /\ IsHeap(heap') /\ Allocated(heap') = Allocated(heap) \cup {x} /\ heap'[x] = r
      /\ \A m \in Nodes \cup {head, tail} : m # x => heap'[m] = heap[m]
  BY <1>3, <1>4, <1>5, <1>6, PutNode
<1>8. \A m \in Allocated(heap) : heap'[m] = heap[m]
  BY <1>5, <1>7 DEF Allocated
<1> DEFINE v2 == Planted(v, t, x, <<k, w>>)
<1>9. Good(heap', v2)
  <2>1. Good(heap, v)
    BY <1>2 DEF Holds
  <2>2. heap'[x].up = head /\ heap'[x].idx = 0 /\ heap'[x].child[0] = tail /\ heap'[x].child[1] = tail
    BY <1>6, <1>7
  <2>3. heap'[x].key = k /\ heap'[x].val = w
    BY <1>6, <1>7
  <2>4. Good(heap', Planted(v, t, x, <<heap'[x].key, heap'[x].val>>))
    BY <1>4, <1>5, <1>7, <1>8, <2>1, <2>2, PlantGood
  <2> QED
    BY <2>3, <2>4
<1>10. Shows(v2, v, t, x, <<<<k, w>>>>)
  BY PlantedParts
<1> HIDE DEF v2
<1>11. /\ root' \in [Trees -> Nodes \cup {tail, NoTree}] /\ root'[t] = x
       /\ \A o \in Trees : o # t => root'[o] = root[o]
  BY <1>1, <1>3, <1>5 DEF Typed
<1>12. Makes(first, seen[t], v2.held[t], Answer(0, None))
  <2>1. 1 \in 1 .. Len(seen[t]) + 1
    BY <1>4
  <2>2. v2.held[t] = Abstract!InsertAt(seen[t], 1, <<k, w>>) /\ Abstract!Sorted(v2.held[t])
    BY <1>4, <1>10, FirstElement DEF Shows
  <2>3. Does(first, seen[t], v2.held[t], None)
    BY <2>1, <2>2, Zenon DEF Does
  <2> QED
    BY <2>3, Zenon DEF Makes
<1> QED
  BY <1>1, <1>2, <1>3, <1>4, <1>9, <1>10, <1>11, <1>12, Returns DEF Shows

(* A grown view shows the tree with the new element and the others as    *)
(* they were.                                                            *)
LEMMA GrownParts ==
  ASSUME NEW v, NEW x \in Nodes, NEW p, NEW i, NEW e, NEW t \in Trees, v.own[p] = t
  PROVE  /\ Shows(Grown(v, x, p, i, e), v, t, v.top[t], Abstract!InsertAt(v.held[t], v.at[p] + i, e))
         /\ Grown(v, x, p, i, e).own[x] = t
BY DEF Grown, Shows

(* rbtree_elem_insert into a tree that has nodes keeps the invariant up  *)
(* to its loop.                                                          *)
LEMMA InsertBelowKeeps ==
  ASSUME NEW first, IInv(first), NEW t \in Trees, NEW k \in Keys, NEW w \in Vals,
         InsertBelow(t, k, w)
  PROVE  IInv(first)' /\ Step(first)
<1> DEFINE x == Fresh(k)
           p == InsertPoint(heap, root[t], k)
           i == InsertSide(heap, p, k)
           e == <<k, w>>
           h2 == Attached(heap, x, k, w, p)
           v2(v) == Grown(v, x, p, i, e)
<1>1. Typed
  BY DEF IInv
<1>2. PICK v : Holds(first, v)
  BY DEF IInv
<1>3. /\ pc = "idle" /\ root[t] \notin {tail, NoTree} /\ Free # {}
      /\ heap' = h2 /\ tree' = t /\ pc' = "insert_balance" /\ node' = x
      /\ UNCHANGED <<root, cut, out, seen, ret>>
  BY DEF InsertBelow, Enter, Idle, Live
<1>4. /\ tree = None /\ out = None /\ t # None /\ IsHeap(heap) /\ Shape(heap, v)
      /\ v.top[t] = root[t] /\ v.held[t] = seen[t]
      /\ seen[t] \in Seq(Keys \X Vals) /\ Abstract!Sorted(seen[t])
      /\ root[t] \in Allocated(heap)
  BY <1>1, <1>2, <1>3, IdleParts
<1>5. x \in Nodes \ Allocated(heap)
  BY <1>3, FreshIsFree DEF Free
<1>6. Good(heap, v)
  BY <1>2 DEF Holds
<1>7. InOrderOfKeys(heap, v, t)
  BY <1>4, <1>6, SortedNodes
<1>8. /\ p \in Allocated(heap) /\ v.own[p] = t /\ i \in 0 .. 1 /\ heap[p].child[i] = tail
      /\ Splits(heap, v, t, k, v.at[p] + i)
  BY <1>4, <1>7, InsertPointParts
<1> HIDE DEF x, p
<1>9. i = InsertSide(heap, p, k)
  OBVIOUS
<1> HIDE DEF i, e
<1>10. /\ IsHeap(h2) /\ Grafted(heap, h2, x, p, i) /\ h2[x].key = k /\ h2[x].val = w
       /\ \A m \in Allocated(heap) : h2[m].key = heap[m].key /\ h2[m].val = heap[m].val
  BY <1>4, <1>5, <1>8, <1>9, AttachedGrafts
<1> HIDE DEF h2
<1>11. <<h2[x].key, h2[x].val>> = e
  BY <1>10 DEF e
<1>12. Good(h2, Grown(v, x, p, i, <<h2[x].key, h2[x].val>>))
  BY <1>6, <1>8, <1>10, GraftGood
<1>13. Good(heap', v2(v))
  BY <1>3, <1>11, <1>12
<1> DEFINE j == v.at[p] + i
<1>14. /\ Shows(v2(v), v, t, v.top[t], Abstract!InsertAt(v.held[t], j, e)) /\ v2(v).own[x] = t
  BY <1>5, <1>8, GrownParts
<1>15. j \in 1 .. Len(seen[t]) + 1
  <2>1. v.at[p] \in 1 .. Len(seen[t])
    BY <1>4, <1>6, <1>8, PlaceParts
  <2>2. Len(seen[t]) \in Nat
    BY <1>4
  <2> DEFINE a == v.at[p]
             n == Len(seen[t])
  <2>3. a \in 1 .. n /\ n \in Nat /\ i \in 0 .. 1
    BY <1>8, <2>1, <2>2
  <2> HIDE DEF a, n
  <2>4. a + i \in 1 .. n + 1
    BY <2>3
  <2> QED
    BY <2>4 DEF a, n
<1> HIDE DEF j
<1>16. Abstract!Sorted(Abstract!InsertAt(v.held[t], j, e))
  BY <1>4, <1>6, <1>8, <1>15, SplitsSorted DEF j, e
<1>17. PICK u : Shows(u, v, t, v.top[t], Abstract!InsertAt(v.held[t], j, e)) /\ u.own[x] = t /\ Good(heap', u)
  BY <1>13, <1>14
<1>18. Does(first, seen[t], u.held[t], out)
  <2>1. u.held[t] = Abstract!InsertAt(seen[t], j, <<k, w>>) /\ Abstract!Sorted(u.held[t])
    BY <1>4, <1>16, <1>17 DEF Shows, e
  <2> QED
    BY <1>4, <1>15, <2>1, Zenon DEF Does
<1>19. Allocated(heap') = Allocated(heap) \cup {x}
  BY <1>3, <1>10 DEF Grafted
<1>20. Typed'
  <2>1. node' \in Places(heap')
    BY <1>3, <1>19 DEF Places
  <2>2. cut' \in [victim : Nodes \cup {tail}, parent : Allocated(heap') \cup {head, tail},
                  child : Places(heap')]
    BY <1>1, <1>3, <1>19 DEF Typed, Places
  <2> QED
    BY <1>1, <1>3, <1>4, <2>1, <2>2 DEF Typed
<1>21. Settled(u)'
  <2>1. u.top[t] # NoTree
    BY <1>3, <1>4, <1>17 DEF Shows
  <2>2. \A o \in Trees : v.top[o] = root[o] /\ v.held[o] = seen[o]
    BY <1>2, <1>4, MarksAssumption DEF Holds, Settled
  <2>3. \A o \in Trees : o # t => u.top[o] = root[o] /\ u.held[o] = seen[o]
    BY <1>17, <2>2 DEF Shows
  <2>4. tree' = t /\ root' = root /\ seen' = seen
    BY <1>3
  <2> QED
    BY <2>1, <2>3, <2>4 DEF Settled
<1>22. Pending(first, u)'
  <2>1. Owned(u, node)'
    BY <1>3, <1>17, <1>19 DEF Owned
  <2> QED
    BY <1>3, <1>18, <2>1 DEF Pending
<1> QED
  BY <1>3, <1>17, <1>20, <1>21, <1>22 DEF IInv, Holds, Step

(* The view with another element shows the other trees as they were. *)
LEMMA ReplacedParts ==
  ASSUME NEW v, NEW n, NEW e, NEW t \in Trees, v.own[n] = t
  PROVE  /\ Shows(Replaced(v, n, e), v, t, v.top[t], [v.held[t] EXCEPT ![v.at[n]] = e])
         /\ Replaced(v, n, e).own = v.own /\ Replaced(v, n, e).at = v.at
BY DEF Replaced, Shows

(* A call that finds nothing keeps the invariant. *)
LEMMA Misses ==
  ASSUME NEW first, Typed, NEW v, Holds(first, v), NEW t \in Trees, pc = "idle",
         UNCHANGED <<heap, root>>, Return(t, -1, None)
  PROVE  IInv(first)' /\ Step(first)
<1>1. tree = None /\ v.top[t] = root[t] /\ v.held[t] = seen[t]
  BY IdleParts
<1>2. /\ root' \in [Trees -> Nodes \cup {tail, NoTree}]
      /\ \A o \in Trees : o # t => root'[o] = root[o]
  BY DEF Typed
<1>3. Good(heap', v)
  BY DEF Holds
<1>4. Makes(first, seen[t], v.held[t], Answer(-1, None))
  BY <1>1 DEF Makes
<1> QED
  BY <1>1, <1>2, <1>3, <1>4, Returns

(* rbtree_elem_update keeps the invariant. *)
LEMMA ElemUpdateKeeps ==
  ASSUME NEW first, IInv(first), NEW t \in Trees, NEW k \in Keys, NEW w \in Vals,
         ElemUpdate(t, k, w)
  PROVE  IInv(first)' /\ Step(first)
<1> DEFINE n == iter_value(heap, root[t], k)
<1>1. Typed
  BY DEF IInv
<1>2. PICK v : Holds(first, v)
  BY DEF IInv
<1>3. /\ pc = "idle" /\ root[t] # NoTree /\ root' = root
      /\ IF n = tail THEN heap' = heap /\ Return(t, -1, None)
         ELSE heap' = [heap EXCEPT ![n].val = w] /\ Return(t, 0, None)
  BY DEF ElemUpdate, Idle, Live
<1>4. /\ tree = None /\ IsHeap(heap) /\ Shape(heap, v) /\ v.top[t] = root[t] /\ v.held[t] = seen[t]
      /\ seen[t] \in Seq(Keys \X Vals)
  BY <1>1, <1>2, <1>3, IdleParts
<1>5. n # tail => n \in Allocated(heap) /\ v.own[n] = t
  <2>1. root[t] # NoTree
    BY <1>3
  <2> QED
    BY <1>4, <2>1, ValueParts
<1> HIDE DEF n
<1>6. CASE n = tail
  BY <1>1, <1>2, <1>3, <1>6, Misses
<1>7. CASE n # tail
  <2>1. n \in Allocated(heap) /\ v.own[n] = t /\ heap' = [heap EXCEPT ![n].val = w] /\ Return(t, 0, None)
    BY <1>3, <1>5, <1>7
  <2>2. /\ IsHeap(heap') /\ Allocated(heap') = Allocated(heap) /\ SameLinks(heap, heap')
        /\ heap'[n].key = heap[n].key /\ heap'[n].val = w
        /\ \A l \in Nodes \cup {head, tail} : l # n => heap'[l] = heap[l]
    <3> DEFINE h2 == ValueWritten(heap, n, w)
    <3>1. /\ IsHeap(h2) /\ Allocated(h2) = Allocated(heap) /\ SameLinks(heap, h2)
          /\ h2[n].key = heap[n].key /\ h2[n].val = w
          /\ \A l \in Nodes \cup {head, tail} : l # n => h2[l] = heap[l]
      BY <1>4, <2>1, UpdatedElement
    <3>2. heap' = h2
      BY <2>1 DEF ValueWritten
    <3> HIDE DEF h2
    <3> QED
      BY <3>1, <3>2
  <2>3. Good(heap, v)
    BY <1>2 DEF Holds
  <2>4. \A m \in Allocated(heap) : m # n => heap'[m].key = heap[m].key /\ heap'[m].val = heap[m].val
    BY <2>2 DEF Allocated
  <2> DEFINE e == <<heap'[n].key, heap'[n].val>>
             u == Replaced(v, n, e)
  <2>5. Good(heap', u)
    BY <2>1, <2>2, <2>3, <2>4, ReplaceGood
  <2>6. Shows(u, v, t, v.top[t], [v.held[t] EXCEPT ![v.at[n]] = e])
    BY <2>1, ReplacedParts
  <2>7. v.at[n] \in 1 .. Len(seen[t]) /\ seen[t][v.at[n]] = <<heap[n].key, heap[n].val>>
    BY <1>4, <2>1, <2>3, PlaceParts
  <2>8. e = <<seen[t][v.at[n]][1], w>>
    BY <2>2, <2>7
  <2> HIDE DEF u, e
  <2>9. Makes(first, seen[t], u.held[t], Answer(0, None))
    <3>1. u.held[t] = [seen[t] EXCEPT ![v.at[n]] = <<seen[t][v.at[n]][1], w>>]
      BY <1>4, <2>6, <2>8 DEF Shows
    <3> QED
      BY <2>7, <3>1, Zenon DEF Makes
  <2>10. /\ root' \in [Trees -> Nodes \cup {tail, NoTree}] /\ \A o \in Trees : root'[o] = root[o]
    BY <1>1, <1>3 DEF Typed
  <2>11. /\ tree \in {t, None} /\ u.top[t] = root'[t]
         /\ \A o \in Trees : o # t => u.top[o] = v.top[o] /\ u.held[o] = v.held[o]
    BY <1>4, <2>6, <2>10 DEF Shows
  <2>12. Return(t, 0, None) /\ root' \in [Trees -> Nodes \cup {tail, NoTree}]
         /\ \A o \in Trees : o # t => root'[o] = root[o]
    BY <2>1, <2>10
  <2> QED
    BY <1>1, <1>2, <2>5, <2>9, <2>11, <2>12, Returns
<1> QED
  BY <1>6, <1>7

-----------------------------------------------------------------------------

(* rbtree_iter_discard, called with a node of the tree, keeps the        *)
(* invariant up to its loops.                                            *)
LEMMA BeginDiscardKeeps ==
  ASSUME NEW first, Typed, NEW v, Holds(first, v), NEW t \in Trees, pc = "idle", root[t] # NoTree,
         NEW n \in Allocated(heap), v.own[n] = t, NEW val \in {heap[n].val, None},
         first => v.at[n] = 1 /\ val = heap[n].val,
         BeginDiscard(t, n, val)
  PROVE  IInv(first)' /\ Step(first)
<1>1. /\ heap' = heap /\ tree' = t /\ pc' = "discard" /\ node' = n /\ out' = val
      /\ UNCHANGED <<root, cut, seen, ret>>
  BY DEF BeginDiscard, Enter
<1>2. tree = None /\ t # None /\ v.top[t] = root[t] /\ v.held[t] = seen[t]
  BY IdleParts
<1>3. Good(heap, v)
  BY DEF Holds
<1>4. v.at[n] \in 1 .. Len(seen[t]) /\ seen[t][v.at[n]] = <<heap[n].key, heap[n].val>>
  BY <1>2, <1>3, PlaceParts
<1>5. seen[t][v.at[n]][2] = heap[n].val
  BY <1>4
<1>6. Does(first, seen[t], Abstract!RemoveAt(v.held[t], v.at[n]), val)
  BY <1>2, <1>4, <1>5, Zenon DEF Does
<1>7. heap[n].val \in Vals
  BY <1>3, HeapParts DEF Good
<1>8. Typed'
  <2>1. node' \in Places(heap')
    BY <1>1 DEF Places
  <2> QED
    BY <1>1, <1>2, <1>7, <2>1 DEF Typed
<1>9. Settled(v)'
  <2>1. \A o \in Trees : v.top[o] = root[o] /\ v.held[o] = seen[o]
    BY <1>2, MarksAssumption DEF Holds, Settled
  <2>2. tree' = t /\ root' = root /\ seen' = seen
    BY <1>1
  <2> QED
    BY <2>1, <2>2 DEF Settled
<1>10. Pending(first, v)'
  <2>1. Owned(v, node)'
    BY <1>1 DEF Owned
  <2> QED
    BY <1>1, <1>6, <2>1 DEF Pending
<1> QED
  BY <1>1, <1>3, <1>8, <1>9, <1>10 DEF IInv, Holds, Step

(* So do rbtree_elem_delete and rbtree_elem_remove once they have        *)
(* searched.                                                             *)
LEMMA DiscardFoundKeeps ==
  ASSUME NEW first, Typed, NEW v, Holds(first, v), NEW t \in Trees, pc = "idle", root[t] # NoTree,
         NEW n, n # tail => n \in Allocated(heap) /\ v.own[n] = t,
         first /\ n # tail => v.at[n] = 1,
         DiscardFound(t, n)
  PROVE  IInv(first)' /\ Step(first)
<1>1. CASE n = tail /\ UNCHANGED <<heap, root>> /\ Return(t, -1, None)
  BY <1>1, Misses
<1>2. CASE n # tail /\ BeginDiscard(t, n, heap[n].val)
  BY <1>2, BeginDiscardKeeps
<1> QED
  BY <1>1, <1>2 DEF DiscardFound

(* rbtree_elem_delete keeps the invariant; with index 0 it begins to     *)
(* take out the first element.                                           *)
LEMMA ElemDeleteKeeps ==
  ASSUME NEW first, IInv(first), NEW t \in Trees, NEW i \in Nat, first => i = 0, ElemDelete(t, i)
  PROVE  IInv(first)' /\ Step(first)
<1> DEFINE n == iter_index(heap, root[t], i)
<1>1. Typed
  BY DEF IInv
<1>2. PICK v : Holds(first, v)
  BY DEF IInv
<1>3. pc = "idle" /\ root[t] # NoTree /\ DiscardFound(t, n)
  BY DEF ElemDelete, Idle, Live
<1>4. IsHeap(heap) /\ Shape(heap, v) /\ v.top[t] = root[t]
  BY <1>1, <1>2, <1>3, IdleParts
<1>5. /\ n # tail => n \in Allocated(heap) /\ v.own[n] = t
      /\ i = 0 /\ v.top[t] # tail => n # tail /\ v.at[n] = 1
  BY <1>3, <1>4, IndexParts
<1>6. v.top[t] = tail => n = tail
  <2>1. ASSUME n # tail PROVE v.top[t] # tail
    <3>1. v.top[t] \in Allocated(heap)
      BY <1>4, <1>5, <2>1, ShapeParts
    <3>2. tail \notin Allocated(heap)
      BY <1>4, HeapParts
    <3> QED
      BY <3>1, <3>2
  <2> QED
    BY <2>1
<1> HIDE DEF n
<1>7. first /\ n # tail => v.at[n] = 1
  BY <1>5, <1>6
<1> QED
  BY <1>1, <1>2, <1>3, <1>5, <1>7, DiscardFoundKeeps

(* rbtree_elem_remove keeps the invariant. *)
LEMMA ElemRemoveKeeps ==
  ASSUME NEW first, first = FALSE, IInv(first), NEW t \in Trees, NEW k \in Keys, ElemRemove(t, k)
  PROVE  IInv(first)' /\ Step(first)
<1> DEFINE n == iter_value(heap, root[t], k)
<1>1. Typed
  BY DEF IInv
<1>2. PICK v : Holds(first, v)
  BY DEF IInv
<1>3. pc = "idle" /\ root[t] # NoTree /\ DiscardFound(t, n)
  BY DEF ElemRemove, Idle, Live
<1>4. IsHeap(heap) /\ Shape(heap, v) /\ v.top[t] = root[t]
  BY <1>1, <1>2, <1>3, IdleParts
<1>5. n # tail => n \in Allocated(heap) /\ v.own[n] = t
  BY <1>3, <1>4, ValueParts
<1> HIDE DEF n
<1> QED
  BY <1>1, <1>2, <1>3, <1>5, DiscardFoundKeeps

(* rbtree_iter_discard called by a client keeps the invariant. *)
LEMMA IterDiscardKeeps ==
  ASSUME NEW first, first = FALSE, IInv(first), NEW t \in Trees, NEW n \in Nodes, IterDiscard(t, n)
  PROVE  IInv(first)' /\ Step(first)
<1>1. Typed
  BY DEF IInv
<1>2. PICK v : Holds(first, v)
  BY DEF IInv
<1>3. pc = "idle" /\ root[t] # NoTree /\ n \in Members(t) /\ BeginDiscard(t, n, None)
  BY DEF IterDiscard, Idle, Live
<1>4. IsHeap(heap) /\ Shape(heap, v) /\ v.top[t] = root[t]
  BY <1>1, <1>2, <1>3, IdleParts
<1>5. n \in Allocated(heap) /\ v.own[n] = t
  BY <1>3, <1>4, MembersOwned
<1> QED
  BY <1>1, <1>2, <1>3, <1>5, BeginDiscardKeeps

-----------------------------------------------------------------------------
(* The loops. *)

(* Inside a call there is a tree that it works on. *)
LEMMA BusyParts ==
  ASSUME NEW first, IInv(first), pc # "idle"
  PROVE  \E v : /\ Holds(first, v) /\ Typed /\ tree \in Trees /\ tree # None
                /\ Good(heap, v) /\ IsHeap(heap) /\ Shape(heap, v) /\ v.top[tree] # NoTree
                /\ Pending(first, v)
<1>1. Typed
  BY DEF IInv
<1>2. PICK v : Holds(first, v)
  BY DEF IInv
<1>3. tree \in Trees /\ tree # None
  BY <1>1 DEF Typed
<1>4. Good(heap, v) /\ v.top[tree] # NoTree /\ Pending(first, v)
  BY <1>2, <1>3 DEF Holds, Settled
<1> QED
  BY <1>1, <1>2, <1>3, <1>4 DEF Good

(* A step that changes no more than which node is at the top. *)
LEMMA Balances ==
  ASSUME NEW first, Typed, NEW v, Holds(first, v), tree \in Trees, tree # None,
         UNCHANGED <<root, tree, cut, out, seen, ret>>,
         Allocated(heap') = Allocated(heap), node' \in Places(heap),
         pc' \in {"insert_balance", "discard", "delete_balance", "unlink", "maintain", "abort"},
         NEW v2, Good(heap', v2), SameTrees(v, v2, tree), Pending(first, v2)'
  PROVE  IInv(first)' /\ Step(first)
<1>1. /\ v2.top[tree] # NoTree
      /\ \A t \in Trees : t # tree => v2.top[t] = v.top[t] /\ v2.held[t] = v.held[t]
  BY DEF SameTrees, Holds, Settled
<1>2. node' \in Places(heap')
  BY DEF Places
<1>3. cut' \in [victim : Nodes \cup {tail}, parent : Allocated(heap') \cup {head, tail},
                child : Places(heap')]
  BY DEF Typed, Places
<1>4. UNCHANGED <<root, tree, out, seen, ret>>
  OBVIOUS
<1> QED
  BY <1>1, <1>2, <1>3, <1>4, GoesOn

(* A step that leaves the heap as it is. *)
LEMMA Turns ==
  ASSUME NEW first, Typed, NEW v, Holds(first, v), tree \in Trees, tree # None,
         UNCHANGED <<heap, root, tree, cut, out, seen, ret>>, node' \in Places(heap),
         pc' \in {"insert_balance", "discard", "delete_balance", "unlink", "maintain", "abort"},
         Pending(first, v)'
  PROVE  IInv(first)' /\ Step(first)
<1>1. SameTrees(v, v, tree)
  BY DEF SameTrees
<1>2. Good(heap', v) /\ Allocated(heap') = Allocated(heap)
  BY DEF Holds
<1>3. UNCHANGED <<root, tree, cut, out, seen, ret>>
  OBVIOUS
<1> QED
  BY <1>1, <1>2, <1>3, Balances

(* A failed assert keeps the invariant. *)
LEMMA AbortKeeps ==
  ASSUME NEW first, Typed, NEW v, Holds(first, v), tree \in Trees, tree # None, Abort
  PROVE  IInv(first)' /\ Step(first)
<1>1. /\ UNCHANGED <<heap, root, tree, cut, out, seen, ret>> /\ pc' = "abort" /\ node' = node
  BY DEF Abort, Enter
<1>2. node' \in Places(heap)
  BY <1>1 DEF Typed
<1>3. Pending(first, v)'
  BY <1>1 DEF Pending
<1> QED
  BY <1>1, <1>2, <1>3, Turns

(* Writes of sizes and colours keep the trees and their elements. *)
LEMMA KeptGood ==
  ASSUME NEW h, NEW h2, NEW v, Good(h, v), IsHeap(h2), SameElements(h, h2), SameLinks(h, h2)
  PROVE  Good(h2, v)
<1>1. Shape(h2, v)
  BY SameShape DEF Good, SameElements
<1>2. Contents(h2, v)
  BY DEF Good, Contents, SameElements
<1> QED
  BY <1>1, <1>2 DEF Good

(* An iteration of rbtree_insert_balance keeps the invariant. *)
LEMMA InsertBalanceKeeps ==
  ASSUME NEW first, IInv(first), InsertBalance
  PROVE  IInv(first)' /\ Step(first)
<1> DEFINE p == heap[node].up
           gp == heap[p].up
<1>1. pc = "insert_balance"
  BY DEF InsertBalance
<1>2. PICK v : /\ Holds(first, v) /\ Typed /\ tree \in Trees /\ tree # None
               /\ Good(heap, v) /\ IsHeap(heap) /\ Shape(heap, v) /\ v.top[tree] # NoTree
               /\ Pending(first, v)
  BY <1>1, BusyParts
<1>3. node \in Allocated(heap) /\ v.own[node] = tree /\ Does(first, seen[tree], v.held[tree], out)
  BY <1>1, <1>2 DEF Pending, Owned
<1>4. CASE /\ pc' = "maintain" /\ node' = node
           /\ UNCHANGED <<heap, root, tree, cut, out, seen, ret>>
  <2>1. Pending(first, v)'
    <3>1. Owned(v, node)'
      BY <1>3, <1>4 DEF Owned
    <3> QED
      BY <1>3, <1>4, <3>1 DEF Pending
  <2>2. node' \in Places(heap)
    BY <1>3, <1>4 DEF Places
  <2> QED
    BY <1>2, <1>4, <2>1, <2>2, Turns
<1>5. CASE Abort
  BY <1>2, <1>5, AbortKeeps
<1>6. ASSUME ParentIsRed(heap, node), ~is_red(heap, gp),
             \/ heap' = Split(heap, node) /\ pc' = "insert_balance"
             \/ heap' = Rotated(heap, node) /\ pc' = "maintain",
             node' = gp, UNCHANGED <<root, tree, cut, out, seen, ret>>
      PROVE  IInv(first)' /\ Step(first)
  <2>1. p # head
    BY <1>6 DEF ParentIsRed
  <2>2. p \in Allocated(heap) /\ v.own[p] = tree
    BY <1>2, <1>3, <2>1, UpParts
  <2>3. gp # head
    <3>1. heap[head].red = TRUE
      BY <1>2, HeapParts
    <3> QED
      BY <1>6, <3>1 DEF is_red
  <2>4. gp \in Allocated(heap) /\ v.own[gp] = tree
    BY <1>2, <2>2, <2>3, UpParts
  <2> HIDE DEF gp
  <2>5. Rebalanced(heap, heap', v, tree)
    <3>1. heap[node].up # head /\ heap[heap[node].up].up # head
      BY <2>1, <2>3 DEF gp
    <3>2. CASE heap' = Split(heap, node)
      BY <1>2, <1>3, <3>1, <3>2, SplitRebalances
    <3>3. CASE heap' = Rotated(heap, node)
      BY <1>2, <1>3, <3>1, <3>3, RotatedRebalances
    <3> QED
      BY <1>6, <3>2, <3>3
  <2>6. PICK v2 : Good(heap', v2) /\ SameTrees(v, v2, tree)
    BY <1>2, <2>5, RebalancedGood
  <2>7. Allocated(heap') = Allocated(heap)
    BY <2>5 DEF Rebalanced, SameElements
  <2>8. v2.own = v.own /\ v2.held = v.held
    BY <2>6 DEF SameTrees
  <2>9. Pending(first, v2)'
    <3>1. Owned(v2, node)'
      BY <1>6, <2>4, <2>7, <2>8 DEF Owned
    <3>2. Does(first, seen[tree], v2.held[tree], out)'
      BY <1>3, <1>6, <2>8
    <3>3. pc' \in {"insert_balance", "maintain"}
      BY <1>6
    <3> QED
      BY <3>1, <3>2, <3>3 DEF Pending
  <2>10. node' \in Places(heap)
    BY <1>6, <2>4 DEF Places
  <2>11. pc' \in {"insert_balance", "discard", "delete_balance", "unlink", "maintain", "abort"}
    BY <1>6
  <2> QED
    BY <1>2, <1>6, <2>6, <2>7, <2>9, <2>10, <2>11, Balances
<1>7. \/ /\ pc' = "maintain" /\ node' = node
         /\ UNCHANGED <<heap, root, tree, cut, out, seen, ret>>
      \/ Abort
      \/ /\ ParentIsRed(heap, node) /\ ~is_red(heap, gp)
         /\ \/ heap' = Split(heap, node) /\ pc' = "insert_balance"
            \/ heap' = Rotated(heap, node) /\ pc' = "maintain"
         /\ node' = gp /\ UNCHANGED <<root, tree, cut, out, seen, ret>>
  BY DEF InsertBalance, Enter, parent
<1> QED
  BY <1>4, <1>5, <1>6, <1>7

-----------------------------------------------------------------------------

(* An iteration of rbtree_maintain keeps the invariant, and its end      *)
(* leaves what the call is to leave.                                     *)
LEMMA MaintainKeeps ==
  ASSUME NEW first, IInv(first), Maintain
  PROVE  IInv(first)' /\ Step(first)
<1> DEFINE p == heap[node].up
<1>1. pc = "maintain"
  BY DEF Maintain
<1>2. PICK v : /\ Holds(first, v) /\ Typed /\ tree \in Trees /\ tree # None
               /\ Good(heap, v) /\ IsHeap(heap) /\ Shape(heap, v) /\ v.top[tree] # NoTree
               /\ Pending(first, v)
  BY <1>1, BusyParts
<1>3. /\ Does(first, seen[tree], v.held[tree], out)
      /\ \/ Owned(v, node)
         \/ node = tail /\ Owned(v, heap[tail].up)
         \/ node = tail /\ heap[tail].up = head /\ v.top[tree] = tail
  BY <1>1, <1>2 DEF Pending
<1>4. head \notin Allocated(heap) /\ tail \notin Allocated(heap)
  BY <1>2, HeapParts
<1>5. CASE /\ p # head /\ heap' = resize(heap, p) /\ pc' = "maintain" /\ node' = p
           /\ UNCHANGED <<root, tree, cut, out, seen, ret>>
  <2>1. p \in Allocated(heap) /\ v.own[p] = tree
    <3>1. CASE Owned(v, node)
      <4>1. node \in Allocated(heap) /\ v.own[node] = tree
        BY <3>1 DEF Owned
      <4> QED
        BY <1>2, <1>5, <4>1, UpParts
    <3>2. CASE node = tail /\ Owned(v, heap[tail].up)
      BY <3>2 DEF Owned
    <3> QED
      BY <1>3, <1>5, <3>1, <3>2
  <2> HIDE DEF p
  <2>2. heap[p].child[0] \in Allocated(heap) \cup {tail} /\ heap[p].child[1] \in Allocated(heap) \cup {tail}
    BY <1>2, <2>1, ShapeParts
  <2>3. IsHeap(heap') /\ SameElements(heap, heap') /\ SameLinks(heap, heap')
    BY <1>2, <1>5, <2>1, <2>2, ResizeLinks
  <2>4. Good(heap', v)
    BY <1>2, <2>3, KeptGood
  <2>5. Allocated(heap') = Allocated(heap)
    BY <2>3 DEF SameElements
  <2>6. Pending(first, v)'
    <3>1. Owned(v, node)'
      BY <1>5, <2>1, <2>5 DEF Owned
    <3> QED
      BY <1>3, <1>5, <3>1 DEF Pending
  <2>7. node' \in Places(heap) /\ SameTrees(v, v, tree)
    BY <1>5, <2>1 DEF Places, SameTrees
  <2> QED
    BY <1>2, <1>5, <2>4, <2>5, <2>6, <2>7, Balances
<1>6. CASE /\ p = head /\ heap' = Residue(set_black(heap, node))
           /\ root' = [root EXCEPT ![tree] = node] /\ Return(tree, 0, out)
  <2>1. node \in Places(heap) /\ v.top[tree] = node
    <3>1. CASE Owned(v, node)
      <4>1. node \in Allocated(heap) /\ v.own[node] = tree
        BY <3>1 DEF Owned
      <4>2. v.top[v.own[node]] = node
        BY <1>2, <1>6, <4>1, ShapeParts
      <4> QED
        BY <4>1, <4>2 DEF Places
    <3>2. CASE node = tail /\ Owned(v, heap[tail].up)
      BY <1>4, <1>6, <3>2 DEF Owned
    <3>3. CASE node = tail /\ heap[tail].up = head /\ v.top[tree] = tail
      BY <3>3 DEF Places
    <3> QED
      BY <1>3, <3>1, <3>2, <3>3
  <2> DEFINE h2 == set_black(heap, node)
  <2>2. IsHeap(h2) /\ SameElements(heap, h2) /\ SameLinks(heap, h2)
    <3>1. SameLinks(heap, h2) /\ Rebalanced(heap, h2, v, tree)
      BY <1>2, <2>1, PaintRebalances
    <3> QED
      BY <3>1 DEF Rebalanced
  <2> HIDE DEF h2
  <2>3. Good(h2, v)
    BY <1>2, <2>2, KeptGood
  <2>4. IsHeap(heap') /\ SameElements(h2, heap') /\ SameLinks(h2, heap')
    <3>1. heap' = Residue(h2)
      BY <1>6 DEF h2
    <3> QED
      BY <2>2, <3>1, ResidueHeap
  <2>5. Good(heap', v)
    BY <2>3, <2>4, KeptGood
  <2>6. Makes(first, seen[tree], v.held[tree], Answer(0, out))
    BY <1>3, Zenon DEF Makes
  <2>7. /\ root' \in [Trees -> Nodes \cup {tail, NoTree}] /\ v.top[tree] = root'[tree]
        /\ \A o \in Trees : o # tree => root'[o] = root[o]
    <3>1. node \in Nodes \cup {tail} /\ root \in [Trees -> Nodes \cup {tail, NoTree}]
      BY <1>2, <2>1 DEF Places, Allocated, Typed
    <3> QED
      BY <1>2, <1>6, <2>1, <3>1
  <2>8. Return(tree, 0, out)
    BY <1>6
  <2> QED
    BY <1>2, <2>5, <2>6, <2>7, <2>8, Returns
<1>7. \/ /\ p # head /\ heap' = resize(heap, p) /\ pc' = "maintain" /\ node' = p
         /\ UNCHANGED <<root, tree, cut, out, seen, ret>>
      \/ /\ p = head /\ heap' = Residue(set_black(heap, node))
         /\ root' = [root EXCEPT ![tree] = node] /\ Return(tree, 0, out)
  BY DEF Maintain, Enter, parent, Up, NewRoot
<1> QED
  BY <1>5, <1>6, <1>7

(* The node that replaces another is its neighbour. *)
LEMMA ReplacementParts ==
  ASSUME NEW h, IsHeap(h), NEW v, Shape(h, v), NEW n \in Allocated(h),
         h[n].child[0] # tail, h[n].child[1] # tail
  PROVE  LET m == Replacement(h, n)
         IN  /\ m \in Allocated(h) /\ v.own[m] = v.own[n]
             /\ v.at[m] = v.at[n] + 1 \/ v.at[n] = v.at[m] + 1
<1> DEFINE l == h[n].child[0]
           r == h[n].child[1]
           e1 == Extreme(h, l, 1)
           e0 == Extreme(h, r, 0)
<1>1. l \in Allocated(h) /\ v.own[l] = v.own[n] /\ v.hi[l] = v.at[n] - 1
  BY LeftParts
<1>2. r \in Allocated(h) /\ v.own[r] = v.own[n] /\ v.lo[r] = v.at[n] + 1
  BY RightParts
<1>3. v.at[n] \in Nat
  BY ShapeParts
<1>4. 1 \in 0 .. 1 /\ 0 \in 0 .. 1
  OBVIOUS
<1>5. Replacement(h, n) = IF h[l].size > h[r].size THEN e1 ELSE e0
  BY DEF Replacement
<1> HIDE DEF l, r
<1>6. e1 \in Allocated(h) /\ v.own[e1] = v.own[l] /\ v.at[e1] = v.hi[l]
  BY <1>1, <1>4, ExtremeParts
<1>7. e0 \in Allocated(h) /\ v.own[e0] = v.own[r] /\ v.at[e0] = v.lo[r]
  BY <1>2, <1>4, ExtremeParts
<1> HIDE DEF e0, e1
<1>8. v.at[e0] = v.at[n] + 1
  BY <1>2, <1>7
<1>9. v.at[n] = v.at[e1] + 1
  <2> DEFINE a == v.at[n]
             b == v.at[e1]
  <2>1. b = a - 1 /\ a \in Nat
    BY <1>1, <1>3, <1>6
  <2> HIDE DEF a, b
  <2>2. a = b + 1
    BY <2>1
  <2> QED
    BY <2>2 DEF a, b
<1>10. v.own[e0] = v.own[n] /\ v.own[e1] = v.own[n]
  BY <1>1, <1>2, <1>6, <1>7
<1>11. CASE h[l].size > h[r].size
  BY <1>5, <1>6, <1>9, <1>10, <1>11, Zenon
<1>12. CASE ~(h[l].size > h[r].size)
  BY <1>5, <1>7, <1>8, <1>10, <1>12, Zenon
<1> QED
  BY <1>11, <1>12

(* An iteration of the first loop of rbtree_iter_discard keeps the       *)
(* invariant: the node still to be unlinked changes, the element to be   *)
(* taken out does not.                                                   *)
LEMMA DiscardKeeps ==
  ASSUME NEW first, IInv(first), Discard
  PROVE  IInv(first)' /\ Step(first)
<1> DEFINE n == node
           l == heap[n].child[0]
           r == heap[n].child[1]
           c == IF l = tail THEN r ELSE l
           m == Replacement(heap, n)
<1>1. pc = "discard"
  BY DEF Discard
<1>2. PICK v : /\ Holds(first, v) /\ Typed /\ tree \in Trees /\ tree # None
               /\ Good(heap, v) /\ IsHeap(heap) /\ Shape(heap, v) /\ v.top[tree] # NoTree
               /\ Pending(first, v)
  BY <1>1, BusyParts
<1>3. /\ n \in Allocated(heap) /\ v.own[n] = tree
      /\ Does(first, seen[tree], Abstract!RemoveAt(v.held[tree], v.at[n]), out)
  BY <1>1, <1>2 DEF Pending, Owned
<1>4. CASE /\ l # tail /\ r # tail /\ heap' = Moved(heap, n, m) /\ pc' = "discard" /\ node' = m
           /\ UNCHANGED <<root, tree, cut, out, seen, ret>>
  <2>1. m \in Allocated(heap) /\ v.own[m] = tree /\ (v.at[m] = v.at[n] + 1 \/ v.at[n] = v.at[m] + 1)
    BY <1>2, <1>3, <1>4, ReplacementParts
  <2> HIDE DEF m
  <2>2. /\ IsHeap(heap') /\ Allocated(heap') = Allocated(heap) /\ SameLinks(heap, heap')
        /\ heap'[n].key = heap[m].key /\ heap'[n].val = heap[m].val
        /\ \A k \in Nodes \cup {head, tail} : k # n => heap'[k] = heap[k]
    BY <1>2, <1>3, <1>4, <2>1, MovedElement
  <2>3. \A k \in Allocated(heap) : k # n => heap'[k].key = heap[k].key /\ heap'[k].val = heap[k].val
    BY <2>2 DEF Allocated
  <2> DEFINE e == <<heap'[n].key, heap'[n].val>>
             s == v.held[tree]
  <2>4. PICK u : u = Replaced(v, n, e)
    OBVIOUS
  <2>5. Good(heap', u)
    BY <1>2, <1>3, <2>2, <2>3, <2>4, ReplaceGood
  <2>6. Shows(u, v, tree, v.top[tree], [s EXCEPT ![v.at[n]] = e]) /\ u.own = v.own /\ u.at = v.at
    BY <1>2, <1>3, <2>4, ReplacedParts
  <2>7. /\ s \in Seq(Keys \X Vals) /\ v.at[n] \in 1 .. Len(s) /\ v.at[m] \in 1 .. Len(s)
        /\ s[v.at[m]] = <<heap[m].key, heap[m].val>>
    BY <1>2, <1>3, <2>1, PlaceParts
  <2>8. e = s[v.at[m]]
    BY <2>2, <2>7
  <2> HIDE DEF e
  <2>9. Abstract!RemoveAt([s EXCEPT ![v.at[n]] = s[v.at[m]]], v.at[m]) = Abstract!RemoveAt(s, v.at[n])
    <3> HIDE DEF s
    <3> DEFINE i == v.at[n]
               j == v.at[m]
    <3>1. i \in 1 .. Len(s) /\ j \in 1 .. Len(s) /\ (j = i + 1 \/ i = j + 1) /\ s \in Seq(Keys \X Vals)
      BY <2>1, <2>7
    <3> HIDE DEF i, j
    <3>2. Abstract!RemoveAt([s EXCEPT ![i] = s[j]], j) = Abstract!RemoveAt(s, i)
      BY <3>1, EqualNeighbours
    <3> QED
      BY <3>2 DEF i, j
  <2>10. Abstract!RemoveAt(u.held[tree], u.at[m]) = Abstract!RemoveAt(s, v.at[n])
    BY <2>6, <2>8, <2>9 DEF Shows
  <2>11. Pending(first, u)'
    <3>1. Owned(u, node)'
      BY <1>4, <2>1, <2>2, <2>6 DEF Owned
    <3>2. Does(first, seen[tree], Abstract!RemoveAt(u.held[tree], u.at[node]), out)'
      BY <1>3, <1>4, <2>10
    <3>3. pc' = "discard"
      BY <1>4
    <3> QED
      BY <3>1, <3>2, <3>3 DEF Pending
  <2>12. UNCHANGED <<root, tree, out, seen, ret>> /\ pc' \in {"insert_balance", "discard", "delete_balance", "unlink", "maintain", "abort"}
    BY <1>4
  <2>13. node' \in Places(heap')
    BY <1>4, <2>1, <2>2 DEF Places
  <2>14. cut' \in [victim : Nodes \cup {tail}, parent : Allocated(heap') \cup {head, tail},
                   child : Places(heap')]
    BY <1>2, <1>4, <2>2 DEF Typed, Places
  <2>15. /\ u.top[tree] # NoTree
         /\ \A t \in Trees : t # tree => u.top[t] = v.top[t] /\ u.held[t] = v.held[t]
    BY <1>2, <2>6 DEF Shows
  <2> QED
    BY <1>2, <2>5, <2>11, <2>12, <2>13, <2>14, <2>15, GoesOn
<1>5. CASE Abort
  BY <1>2, <1>5, AbortKeeps
<1>6. CASE /\ l = tail \/ r = tail
           /\ cut' = [victim |-> n, parent |-> heap[n].up, child |-> c]
           /\ pc' \in {"unlink", "delete_balance"} /\ node' = n
           /\ UNCHANGED <<heap, root, tree, out, seen, ret>>
  <2>1. l \in Places(heap) /\ r \in Places(heap) /\ heap[n].up \in Allocated(heap) \cup {head}
    BY <1>2, <1>3, ShapeParts DEF Places
  <2>2. /\ (l = tail /\ c = r) \/ (r = tail /\ c = l)
        /\ c \in Places(heap)
    BY <1>6, <2>1
  <2> HIDE DEF c, l, r
  <2>3. n \in Nodes
    BY <1>3 DEF Allocated
  <2>4. cut' \in [victim : Nodes \cup {tail}, parent : Allocated(heap') \cup {head, tail},
                  child : Places(heap')]
    BY <1>6, <2>1, <2>2, <2>3
  <2>5. cut'.victim = n /\ cut'.parent = heap[n].up /\ cut'.child = c
    BY <1>6
  <2>6. CutFits(v)'
    <3>1. Owned(v, cut.victim)'
      BY <1>3, <1>6, <2>5 DEF Owned
    <3>2. heap' = heap
      BY <1>6
    <3> QED
      BY <2>2, <2>5, <3>1, <3>2 DEF CutFits, l, r
  <2>7. Under(v, n, n)
    BY <1>2, <1>3, ShapeParts DEF Under
  <2>8. Pending(first, v)'
    <3>1. Owned(v, node)'
      BY <1>3, <1>6 DEF Owned
    <3>2. Under(v, cut.victim, node)'
      BY <1>6, <2>5, <2>7
    <3>3. Does(first, seen[tree], Abstract!RemoveAt(v.held[tree], v.at[cut.victim]), out)'
      BY <1>3, <1>6, <2>5
    <3>4. pc' \in {"unlink", "delete_balance"}
      BY <1>6
    <3> QED
      BY <2>6, <3>1, <3>2, <3>3, <3>4 DEF Pending
  <2>9. UNCHANGED <<root, tree, out, seen, ret>> /\ pc' \in {"insert_balance", "discard", "delete_balance", "unlink", "maintain", "abort"}
    BY <1>6
  <2>10. node' \in Places(heap') /\ Good(heap', v)
    BY <1>2, <1>3, <1>6 DEF Places
  <2> QED
    BY <1>2, <2>4, <2>8, <2>9, <2>10, GoesOn
<1>7. \/ /\ l # tail /\ r # tail /\ heap' = Moved(heap, n, m) /\ pc' = "discard" /\ node' = m
         /\ UNCHANGED <<root, tree, cut, out, seen, ret>>
      \/ Abort
      \/ /\ l = tail \/ r = tail
         /\ cut' = [victim |-> n, parent |-> heap[n].up, child |-> c]
         /\ pc' \in {"unlink", "delete_balance"} /\ node' = n
         /\ UNCHANGED <<heap, root, tree, out, seen, ret>>
  BY DEF Discard, Enter, parent
<1> QED
  BY <1>4, <1>5, <1>6, <1>7

-----------------------------------------------------------------------------

(* An iteration of rbtree_delete_balance keeps the invariant: the node   *)
(* to discard stays below the one the loop is at.                        *)
LEMMA DeleteBalanceKeeps ==
  ASSUME NEW first, IInv(first), DeleteBalance
  PROVE  IInv(first)' /\ Step(first)
<1> DEFINE p == heap[node].up
           sib == sibling(heap, node)
           x == cut.victim
<1>1. pc = "delete_balance"
  BY DEF DeleteBalance
<1>2. PICK v : /\ Holds(first, v) /\ Typed /\ tree \in Trees /\ tree # None
               /\ Good(heap, v) /\ IsHeap(heap) /\ Shape(heap, v) /\ v.top[tree] # NoTree
               /\ Pending(first, v)
  BY <1>1, BusyParts
<1>3. /\ CutFits(v) /\ Does(first, seen[tree], Abstract!RemoveAt(v.held[tree], v.at[x]), out)
      /\ node \in Allocated(heap) /\ v.own[node] = tree /\ Under(v, x, node)
  BY <1>1, <1>2 DEF Pending, Owned
<1>4. x \in Allocated(heap) /\ v.own[x] = tree
  BY <1>3 DEF CutFits, Owned
<1>5. CASE pc' = "unlink" /\ node' = node /\ UNCHANGED <<heap, root, tree, cut, out, seen, ret>>
  <2>1. Pending(first, v)'
    <3>1. CutFits(v)'
      BY <1>3, <1>5 DEF CutFits, Owned
    <3>2. Does(first, seen[tree], Abstract!RemoveAt(v.held[tree], v.at[cut.victim]), out)'
      BY <1>3, <1>5
    <3> QED
      BY <1>5, <3>1, <3>2 DEF Pending
  <2>2. node' \in Places(heap)
    BY <1>3, <1>5 DEF Places
  <2> QED
    BY <1>2, <1>5, <2>1, <2>2, Turns
<1>6. CASE Abort
  BY <1>2, <1>6, AbortKeeps
<1>7. CASE /\ p # head /\ sib # tail /\ heap' = Borrowed(heap, node) /\ pc' = "unlink" /\ node' = p
           /\ UNCHANGED <<root, tree, cut, out, seen, ret>>
  <2>1. Rebalanced(heap, heap', v, tree) /\ Untouched(heap, heap', x)
    BY <1>2, <1>3, <1>4, <1>7, BorrowedRebalances
  <2>2. PICK v2 : Good(heap', v2) /\ SameTrees(v, v2, tree)
    BY <1>2, <2>1, RebalancedGood
  <2>3. Allocated(heap') = Allocated(heap)
    BY <2>1 DEF Rebalanced, SameElements
  <2>4. v2.own = v.own /\ v2.held = v.held /\ v2.at = v.at
    BY <2>2 DEF SameTrees
  <2>5. heap'[x].up = heap[x].up /\ heap'[x].child = heap[x].child
    BY <2>1 DEF Untouched
  <2>6. tree' = tree /\ cut' = cut /\ seen' = seen /\ out' = out /\ pc' = "unlink"
    BY <1>7
  <2>7. Pending(first, v2)'
    <3>1. CutFits(v2)'
      BY <1>3, <2>3, <2>4, <2>5, <2>6 DEF CutFits, Owned
    <3>2. Does(first, seen[tree], Abstract!RemoveAt(v2.held[tree], v2.at[cut.victim]), out)'
      BY <1>3, <2>4, <2>6
    <3> QED
      BY <2>6, <3>1, <3>2 DEF Pending
  <2>8. p \in Allocated(heap)
    BY <1>2, <1>3, <1>7, UpParts
  <2>9. node' \in Places(heap)
    BY <1>7, <2>8 DEF Places
  <2>10. pc' \in {"insert_balance", "discard", "delete_balance", "unlink", "maintain", "abort"}
    BY <1>7
  <2> QED
    BY <1>2, <1>7, <2>2, <2>3, <2>7, <2>9, <2>10, Balances
<1>8. CASE /\ p # head /\ sib # tail /\ heap' = set_red(heap, sib) /\ pc' = "delete_balance" /\ node' = p
           /\ UNCHANGED <<root, tree, cut, out, seen, ret>>
  <2>1. sib \in Allocated(heap)
    <3>1. Beside(heap, v, node, x)
      BY <1>2, <1>3, <1>4, <1>8, SiblingApart
    <3> QED
      BY <1>8, <3>1 DEF Beside
  <2>2. p \in Allocated(heap) /\ v.own[p] = tree /\ v.lo[p] <= v.lo[node] /\ v.hi[node] <= v.hi[p]
    BY <1>2, <1>3, <1>8, UpParts
  <2> HIDE DEF sib
  <2>3. SameLinks(heap, heap') /\ Rebalanced(heap, heap', v, tree)
    BY <1>2, <1>8, <2>1, PaintRebalances
  <2>4. IsHeap(heap') /\ SameElements(heap, heap')
    BY <2>3 DEF Rebalanced
  <2>5. Good(heap', v)
    BY <1>2, <2>3, <2>4, KeptGood
  <2>6. Allocated(heap') = Allocated(heap)
    BY <2>4 DEF SameElements
  <2>7. heap'[x].up = heap[x].up /\ heap'[x].child = heap[x].child
    BY <1>4, <2>3 DEF SameLinks
  <2>8. /\ tree' = tree /\ cut' = cut /\ seen' = seen /\ out' = out /\ pc' = "delete_balance"
        /\ node' = p
    BY <1>8
  <2> HIDE DEF p
  <2>9. Under(v, x, p)
    <3>1. v.own[x] = v.own[p]
      BY <1>4, <2>2
    <3> DEFINE a == v.at[x]
               b == v.lo[node]
               c == v.hi[node]
               d == v.lo[p]
               e == v.hi[p]
    <3>2. b <= a /\ a <= c /\ d <= b /\ c <= e
      BY <1>3, <2>2 DEF Under
    <3>3. a \in Nat /\ b \in Nat /\ c \in Nat /\ d \in Nat /\ e \in Nat
      BY <1>2, <1>3, <1>4, <2>2, ShapeParts
    <3> HIDE DEF a, b, c, d, e
    <3>4. d <= a /\ a <= e
      BY <3>2, <3>3
    <3> QED
      BY <3>1, <3>4 DEF Under, a, d, e
  <2>10. Pending(first, v)'
    <3>1. CutFits(v)'
      BY <1>3, <2>6, <2>7, <2>8 DEF CutFits, Owned
    <3>2. Does(first, seen[tree], Abstract!RemoveAt(v.held[tree], v.at[cut.victim]), out)'
      BY <1>3, <2>8
    <3>3. Owned(v, node)' /\ Under(v, cut.victim, node)'
      BY <2>2, <2>6, <2>8, <2>9 DEF Owned
    <3> QED
      BY <2>8, <3>1, <3>2, <3>3 DEF Pending
  <2>11. node' \in Places(heap) /\ SameTrees(v, v, tree)
    BY <2>2, <2>8 DEF Places, SameTrees
  <2>12. pc' \in {"insert_balance", "discard", "delete_balance", "unlink", "maintain", "abort"}
    BY <1>8
  <2> QED
    BY <1>2, <1>8, <2>5, <2>6, <2>10, <2>11, <2>12, Balances
<1>9. \/ pc' = "unlink" /\ node' = node /\ UNCHANGED <<heap, root, tree, cut, out, seen, ret>>
      \/ Abort
      \/ /\ p # head /\ sib # tail /\ heap' = Borrowed(heap, node) /\ pc' = "unlink" /\ node' = p
         /\ UNCHANGED <<root, tree, cut, out, seen, ret>>
      \/ /\ p # head /\ sib # tail /\ heap' = set_red(heap, sib) /\ pc' = "delete_balance" /\ node' = p
         /\ UNCHANGED <<root, tree, cut, out, seen, ret>>
  BY DEF DeleteBalance, Enter, parent, Up
<1> QED
  BY <1>5, <1>6, <1>7, <1>8, <1>9

-----------------------------------------------------------------------------

(* A shrunk view shows the tree without the element and the others as    *)
(* they were.                                                            *)
LEMMA ShrunkParts ==
  ASSUME NEW v, NEW x, NEW c, NEW b \in BOOLEAN, NEW t \in Trees, v.own[x] = t,
         NEW u, u = Shrunk(v, x, c, b)
  PROVE  /\ Shows(u, v, t, IF b THEN c ELSE v.top[t], Abstract!RemoveAt(v.held[t], v.at[x]))
         /\ u.own = v.own
BY DEF Shrunk, Shows

(* Unlinking the node that was found before the balancing keeps the      *)
(* invariant.                                                            *)
LEMMA UnlinkKeeps ==
  ASSUME NEW first, IInv(first), Unlink
  PROVE  IInv(first)' /\ Step(first)
<1> DEFINE x == cut.victim
           c == cut.child
           p == cut.parent
           h2 == [Unlinked(heap, cut) EXCEPT ![cut.victim] = Unallocated]
<1>1. /\ pc = "unlink" /\ heap' = h2 /\ pc' = "maintain" /\ node' = c
      /\ UNCHANGED <<root, tree, cut, out, seen, ret>>
  BY DEF Unlink, Enter
<1>2. PICK v : /\ Holds(first, v) /\ Typed /\ tree \in Trees /\ tree # None
               /\ Good(heap, v) /\ IsHeap(heap) /\ Shape(heap, v) /\ v.top[tree] # NoTree
               /\ Pending(first, v)
  BY <1>1, BusyParts
<1>3. CutFits(v) /\ Does(first, seen[tree], Abstract!RemoveAt(v.held[tree], v.at[x]), out)
  BY <1>1, <1>2 DEF Pending
<1>4. /\ x \in Allocated(heap) /\ v.own[x] = tree /\ p = heap[x].up
      /\ \/ heap[x].child[0] = tail /\ c = heap[x].child[1]
         \/ heap[x].child[1] = tail /\ c = heap[x].child[0]
  BY <1>3 DEF CutFits, Owned
<1>5. /\ IsHeap(h2) /\ Pruned(heap, h2, x, c)
      /\ \A m \in Allocated(h2) : h2[m].key = heap[m].key /\ h2[m].val = heap[m].val
      /\ c = tail => h2[tail].up = p
  BY <1>2, <1>4, UnlinkedPrunes
<1>6. heap' = h2
  BY <1>1
<1> HIDE DEF h2
<1> DEFINE b == heap[x].up = head
<1>7. PICK u : u = Shrunk(v, x, c, b)
  OBVIOUS
<1>8. Good(heap', u)
  BY <1>2, <1>5, <1>6, <1>7, PruneGood
<1>9. /\ Shows(u, v, tree, IF heap[x].up = head THEN c ELSE v.top[tree],
               Abstract!RemoveAt(v.held[tree], v.at[x]))
      /\ u.own = v.own
  <2>1. b \in BOOLEAN
    OBVIOUS
  <2> HIDE DEF b
  <2>2. /\ Shows(u, v, tree, IF b THEN c ELSE v.top[tree], Abstract!RemoveAt(v.held[tree], v.at[x]))
        /\ u.own = v.own
    BY <1>2, <1>4, <1>7, <2>1, ShrunkParts
  <2> QED
    BY <2>2 DEF b
<1>10. Allocated(heap') = Allocated(heap) \ {x}
  BY <1>5, <1>6 DEF Pruned
<1>11. c # tail => c \in Allocated(heap) /\ v.own[c] = tree /\ c # x
  <2>1. ASSUME NEW i \in 0 .. 1, c = heap[x].child[i], c # tail
        PROVE  c \in Allocated(heap) /\ v.own[c] = tree /\ c # x
    <3>1. c \in Allocated(heap) /\ v.own[c] = tree /\ heap[c].up = x
      BY <1>2, <1>4, <2>1, ChildSpan
    <3>2. x \in Nodes /\ x # head
      BY <1>4, SentinelsAssumption DEF Allocated
    <3>3. heap[c].up # c
      <4>1. heap[c].up # head
        BY <3>1, <3>2
      <4> QED
        BY <1>2, <3>1, <4>1, UpParts
    <3> QED
      BY <3>1, <3>3
  <2>2. 0 \in 0 .. 1 /\ 1 \in 0 .. 1
    OBVIOUS
  <2> QED
    BY <1>4, <2>1, <2>2
<1>12. p # head => p \in Allocated(heap) /\ v.own[p] = tree /\ p # x
  BY <1>2, <1>4, UpParts
<1>13. tree' = tree /\ cut' = cut /\ seen' = seen /\ out' = out /\ pc' = "maintain" /\ node' = c
  BY <1>1
<1>14. u.held[tree] = Abstract!RemoveAt(v.held[tree], v.at[x])
  BY <1>9 DEF Shows
<1>15. tail \notin Allocated(heap) /\ c \in Places(heap)
  BY <1>2, <1>11, HeapParts DEF Places
<1>16. Pending(first, u)'
  <2>1. Does(first, seen[tree], u.held[tree], out)'
    BY <1>3, <1>13, <1>14
  <2>2. CASE c # tail
    <3>1. Owned(u, node)'
      BY <1>9, <1>10, <1>11, <1>13, <2>2 DEF Owned
    <3> QED
      BY <1>13, <2>1, <3>1 DEF Pending
  <2>3. CASE c = tail /\ p = head
    <3>1. u.top[tree] = tail
      BY <1>4, <1>9, <2>3 DEF Shows
    <3>2. node' = tail /\ heap'[tail].up = head /\ u.top[tree'] = tail
      BY <1>5, <1>6, <1>13, <2>3, <3>1
    <3> QED
      BY <1>13, <2>1, <3>2 DEF Pending
  <2>4. CASE c = tail /\ p # head
    <3>1. heap'[tail].up = p
      BY <1>5, <1>6, <2>4
    <3>2. Owned(u, heap[tail].up)'
      BY <1>9, <1>10, <1>12, <1>13, <2>4, <3>1 DEF Owned
    <3>3. node' = tail
      BY <1>13, <2>4
    <3> QED
      BY <1>13, <2>1, <3>2, <3>3 DEF Pending
  <2> QED
    BY <2>2, <2>3, <2>4
<1>17. node' \in Places(heap')
  BY <1>10, <1>11, <1>13 DEF Places
<1>18. cut' \in [victim : Nodes \cup {tail}, parent : Allocated(heap') \cup {head, tail},
                 child : Places(heap')]
  <2>1. cut \in [victim : Nodes \cup {tail}, parent : Allocated(heap) \cup {head, tail},
                 child : Places(heap)]
    BY <1>2 DEF Typed
  <2>2. p \in Allocated(heap') \cup {head, tail} /\ c \in Places(heap')
    BY <1>10, <1>12, <1>13, <1>17
  <2> QED
    BY <1>13, <2>1, <2>2
<1>19. /\ u.top[tree] # NoTree
       /\ \A t \in Trees : t # tree => u.top[t] = v.top[t] /\ u.held[t] = v.held[t]
  <2>1. c # NoTree
    BY <1>15, MarksAssumption DEF Places, Allocated
  <2> QED
    BY <1>2, <1>9, <2>1 DEF Shows
<1>20. UNCHANGED <<root, tree, out, seen, ret>> /\ pc' \in {"insert_balance", "discard", "delete_balance", "unlink", "maintain", "abort"}
  BY <1>1
<1> QED
  BY <1>2, <1>8, <1>16, <1>17, <1>18, <1>19, <1>20, GoesOn

-----------------------------------------------------------------------------
(* The specification. *)

(* The view of a heap without nodes. *)
NoView ==
  [top |-> [t \in Trees |-> NoTree], held |-> [t \in Trees |-> <<>>],
   own |-> <<>>, at |-> <<>>, lo |-> <<>>, hi |-> <<>>]

(* A heap without nodes is a good one. *)
LEMMA EmptyGood == Good(EmptyHeap, NoView)
<1>1. /\ DOMAIN EmptyHeap = Nodes \cup {head, tail}
      /\ EmptyHeap = [n \in DOMAIN EmptyHeap |-> EmptyHeap[n]]
      /\ \A n \in Nodes : EmptyHeap[n] = Unallocated
      /\ EmptyHeap[tail] = TailNode /\ EmptyHeap[head] = HeadNode
  BY SentinelsAssumption DEF EmptyHeap
<1>2. TailNode \in TailStructs
  BY DEF TailNode, TailStructs, NoChildren
<1>3. HeadNode \in HeadStructs /\ HeadNode.child[1] = tail
  BY DEF HeadNode, HeadStructs, NoChildren
<1>4. IsHeap(EmptyHeap)
  BY <1>1, <1>2, <1>3 DEF IsHeap
<1>5. Allocated(EmptyHeap) = {}
  BY <1>1 DEF Allocated
<1>6. \A t \in Trees : NoView.top[t] = NoTree /\ NoView.held[t] = <<>>
  BY DEF NoView
<1>7. Shape(EmptyHeap, NoView)
  BY <1>5, <1>6 DEF Shape, TopFits, Apart
<1>8. Contents(EmptyHeap, NoView)
  <2>1. \A t \in Trees : Extent(NoView, t) = 0
    BY <1>6 DEF Extent
  <2>2. <<>> \in Seq(Keys \X Vals) /\ Len(<<>>) = 0
    OBVIOUS
  <2> QED
    BY <1>5, <1>6, <2>1, <2>2 DEF Contents
<1> QED
  BY <1>4, <1>7, <1>8 DEF Good

(* The invariant holds at the start. *)
LEMMA InitHolds ==
  ASSUME NEW first, Init
  PROVE  IInv(first)
<1>1. /\ heap = EmptyHeap /\ root = [t \in Trees |-> NoTree]
      /\ pc = "idle" /\ tree = None /\ node = tail /\ cut = NoCut /\ out = None
      /\ seen = [t \in Trees |-> <<>>] /\ ret = [t \in Trees |-> Answer(0, None)]
  BY DEF Init
<1>2. seen \in [Trees -> Seq(Keys \X Vals)] /\ \A t \in Trees : Abstract!Sorted(seen[t])
  <2>1. \A t \in Trees : seen[t] = <<>>
    BY <1>1
  <2>2. Abstract!Sorted(<<>>)
    <3>1. DOMAIN <<>> = {}
      OBVIOUS
    <3> QED
      BY <3>1, Zenon DEF Abstract!Sorted
  <2>3. <<>> \in Seq(Keys \X Vals)
    OBVIOUS
  <2> QED
    BY <1>1, <2>1, <2>2, <2>3
<1>3. ret \in [Trees -> [err : {0, -1}, val : Vals \cup {None}]]
  <2>1. Answer(0, None) \in [err : {0, -1}, val : Vals \cup {None}]
    BY DEF Answer
  <2> QED
    BY <1>1, <2>1, Zenon
<1>4. cut \in [victim : Nodes \cup {tail}, parent : Allocated(heap) \cup {head, tail},
               child : Places(heap)]
  BY <1>1 DEF NoCut, Places
<1>5. Typed
  BY <1>1, <1>2, <1>3, <1>4 DEF Typed, Places
<1>6. Settled(NoView)
  <2>1. \A t \in Trees : NoView.top[t] = root[t] /\ NoView.held[t] = seen[t] /\ t # tree
    BY <1>1, MarksAssumption DEF NoView
  <2> QED
    BY <2>1 DEF Settled
<1>7. Pending(first, NoView)
  BY <1>1 DEF Pending
<1>8. Holds(first, NoView)
  BY <1>1, <1>6, <1>7, EmptyGood DEF Holds
<1> QED
  BY <1>5, <1>8 DEF IInv

(* It holds after a step that changes nothing. *)
LEMMA StutterKeeps ==
  ASSUME NEW first, IInv(first), UNCHANGED vars
  PROVE  IInv(first)' /\ Step(first)
<1>1. /\ heap' = heap /\ root' = root /\ pc' = pc /\ tree' = tree /\ node' = node /\ cut' = cut
      /\ out' = out /\ seen' = seen /\ ret' = ret
  BY DEF vars
<1>2. Typed'
  BY <1>1 DEF IInv, Typed
<1>3. PICK v : Holds(first, v)
  BY DEF IInv
<1>4. Holds(first, v)'
  BY <1>1, <1>3 DEF Holds, Settled, Pending, CutFits, Owned
<1> QED
  BY <1>1, <1>2, <1>4 DEF IInv, Step

(* Every loop keeps it. *)
LEMMA LoopsKeep ==
  ASSUME NEW first, IInv(first), Loops
  PROVE  IInv(first)' /\ Step(first)
BY InsertBalanceKeeps, MaintainKeeps, DiscardKeeps, DeleteBalanceKeeps, UnlinkKeeps DEF Loops

(* rbtree_elem_insert keeps it. *)
LEMMA InsertKeeps ==
  ASSUME NEW first, IInv(first), NEW t \in Trees, NEW k \in Keys, NEW w \in Vals, Insert(t, k, w)
  PROVE  IInv(first)' /\ Step(first)
BY InsertFirstKeeps, InsertBelowKeeps DEF Insert

(* Every call keeps it. *)
LEMMA CallsKeep ==
  ASSUME NEW first, first = FALSE, IInv(first), NEW t \in Trees, Calls(t)
  PROVE  IInv(first)' /\ Step(first)
<1>1. CASE Create(t)
  BY <1>1, CreateKeeps
<1>2. CASE Delete(t)
  BY <1>2, DeleteKeeps
<1>3. ASSUME NEW k \in Keys, NEW w \in Vals, Insert(t, k, w) PROVE IInv(first)' /\ Step(first)
  BY <1>3, InsertKeeps
<1>4. ASSUME NEW k \in Keys, NEW w \in Vals, ElemUpdate(t, k, w) PROVE IInv(first)' /\ Step(first)
  BY <1>4, ElemUpdateKeeps
<1>5. ASSUME NEW i \in 0 .. Cardinality(Nodes), ElemDelete(t, i) PROVE IInv(first)' /\ Step(first)
  <2>1. i \in Nat
    OBVIOUS
  <2> QED
    BY <1>5, <2>1, ElemDeleteKeeps
<1>6. ASSUME NEW k \in Keys, ElemRemove(t, k) PROVE IInv(first)' /\ Step(first)
  BY <1>6, ElemRemoveKeeps
<1>7. ASSUME NEW n \in Nodes, IterDiscard(t, n) PROVE IInv(first)' /\ Step(first)
  BY <1>7, IterDiscardKeeps
<1> QED
  BY <1>1, <1>2, <1>3, <1>4, <1>5, <1>6, <1>7 DEF Calls

(* Every step keeps it and does to the elements of a tree what some call *)
(* may do.                                                               *)
LEMMA NextKeeps ==
  ASSUME IInv(FALSE), [Next]_vars
  PROVE  IInv(FALSE)' /\ Step(FALSE)
<1> DEFINE first == FALSE
<1>1. first = FALSE /\ IInv(first)
  OBVIOUS
<1> HIDE DEF first
<1>2. IInv(first)' /\ Step(first)
  <2>1. CASE Loops
    BY <1>1, <2>1, LoopsKeep
  <2>2. CASE Aborted \/ UNCHANGED vars
    BY <1>1, <2>2, StutterKeeps DEF Aborted
  <2>3. ASSUME NEW t \in Trees, Calls(t) PROVE IInv(first)' /\ Step(first)
    BY <1>1, <2>3, CallsKeep
  <2> QED
    BY <2>1, <2>2, <2>3 DEF Next
<1> QED
  BY <1>2 DEF first

(* In a priority queue every step keeps the stronger invariant, in which *)
(* only the first element is taken out.                                  *)
LEMMA PriorityKeeps ==
  ASSUME IInv(TRUE), [PriorityNext]_vars
  PROVE  IInv(TRUE)' /\ Step(TRUE)
<1> DEFINE first == TRUE
<1>1. IInv(first)
  OBVIOUS
<1> HIDE DEF first
<1>2. IInv(first)' /\ Step(first)
  <2>1. CASE Loops
    BY <1>1, <2>1, LoopsKeep
  <2>2. CASE Aborted \/ UNCHANGED vars
    BY <1>1, <2>2, StutterKeeps DEF Aborted
  <2>3. ASSUME NEW t \in Trees, Create(t) PROVE IInv(first)' /\ Step(first)
    BY <1>1, <2>3, CreateKeeps
  <2>4. ASSUME NEW t \in Trees, ElemDelete(t, 0) PROVE IInv(first)' /\ Step(first)
    BY <1>1, <2>4, ElemDeleteKeeps
  <2>5. ASSUME NEW t \in Trees, NEW k \in Keys, NEW w \in Vals, Insert(t, k, w)
        PROVE  IInv(first)' /\ Step(first)
    BY <1>1, <2>5, InsertKeeps
  <2> QED
    BY <2>1, <2>2, <2>3, <2>4, <2>5 DEF PriorityNext
<1> QED
  BY <1>2 DEF first

(* The invariant holds in every state that the program reaches. *)
LEMMA SpecHolds == Spec => []IInv(FALSE)
<1>1. Init => IInv(FALSE)
  BY InitHolds
<1>2. IInv(FALSE) /\ [Next]_vars => IInv(FALSE)'
  BY NextKeeps
<1> QED
  BY <1>1, <1>2, PTL DEF Spec

-----------------------------------------------------------------------------
(* What the invariant says of a state. *)

(* The variables have their types, and no node points at one that left   *)
(* its tree.                                                             *)
LEMMA TypedState ==
  ASSUME IInv(FALSE)
  PROVE  TypeOK
<1>1. Typed
  BY DEF IInv
<1>2. PICK v : Holds(FALSE, v)
  BY DEF IInv
<1>3. IsHeap(heap) /\ Shape(heap, v) /\ Settled(v)
  BY <1>2 DEF Holds, Good
<1>4. DOMAIN heap = Nodes \cup {head, tail}
  BY <1>3 DEF IsHeap
<1>5. \A n \in Nodes : heap[n] \in Structs \cup {Unallocated}
  <2>1. ASSUME NEW n \in Nodes, n \in Allocated(heap) PROVE heap[n] \in Structs
    <3>1. heap[n] \in NodeStructs
      BY <1>3, <2>1, HeapParts
    <3>2. /\ heap[n].child[0] \in Allocated(heap) \cup {tail}
          /\ heap[n].child[1] \in Allocated(heap) \cup {tail}
          /\ heap[n].up \in Allocated(heap) \cup {head}
      BY <1>3, <2>1, ShapeParts
    <3> DEFINE r == heap[n]
    <3>3. /\ r \in NodeStructs
          /\ r.child[0] \in Allocated(heap) \cup {tail}
          /\ r.child[1] \in Allocated(heap) \cup {tail}
          /\ r.up \in Allocated(heap) \cup {head}
      BY <3>1, <3>2
    <3> HIDE DEF r
    <3>4. r.child \in [0 .. 1 -> Allocated(heap) \cup {tail}]
      <4>1. r.child \in [0 .. 1 -> Nodes \cup {tail}]
        BY <3>3 DEF NodeStructs
      <4>2. \A i \in 0 .. 1 : i = 0 \/ i = 1
        OBVIOUS
      <4> QED
        BY <3>3, <4>1, <4>2
    <3>5. r \in Structs
      BY <3>3, <3>4 DEF NodeStructs, Structs
    <3> QED
      BY <3>5 DEF r
  <2>2. \A n \in Nodes : n \notin Allocated(heap) => heap[n] = Unallocated
    BY <1>3, HeapParts
  <2> QED
    BY <2>1, <2>2
<1>6. pc = "idle" => \A t \in Live : root[t] \in Allocated(heap) \cup {tail}
  <2>1. ASSUME pc = "idle", NEW t \in Trees, root[t] # NoTree
        PROVE  root[t] \in Allocated(heap) \cup {tail}
    <3>1. root[t] \in Allocated(heap) \cup {tail, NoTree}
      BY <1>1, <1>2, <2>1, IdleParts
    <3> QED
      BY <2>1, <3>1
  <2> QED
    BY <2>1 DEF Live
<1>7. tree \in Live \cup {None} /\ (tree = None <=> pc = "idle")
  BY <1>1 DEF Typed, Live
<1> QED
  BY <1>1, <1>4, <1>5, <1>6, <1>7 DEF TypeOK, Typed, Places

(* A tree that no call works on shows what its last call left. *)
LEMMA ApartState ==
  ASSUME IInv(FALSE)
  PROVE  TreesApart
<1>1. PICK v : Holds(FALSE, v)
  BY DEF IInv
<1>2. ASSUME NEW t \in Live \ {tree}
      PROVE  root[t] \in Allocated(heap) \cup {tail} /\ InOrder(heap, root[t]) = seen[t]
  <2>1. t \in Trees /\ root[t] # NoTree /\ v.top[t] = root[t] /\ v.held[t] = seen[t]
    BY <1>1, <1>2 DEF Live, Holds, Settled
  <2>2. Good(heap, v)
    BY <1>1 DEF Holds
  <2>3. InOrder(heap, root[t]) = seen[t]
    BY <2>1, <2>2, InOrderHeld
  <2>4. root[t] \in Allocated(heap) \cup {tail}
    BY <2>1, <2>2 DEF Good, Shape, TopFits
  <2> QED
    BY <2>3, <2>4
<1> QED
  BY <1>2 DEF TreesApart

(* The parent that rbtree_iter_discard read is the parent still. *)
LEMMA StableState ==
  ASSUME IInv(FALSE)
  PROVE  ParentStable
<1>1. PICK v : Holds(FALSE, v)
  BY DEF IInv
<1>2. ASSUME pc \in {"delete_balance", "unlink"}
      PROVE  /\ heap[cut.victim].up = cut.parent
             /\ \A i \in 0 .. 1 : heap[cut.victim].child[i] \in {cut.child, tail}
             /\ cut.parent # head => heap[cut.parent].child[heap[cut.victim].idx] = cut.victim
  <2>1. CutFits(v) /\ IsHeap(heap) /\ Shape(heap, v)
    BY <1>1, <1>2 DEF Holds, Pending, Good
  <2>2. /\ cut.victim \in Allocated(heap) /\ heap[cut.victim].up = cut.parent
        /\ \/ heap[cut.victim].child[0] = tail /\ cut.child = heap[cut.victim].child[1]
           \/ heap[cut.victim].child[1] = tail /\ cut.child = heap[cut.victim].child[0]
    BY <2>1 DEF CutFits, Owned
  <2>3. \A i \in 0 .. 1 : i = 0 \/ i = 1
    OBVIOUS
  <2>4. \A i \in 0 .. 1 : heap[cut.victim].child[i] \in {cut.child, tail}
    BY <2>2, <2>3
  <2>5. cut.parent # head => heap[cut.parent].child[heap[cut.victim].idx] = cut.victim
    BY <2>1, <2>2, UpParts
  <2> QED
    BY <2>2, <2>4, <2>5
<1> QED
  BY <1>2 DEF ParentStable

(* What the invariant says of a step. *)

(* A step is a step of the ordered bag or leaves the elements of all     *)
(* trees.                                                                *)
LEMMA StepIsAbstract ==
  ASSUME IInv(FALSE), Step(FALSE)
  PROVE  [Abstract!Next]_(Abstract!vars)
<1> DEFINE first == FALSE
<1>1. CASE UNCHANGED <<seen, ret>>
  BY <1>1 DEF Abstract!vars
<1>2. ASSUME NEW t \in Trees, Answered(first, t) PROVE Abstract!Next
  <2>1. PICK s2, a : /\ Makes(first, seen[t], s2, a)
                     /\ seen' = [seen EXCEPT ![t] = s2] /\ ret' = [ret EXCEPT ![t] = a]
    BY <1>2 DEF Answered
  <2>2. Abstract!Becomes(t, s2, a)
    BY <2>1 DEF Abstract!Becomes
  <2>3. DOMAIN seen[t] = 1 .. Len(seen[t])
    BY DEF IInv, Typed
  <2>4. \A err, val : Answer(err, val) = Abstract!Answer(err, val)
    BY DEF Answer, Abstract!Answer
  <2> DEFINE s == seen[t]
  <2> HIDE DEF first
  <2>5. CASE s2 = <<>> /\ a = Answer(0, None)
    <3>1. Abstract!Clear(t)
      BY <2>2, <2>4, <2>5, Zenon DEF Abstract!Clear
    <3> QED
      BY <3>1, Zenon DEF Abstract!Next
  <2>6. ASSUME NEW val, NEW k \in Keys, NEW w \in Vals, NEW i \in 1 .. Len(s) + 1, a = Answer(0, val),
               s2 = Abstract!InsertAt(s, i, <<k, w>>), Abstract!Sorted(s2), val = None
        PROVE  Abstract!Next
    <3>1. Abstract!Becomes(t, s2, Abstract!Answer(0, None))
      BY <2>2, <2>4, <2>6, Zenon
    <3>2. Abstract!Insert(t, k, w)
      BY <2>6, <3>1, Zenon DEF Abstract!Insert
    <3> QED
      BY <3>2, Zenon DEF Abstract!Next
  <2>7. ASSUME NEW val, NEW i \in 1 .. Len(s), a = Answer(0, val), s2 = Abstract!RemoveAt(s, i),
               val \in {s[i][2], None}
        PROVE  Abstract!Next
    <3>1. Abstract!Becomes(t, Abstract!RemoveAt(s, i), Abstract!Answer(0, val))
      BY <2>2, <2>4, <2>7, Zenon
    <3>2. val \in {Abstract!Val(s[i]), None}
      BY <2>7 DEF Abstract!Val
    <3>3. Abstract!TakeOut(t, i)
      BY <3>1, <3>2, Zenon DEF Abstract!TakeOut
    <3> QED
      BY <2>3, <3>3, Zenon DEF Abstract!Next
  <2>8. ASSUME NEW i \in 1 .. Len(s), NEW w \in Vals, s2 = [s EXCEPT ![i] = <<s[i][1], w>>],
               a = Answer(0, None)
        PROVE  Abstract!Next
    <3>1. s2 = [s EXCEPT ![i] = <<Abstract!Key(s[i]), w>>]
      BY <2>8 DEF Abstract!Key
    <3>2. Abstract!Update(t, i, w)
      BY <2>2, <2>4, <2>8, <3>1, Zenon DEF Abstract!Update
    <3> QED
      BY <2>3, <3>2, Zenon DEF Abstract!Next
  <2>9. CASE s2 = s /\ a = Answer(-1, None)
    <3>1. Abstract!Miss(t)
      BY <2>2, <2>4, <2>9, Zenon DEF Abstract!Miss
    <3> QED
      BY <3>1, Zenon DEF Abstract!Next
  <2>10. ASSUME NEW val, Does(first, s, s2, val), a = Answer(0, val) PROVE Abstract!Next
    BY <2>6, <2>7, <2>10, Zenon DEF Does
  <2> QED
    BY <2>1, <2>5, <2>8, <2>9, <2>10, Zenon DEF Makes
<1> QED
  BY <1>1, <1>2 DEF Step

(* A step of a priority queue that takes out an element takes out the    *)
(* first.                                                                *)
LEMMA StepTakesFirst ==
  ASSUME IInv(TRUE), Step(TRUE), NEW t \in Trees, Len(seen'[t]) < Len(seen[t])
  PROVE  seen'[t] = SubSeq(seen[t], 2, Len(seen[t])) /\ ret'[t] = Answer(0, seen[t][1][2])
<1> DEFINE s == seen[t]
<1>1. /\ seen \in [Trees -> Seq(Keys \X Vals)]
      /\ ret \in [Trees -> [err : {0, -1}, val : Vals \cup {None}]]
  BY DEF IInv, Typed
<1>2. s \in Seq(Keys \X Vals) /\ Len(s) \in Nat
  BY <1>1
<1>3. PICK o \in Trees : Answered(TRUE, o)
  <2>1. ~UNCHANGED <<seen, ret>>
    BY <1>2
  <2> QED
    BY <2>1 DEF Step
<1>4. PICK s2, a : /\ Makes(TRUE, seen[o], s2, a)
                   /\ seen' = [seen EXCEPT ![o] = s2] /\ ret' = [ret EXCEPT ![o] = a]
  BY <1>3 DEF Answered
<1>5. o = t
  BY <1>1, <1>2, <1>4
<1>6. Makes(TRUE, s, s2, a) /\ seen'[t] = s2 /\ ret'[t] = a
  BY <1>1, <1>4, <1>5
<1>7. Len(s2) < Len(s)
  BY <1>6
<1> HIDE DEF s
<1>8. ~(s2 = <<>> /\ s = <<>>)
  BY <1>2, <1>7
<1>9. ASSUME NEW k \in Keys, NEW w \in Vals, NEW i \in 1 .. Len(s) + 1,
             s2 = Abstract!InsertAt(s, i, <<k, w>>)
      PROVE  FALSE
  <2> DEFINE e == <<k, w>>
  <2>1. e \in Keys \X Vals
    OBVIOUS
  <2> HIDE DEF e
  <2>2. PutIn(Abstract!InsertAt(s, i, e), s, i, e)
    BY <1>2, <2>1, InsertAtParts
  <2>3. Len(s2) = Len(s) + 1
    BY <1>9, <2>2 DEF PutIn, e
  <2> QED
    BY <1>2, <1>7, <2>3
<1>10. ASSUME 1 \in 1 .. Len(s), s2 = Abstract!RemoveAt(s, 1)
       PROVE  s2 = SubSeq(s, 2, Len(s))
  <2> DEFINE q == SubSeq(s, 2, Len(s))
  <2>1. q \in Seq(Keys \X Vals)
    <3>1. \A j \in 2 .. Len(s) : s[j] \in Keys \X Vals
      BY <1>2
    <3> QED
      BY <1>2, <3>1, SubSeqProperties
  <2>2. SubSeq(s, 1, 1 - 1) = <<>>
    BY <1>2
  <2>3. s2 = SubSeq(s, 1, 1 - 1) \o SubSeq(s, 1 + 1, Len(s))
    BY <1>10 DEF Abstract!RemoveAt
  <2>4. 1 + 1 = 2
    OBVIOUS
  <2>5. s2 = <<>> \o q
    BY <2>2, <2>3, <2>4
  <2> HIDE DEF q
  <2>6. <<>> \o q = q
    BY <2>1
  <2> QED
    BY <2>5, <2>6 DEF q
<1>11. ASSUME NEW i \in 1 .. Len(s), NEW w \in Vals, s2 = [s EXCEPT ![i] = <<s[i][1], w>>]
       PROVE  FALSE
  <2>1. Len(s2) = Len(s)
    BY <1>2, <1>11
  <2> QED
    BY <1>2, <1>7, <2>1
<1>12. s2 # s
  BY <1>2, <1>7
<1>13. ASSUME NEW val, Does(TRUE, s, s2, val), a = Answer(0, val)
       PROVE  s2 = SubSeq(s, 2, Len(s)) /\ a = Answer(0, s[1][2])
  <2>1. PICK i \in 1 .. Len(s) : s2 = Abstract!RemoveAt(s, i) /\ i = 1 /\ val = s[i][2]
    BY <1>9, <1>13, Zenon DEF Does
  <2>2. s2 = SubSeq(s, 2, Len(s))
    BY <1>10, <2>1
  <2> QED
    BY <1>13, <2>1, <2>2
<1>14. s2 = SubSeq(s, 2, Len(s)) /\ a = Answer(0, s[1][2])
  <2>1. \/ s2 = <<>> /\ s = <<>>
        \/ \E val : Does(TRUE, s, s2, val) /\ a = Answer(0, val)
        \/ \E i \in 1 .. Len(s), w \in Vals : s2 = [s EXCEPT ![i] = <<s[i][1], w>>]
        \/ s2 = s
    BY <1>6 DEF Makes
  <2> QED
    BY <1>8, <1>11, <1>12, <1>13, <2>1, Zenon
<1> QED
  BY <1>6, <1>14 DEF s

-----------------------------------------------------------------------------
(* The theorems. *)

(* The variables always have their types: the nodes, the trees and the   *)
(* locals of a call in progress point at nodes that are in a tree, or at *)
(* the sentinels.                                                        *)
THEOREM TreeTypeCorrect == Spec => []TypeOK
<1>1. IInv(FALSE) => TypeOK
  BY TypedState
<1> QED
  BY <1>1, SpecHolds, PTL

(* A call never changes a tree that it does not work on, though its      *)
(* rotations and balancing write the head and the tail that all trees    *)
(* share.                                                                *)
THEOREM TreesStayApart == Spec => []TreesApart
<1>1. IInv(FALSE) => TreesApart
  BY ApartState
<1> QED
  BY <1>1, SpecHolds, PTL

(* What rbtree_iter_discard reads before rbtree_delete_balance rotates   *)
(* around the node is true still when it uses it.                        *)
THEOREM ParentStaysStable == Spec => []ParentStable
<1>1. IInv(FALSE) => ParentStable
  BY StableState
<1> QED
  BY <1>1, SpecHolds, PTL

(* Every tree is an ordered bag of elements to its clients: each call    *)
(* does one of the steps of OrderedBag to one tree, or leaves it as it   *)
(* is.                                                                   *)
THEOREM TreesAreOrderedBags == Spec => IsOrderedBag
<1>1. Init => Abstract!Init
  BY DEF Init, Abstract!Init, Answer, Abstract!Answer
<1>2. IInv(FALSE) /\ [Next]_vars => [Abstract!Next]_(Abstract!vars)
  BY NextKeeps, StepIsAbstract
<1> QED
  BY <1>1, <1>2, SpecHolds, PTL DEF Spec, IsOrderedBag, Abstract!Spec

(* A tree that is used as a priority queue gives its elements up first   *)
(* to last.                                                              *)
THEOREM PriorityTakesFirst == PrioritySpec => TakesFirst
<1> DEFINE A == \A t \in Trees : TakesFirstOf(t)
<1>1. Init => IInv(TRUE)
  BY InitHolds
<1>2. IInv(TRUE) /\ [PriorityNext]_vars => IInv(TRUE)'
  BY PriorityKeeps
<1>3. IInv(TRUE) /\ [PriorityNext]_vars => [A]_vars
  BY PriorityKeeps, StepTakesFirst DEF TakesFirstOf
<1> QED
  BY <1>1, <1>2, <1>3, PTL DEF PrioritySpec, TakesFirst

(* A step of the clients is one of the client's own program, or changes  *)
(* nothing of the trees.                                                 *)
LEMMA ClientSteps ==
  ASSUME [ClientsNext]_client_vars
  PROVE  /\ client' = client
         /\ client = "queue" => [PriorityNext]_vars
         /\ client = "grow" => [GrowNext]_vars
<1>1. CASE ClientsNext
  BY <1>1 DEF ClientsNext
<1>2. CASE UNCHANGED client_vars
  BY <1>2 DEF client_vars
<1> QED
  BY <1>1, <1>2

(* So it does for that client among others.                              *)
THEOREM ClientsTakeFirst == ClientsSpec => QueuesTakeFirst
<1> DEFINE Q == client = "queue" => IInv(TRUE)
           A == client = "queue" => \A t \in Trees : TakesFirstOf(t)
<1>1. ClientsInit => Q
  BY InitHolds DEF ClientsInit
<1>2. Q /\ [ClientsNext]_client_vars => Q'
  BY PriorityKeeps, ClientSteps
<1>3. Q /\ [ClientsNext]_client_vars => [A]_client_vars
  <2> SUFFICES ASSUME Q, [ClientsNext]_client_vars, client = "queue", NEW t \in Trees
               PROVE  TakesFirstOf(t)
    OBVIOUS
  <2>1. IInv(TRUE) /\ [PriorityNext]_vars
    BY ClientSteps
  <2> QED
    BY <2>1, PriorityKeeps, StepTakesFirst DEF TakesFirstOf
<1> QED
  BY <1>1, <1>2, <1>3, PTL DEF ClientsSpec, QueuesTakeFirst

-----------------------------------------------------------------------------
(* The iterators. *)

(* How much larger the span of the whole tree is than a node's. *)
Height(h, v) == [n \in Allocated(h) |-> v.hi[v.top[v.own[n]]] - (v.hi[n] - v.lo[n])]

(* A parent is less high than its child: what walks up parent pointers   *)
(* ends.                                                                 *)
LEMMA HeightParts ==
  ASSUME NEW h, IsHeap(h), NEW v, Shape(h, v)
  PROVE  /\ Height(h, v) \in [Allocated(h) -> Nat]
         /\ \A n \in Allocated(h) : h[n].up # head =>
              h[n].up \in Allocated(h) /\ Height(h, v)[h[n].up] < Height(h, v)[n]
<1>1. ASSUME NEW n \in Allocated(h) PROVE v.hi[v.top[v.own[n]]] - (v.hi[n] - v.lo[n]) \in Nat
  <2> DEFINE a == v.lo[n]
             q == v.at[n]
             b == v.hi[n]
             k == v.hi[v.top[v.own[n]]]
  <2>1. a \in Nat /\ q \in Nat /\ b \in Nat /\ 1 <= a /\ a <= q /\ q <= b /\ b <= k
    BY ShapeParts
  <2>2. k \in Nat
    <3>1. v.top[v.own[n]] \in Allocated(h)
      BY ShapeParts
    <3> QED
      BY <3>1, ShapeParts
  <2> HIDE DEF a, q, b, k
  <2>3. k - (b - a) \in Nat
    BY <2>1, <2>2
  <2> QED
    BY <2>3 DEF a, b, k
<1>2. ASSUME NEW n \in Allocated(h), h[n].up # head
      PROVE  h[n].up \in Allocated(h) /\ Height(h, v)[h[n].up] < Height(h, v)[n]
  <2> DEFINE p == h[n].up
             a == v.lo[n]
             q == v.at[n]
             b == v.hi[n]
             a2 == v.lo[p]
             q2 == v.at[p]
             b2 == v.hi[p]
             k == v.hi[v.top[v.own[n]]]
  <2>1. /\ p \in Allocated(h) /\ v.own[p] = v.own[n]
        /\ a2 <= a /\ b <= b2 /\ q2 \notin a .. b
    BY <1>2, UpParts
  <2> HIDE DEF p
  <2>2. a \in Nat /\ q \in Nat /\ b \in Nat /\ a <= q /\ q <= b
    BY ShapeParts
  <2>3. a2 \in Nat /\ q2 \in Nat /\ b2 \in Nat /\ a2 <= q2 /\ q2 <= b2
    BY <2>1, ShapeParts
  <2>4. k \in Nat
    <3>1. v.top[v.own[n]] \in Allocated(h)
      BY ShapeParts
    <3> QED
      BY <3>1, ShapeParts
  <2>5. Height(h, v)[p] = k - (b2 - a2) /\ Height(h, v)[n] = k - (b - a)
    BY <2>1 DEF Height
  <2> HIDE DEF a, q, b, a2, q2, b2, k
  <2>6. k - (b2 - a2) < k - (b - a)
    <3>1. q2 < a \/ b < q2
      BY <2>1, <2>2, <2>3
    <3> QED
      BY <2>1, <2>2, <2>3, <2>4, <3>1
  <2> QED
    BY <2>1, <2>5, <2>6 DEF p
<1>3. Height(h, v) \in [Allocated(h) -> Nat]
  BY <1>1 DEF Height
<1> QED
  BY <1>2, <1>3

(* The neighbour of node n on the side of a missing child is the one that  *)
(* Climb finds: after n if i is 0, before it if i is 1.                    *)
ClimbsTo(h, v, n, i, e) ==
  IF e = tail
  THEN /\ i = 0 => v.at[n] = v.hi[v.top[v.own[n]]]
       /\ i = 1 => v.at[n] = 1
  ELSE /\ e \in Allocated(h) /\ v.own[e] = v.own[n]
       /\ i = 0 => v.at[e] = v.at[n] + 1
       /\ i = 1 => v.at[n] = v.at[e] + 1

(* The walk up ends below the nearest ancestor on the other side, which  *)
(* is the neighbour.                                                     *)
LEMMA ClimbParts ==
  ASSUME NEW h, IsHeap(h), NEW v, Shape(h, v), NEW n \in Allocated(h), NEW i \in 0 .. 1,
         h[n].child[1 - i] = tail
  PROVE  ClimbsTo(h, v, n, i, Climb(h, n, i))
<1> DEFINE stop == [m \in Allocated(h) |-> h[m].up = head \/ h[m].idx = i]
           next == [m \in Allocated(h) |-> h[m].up]
           S == {m \in Allocated(h) : /\ v.own[m] = v.own[n]
                                      /\ i = 0 => v.hi[m] = v.at[n]
                                      /\ i = 1 => v.lo[m] = v.at[n]}
           m == Follow(stop, next, n)
<1>1. \A y \in Allocated(h) : stop[y] = (h[y].up = head \/ h[y].idx = i) /\ next[y] = h[y].up
  OBVIOUS
<1>2. DOMAIN next = Allocated(h)
  OBVIOUS
<1>3. (i = 0 \/ i = 1) /\ 1 - 0 = 1 /\ 1 - 1 = 0
  OBVIOUS
<1> HIDE DEF stop, next
<1>4. Descends(Allocated(h), stop, next, Height(h, v))
  BY <1>1, <1>2, HeightParts DEF Descends
<1>5. n \in S
  <2>1. (i = 0 => v.hi[n] = v.at[n]) /\ (i = 1 => v.lo[n] = v.at[n])
    BY <1>3, ShapeParts
  <2> QED
    BY <2>1
<1>6. ASSUME NEW y \in S, ~stop[y] PROVE next[y] \in S
  <2> DEFINE p == h[y].up
  <2>1. y \in Allocated(h) /\ p # head /\ h[y].idx # i /\ next[y] = p
    BY <1>1, <1>6
  <2>2. h[y].idx \in 0 .. 1
    BY <2>1, ShapeParts
  <2>3. (i = 0 => h[y].idx = 1) /\ (i = 1 => h[y].idx = 0)
    BY <2>1, <2>2
  <2>4. p \in Allocated(h) /\ v.own[p] = v.own[y]
        /\ (h[y].idx = 0 => v.lo[y] = v.lo[p]) /\ (h[y].idx = 1 => v.hi[y] = v.hi[p])
    BY <2>1, UpParts
  <2> HIDE DEF p
  <2>5. (i = 0 => v.hi[p] = v.at[n]) /\ (i = 1 => v.lo[p] = v.at[n]) /\ v.own[p] = v.own[n]
    BY <1>6, <2>3, <2>4
  <2> QED
    BY <2>1, <2>4, <2>5
<1>7. S \in SUBSET Allocated(h)
  OBVIOUS
<1> HIDE DEF S
<1>8. m \in S /\ stop[m]
  BY <1>4, <1>5, <1>6, <1>7, FollowReaches
<1> HIDE DEF m
<1>9. /\ m \in Allocated(h) /\ v.own[m] = v.own[n]
      /\ i = 0 => v.hi[m] = v.at[n]
      /\ i = 1 => v.lo[m] = v.at[n]
      /\ h[m].up = head \/ h[m].idx = i
  BY <1>1, <1>8 DEF S
<1>10. Climb(h, n, i) = IF h[m].up = head THEN tail ELSE h[m].up
  BY DEF Climb, m, stop, next
<1>11. tail \notin Allocated(h)
  BY HeapParts
<1>12. CASE h[m].up = head
  <2>1. v.top[v.own[n]] = m
    BY <1>9, <1>12, ShapeParts
  <2>2. v.lo[m] = 1
    <3>1. v.own[n] \in Trees /\ m # tail /\ m # NoTree
      BY <1>9, <1>11, ShapeParts, MarksAssumption DEF Allocated
    <3> QED
      BY <2>1, <3>1 DEF Shape, TopFits
  <2> QED
    BY <1>9, <1>10, <1>12, <2>1, <2>2 DEF ClimbsTo
<1>13. CASE h[m].up # head
  <2> DEFINE p == h[m].up
  <2>1. /\ p \in Allocated(h) /\ v.own[p] = v.own[n]
        /\ h[m].idx = 0 => v.hi[m] = v.at[p] - 1
        /\ h[m].idx = 1 => v.lo[m] = v.at[p] + 1
    BY <1>9, <1>13, UpParts
  <2>2. v.at[p] \in Nat /\ v.at[n] \in Nat
    BY <2>1, ShapeParts
  <2> HIDE DEF p
  <2>3. h[m].idx = i
    BY <1>9, <1>13
  <2>4. (i = 0 => v.at[n] = v.at[p] - 1) /\ (i = 1 => v.at[n] = v.at[p] + 1)
    BY <1>9, <2>1, <2>3
  <2> DEFINE a == v.at[p]
             b == v.at[n]
  <2>5. (i = 0 => a = b + 1) /\ (i = 1 => b = a + 1)
    <3>1. a \in Nat /\ b \in Nat /\ (i = 0 => b = a - 1) /\ (i = 1 => b = a + 1)
      BY <2>2, <2>4
    <3> HIDE DEF a, b
    <3> QED
      BY <3>1
  <2>6. p # tail /\ Climb(h, n, i) = p
    BY <1>10, <1>11, <1>13, <2>1 DEF p
  <2> QED
    BY <2>1, <2>5, <2>6 DEF ClimbsTo
<1> QED
  BY <1>12, <1>13

(* iter_next and iter_prev go to the neighbours. *)
LEMMA NextParts ==
  ASSUME NEW h, IsHeap(h), NEW v, Shape(h, v), NEW n \in Allocated(h)
  PROVE  ClimbsTo(h, v, n, 0, iter_next(h, n)) /\ ClimbsTo(h, v, n, 1, iter_prev(h, n))
<1>1. 0 \in 0 .. 1 /\ 1 \in 0 .. 1 /\ 1 - 0 = 1 /\ 1 - 1 = 0 /\ 0 # 1
  OBVIOUS
<1>2. tail \notin Allocated(h) /\ v.at[n] \in Nat
  BY HeapParts, ShapeParts
<1>3. ASSUME h[n].child[1] = tail PROVE ClimbsTo(h, v, n, 0, iter_next(h, n))
  <2>1. ClimbsTo(h, v, n, 0, Climb(h, n, 0))
    BY <1>1, <1>3, ClimbParts
  <2> QED
    BY <1>3, <2>1 DEF iter_next
<1>4. ASSUME h[n].child[1] # tail PROVE ClimbsTo(h, v, n, 0, iter_next(h, n))
  <2> DEFINE c == h[n].child[1]
             e == Extreme(h, c, 0)
  <2>1. c \in Allocated(h) /\ v.own[c] = v.own[n] /\ v.lo[c] = v.at[n] + 1
    BY <1>4, RightParts
  <2> HIDE DEF c
  <2>2. e \in Allocated(h) /\ v.own[e] = v.own[c] /\ v.at[e] = v.lo[c]
    BY <1>1, <2>1, ExtremeParts
  <2> HIDE DEF e
  <2>3. iter_next(h, n) = e
    BY <1>4 DEF iter_next, e, c
  <2>4. e # tail
    BY <1>2, <2>2
  <2> QED
    BY <1>1, <2>1, <2>2, <2>3, <2>4 DEF ClimbsTo
<1>5. ASSUME h[n].child[0] = tail PROVE ClimbsTo(h, v, n, 1, iter_prev(h, n))
  <2>1. ClimbsTo(h, v, n, 1, Climb(h, n, 1))
    BY <1>1, <1>5, ClimbParts
  <2> QED
    BY <1>5, <2>1 DEF iter_prev
<1>6. ASSUME h[n].child[0] # tail PROVE ClimbsTo(h, v, n, 1, iter_prev(h, n))
  <2> DEFINE c == h[n].child[0]
             e == Extreme(h, c, 1)
  <2>1. c \in Allocated(h) /\ v.own[c] = v.own[n] /\ v.hi[c] = v.at[n] - 1
    BY <1>6, LeftParts
  <2> HIDE DEF c
  <2>2. e \in Allocated(h) /\ v.own[e] = v.own[c] /\ v.at[e] = v.hi[c]
    BY <1>1, <2>1, ExtremeParts
  <2> HIDE DEF e
  <2>3. iter_prev(h, n) = e
    BY <1>6 DEF iter_prev, e, c
  <2>4. e # tail
    BY <1>2, <2>2
  <2>5. v.at[n] = v.at[e] + 1
    <3> DEFINE a == v.at[n]
               b == v.at[e]
    <3>1. b = a - 1 /\ a \in Nat
      BY <1>2, <2>1, <2>2
    <3> HIDE DEF a, b
    <3>2. a = b + 1
      BY <3>1
    <3> QED
      BY <3>2 DEF a, b
  <2> QED
    BY <1>1, <2>1, <2>2, <2>3, <2>4, <2>5 DEF ClimbsTo
<1> QED
  BY <1>3, <1>4, <1>5, <1>6

(* From the tail the walk to the left or right goes nowhere. *)
LEMMA ExtremeOfNone ==
  ASSUME NEW h, IsHeap(h), NEW v, Shape(h, v), NEW i \in 0 .. 1
  PROVE  Extreme(h, tail, i) = tail
<1> DEFINE stop == [n \in Places(h) |-> h[n].child[i] = tail]
           next == [n \in Places(h) |-> h[n].child[i]]
           e == Follow(stop, next, tail)
<1>1. i = 0 \/ i = 1
  OBVIOUS
<1>2. stop[tail] /\ DOMAIN next = Places(h)
  <2>1. h[tail].child[i] = tail
    BY <1>1, HeapParts
  <2> QED
    BY <2>1 DEF Places
<1>3. \A n \in Allocated(h) : next[n] \in {h[n].child[0], h[n].child[1]}
  BY <1>1 DEF Places
<1> HIDE DEF stop, next
<1>4. Descends(Places(h), stop, next, Rank(h, v))
  BY <1>2, <1>3, DownDescends
<1>5. {tail} \in SUBSET Places(h) /\ tail \in {tail}
  BY DEF Places
<1>6. \A y \in {tail} : ~stop[y] => next[y] \in {tail}
  BY <1>2
<1>7. e \in {tail}
  BY <1>4, <1>5, <1>6, FollowReaches
<1> QED
  BY <1>7 DEF Extreme, stop, next

(* The iterators go through the nodes of a tree in order. *)
LEMMA IteratesParts ==
  ASSUME NEW h, IsHeap(h), NEW v, Shape(h, v), NEW t \in Trees, v.top[t] # NoTree
  PROVE  LET s    == NodesInOrder(h, v.top[t])
             N(i) == IF i \in DOMAIN s THEN s[i] ELSE tail
         IN  /\ iter_head(h, v.top[t]) = N(1)
             /\ iter_tail(h, v.top[t]) = N(Len(s))
             /\ \A i \in DOMAIN s : /\ iter_next(h, s[i]) = N(i + 1)
                                   /\ iter_prev(h, s[i]) = N(i - 1)
<1> DEFINE x == v.top[t]
           s == NodesInOrder(h, x)
           N(i) == IF i \in DOMAIN s THEN s[i] ELSE tail
           k == Extent(v, t)
<1>1. Lists(h, v, t, s)
  BY OrderedNodes
<1>2. 0 \in 0 .. 1 /\ 1 \in 0 .. 1 /\ 0 # 1
  OBVIOUS
<1> HIDE DEF s
<1>3. /\ k \in Nat /\ Len(s) = k /\ DOMAIN s = 1 .. k
      /\ \A i \in 1 .. k : s[i] \in Allocated(h) /\ v.own[s[i]] = t /\ v.at[s[i]] = i
      /\ \A m \in Allocated(h) : v.own[m] = t => v.at[m] \in 1 .. k /\ s[v.at[m]] = m
  BY <1>1 DEF Lists
<1>4. iter_head(h, x) = N(1) /\ iter_tail(h, x) = N(Len(s))
  <2>1. CASE x = tail
    <3>1. Extreme(h, tail, 0) = tail /\ Extreme(h, tail, 1) = tail
      BY <1>2, ExtremeOfNone
    <3>2. iter_head(h, x) = tail /\ iter_tail(h, x) = tail
      BY <2>1, <3>1 DEF iter_head, iter_tail
    <3>3. k = 0
      BY <2>1 DEF Extent
    <3> HIDE DEF k, x
    <3>4. N(1) = tail /\ N(Len(s)) = tail
      BY <1>3, <3>3
    <3> QED
      BY <3>2, <3>4
  <2>2. CASE x # tail
    <3>1. x \in Allocated(h) /\ v.own[x] = t /\ v.lo[x] = 1
      BY <2>2 DEF Shape, TopFits
    <3>2. k = v.hi[x]
      BY <2>2 DEF Extent
    <3> DEFINE e0 == Extreme(h, x, 0)
               e1 == Extreme(h, x, 1)
    <3> HIDE DEF x
    <3>3. e0 \in Allocated(h) /\ v.own[e0] = v.own[x] /\ v.at[e0] = v.lo[x]
      BY <1>2, <3>1, ExtremeParts
    <3>4. e1 \in Allocated(h) /\ v.own[e1] = v.own[x] /\ v.at[e1] = v.hi[x]
      BY <1>2, <3>1, ExtremeParts
    <3> HIDE DEF e0, e1, k
    <3>5. 1 \in 1 .. k /\ s[1] = e0
      BY <1>3, <3>1, <3>3
    <3>6. k \in 1 .. k /\ s[k] = e1
      BY <1>3, <3>1, <3>2, <3>4
    <3>7. iter_head(h, x) = e0 /\ iter_tail(h, x) = e1
      BY DEF iter_head, iter_tail, e0, e1
    <3> QED
      BY <1>3, <3>5, <3>6, <3>7
  <2> QED
    BY <2>1, <2>2
<1>5. ASSUME NEW i \in DOMAIN s
      PROVE  iter_next(h, s[i]) = N(i + 1) /\ iter_prev(h, s[i]) = N(i - 1)
  <2> DEFINE n == s[i]
             e == iter_next(h, n)
             d == iter_prev(h, n)
  <2>1. n \in Allocated(h) /\ v.own[n] = t /\ v.at[n] = i /\ i \in 1 .. k
    BY <1>3
  <2>2. ClimbsTo(h, v, n, 0, e) /\ ClimbsTo(h, v, n, 1, d)
    BY <2>1, NextParts
  <2>3. k = v.hi[x]
    <3>1. x \in Allocated(h) /\ tail \notin Allocated(h)
      BY <2>1, ShapeParts, HeapParts
    <3> QED
      BY <3>1 DEF Extent
  <2> HIDE DEF e, d, n
  <2>4. e = N(i + 1)
    <3>1. CASE e = tail
      <4>1. i = k
        BY <1>2, <2>1, <2>2, <2>3, <3>1 DEF ClimbsTo
      <4>2. i + 1 \notin 1 .. k
        BY <1>3, <4>1
      <4> QED
        BY <1>3, <3>1, <4>2
    <3>2. CASE e # tail
      <4>1. e \in Allocated(h) /\ v.own[e] = t /\ v.at[e] = i + 1
        BY <1>2, <2>1, <2>2, <3>2 DEF ClimbsTo
      <4>2. i + 1 \in 1 .. k /\ s[i + 1] = e
        BY <1>3, <4>1
      <4> QED
        BY <1>3, <4>2
    <3> QED
      BY <3>1, <3>2
  <2>5. d = N(i - 1)
    <3>1. CASE d = tail
      <4>1. i = 1
        BY <1>2, <2>1, <2>2, <3>1 DEF ClimbsTo
      <4>2. i - 1 \notin 1 .. k
        BY <1>3, <4>1
      <4> QED
        BY <1>3, <3>1, <4>2
    <3>2. CASE d # tail
      <4>1. d \in Allocated(h) /\ v.own[d] = t /\ i = v.at[d] + 1
        BY <1>2, <2>1, <2>2, <3>2 DEF ClimbsTo
      <4>2. v.at[d] \in 1 .. k /\ s[v.at[d]] = d
        BY <1>3, <4>1
      <4>3. v.at[d] = i - 1
        <5> DEFINE b == v.at[d]
        <5>1. b \in 1 .. k /\ i = b + 1
          BY <4>1, <4>2
        <5> HIDE DEF b
        <5>2. b = i - 1
          BY <5>1
        <5> QED
          BY <5>2 DEF b
      <4> QED
        BY <1>3, <4>2, <4>3
    <3> QED
      BY <3>1, <3>2
  <2> QED
    BY <2>4, <2>5 DEF e, d, n
<1> QED
  BY <1>4, <1>5 DEF s

(* Between calls they do so for every tree. *)
LEMMA IteratesState ==
  ASSUME IInv(FALSE)
  PROVE  IteratesInOrder
<1>1. Typed
  BY DEF IInv
<1>2. PICK v : Holds(FALSE, v)
  BY DEF IInv
<1>3. ASSUME pc = "idle", NEW t \in Live
      PROVE  LET s    == NodesInOrder(heap, root[t])
                 N(i) == IF i \in DOMAIN s THEN s[i] ELSE tail
             IN  /\ iter_head(heap, root[t]) = N(1)
                 /\ iter_tail(heap, root[t]) = N(Len(s))
                 /\ \A i \in DOMAIN s : /\ iter_next(heap, s[i]) = N(i + 1)
                                       /\ iter_prev(heap, s[i]) = N(i - 1)
  <2>1. t \in Trees /\ root[t] # NoTree
    BY <1>3 DEF Live
  <2>2. IsHeap(heap) /\ Shape(heap, v) /\ v.top[t] = root[t]
    BY <1>1, <1>2, <1>3, <2>1, IdleParts
  <2>3. LET s    == NodesInOrder(heap, v.top[t])
            N(i) == IF i \in DOMAIN s THEN s[i] ELSE tail
        IN  /\ iter_head(heap, v.top[t]) = N(1)
            /\ iter_tail(heap, v.top[t]) = N(Len(s))
            /\ \A i \in DOMAIN s : /\ iter_next(heap, s[i]) = N(i + 1)
                                  /\ iter_prev(heap, s[i]) = N(i - 1)
    BY <2>1, <2>2, IteratesParts
  <2> QED
    BY <2>2, <2>3
<1> QED
  BY <1>3 DEF IteratesInOrder

(* Between calls the iterators, which walk parent pointers and child     *)
(* indexes, visit the elements of a tree in order, forwards and          *)
(* backwards.                                                            *)
THEOREM IteratorsKeepOrder == Spec => []IteratesInOrder
<1>1. IInv(FALSE) => IteratesInOrder
  BY IteratesState
<1> QED
  BY <1>1, SpecHolds, PTL

-----------------------------------------------------------------------------
(* Searches. *)

(* The comparator orders keys as their difference does. *)
ComparesByDifference ==
  \A a, b \in Keys : /\ key_cmp(a, b) = 0 <=> a = b
                     /\ key_cmp(a, b) > 0 <=> a > b

(* With keys in order the search turns to the side that the key must be  *)
(* on.                                                                   *)
LEMMA FindsParts ==
  ASSUME ComparesByDifference,
         NEW h, NEW v, Good(h, v), NEW t \in Trees, v.top[t] # NoTree,
         InOrderOfKeys(h, v, t), NEW k \in Keys
  PROVE  LET n == iter_value(h, v.top[t], k)
         IN  IF \E m \in Allocated(h) : v.own[m] = t /\ h[m].key = k
             THEN n \in Allocated(h) /\ v.own[n] = t /\ h[n].key = k
             ELSE n = tail
<1> DEFINE side(n) == IF key_cmp(k, h[n].key) > 0 THEN 1 ELSE 0
           stop == [n \in Places(h) |-> n = tail \/ key_cmp(k, h[n].key) = 0]
           next == [n \in Places(h) |-> h[n].child[IF key_cmp(k, h[n].key) > 0 THEN 1 ELSE 0]]
           x == v.top[t]
           A == Allocated(h)
           Has(m) == m \in A /\ v.own[m] = t /\ h[m].key = k
           Spans(y) == \A m \in A : Has(m) => y # tail /\ v.lo[y] <= v.at[m] /\ v.at[m] <= v.hi[y]
           S == {y \in Places(h) : (y # tail => v.own[y] = t) /\ Spans(y)}
           n == Follow(stop, next, x)
<1>1. IsHeap(h) /\ Shape(h, v)
  BY DEF Good
<1>2. tail \notin A
  BY <1>1, HeapParts
<1>3. \A m \in A : h[m].key \in Keys /\ h[m].key \in Int
  BY <1>1, HeapParts, KeysAssumption
<1>4. k \in Int
  BY KeysAssumption
<1>5. Places(h) = A \cup {tail}
  BY DEF Places
<1>6. /\ \A m \in A : stop[m] = (h[m].key = k)
      /\ \A m \in A : next[m] = h[m].child[IF k > h[m].key THEN 1 ELSE 0]
      /\ stop[tail] /\ DOMAIN next = Places(h)
  <2>1. \A m \in A : /\ key_cmp(k, h[m].key) = 0 <=> h[m].key = k
                     /\ key_cmp(k, h[m].key) > 0 <=> k > h[m].key
    BY <1>3 DEF ComparesByDifference
  <2>2. \A m \in A : m \in Places(h) /\ m # tail
    BY <1>2, <1>5
  <2>3. \A m \in A : stop[m] = (h[m].key = k)
    <3>1. \A m \in A : stop[m] = (m = tail \/ key_cmp(k, h[m].key) = 0)
      BY <2>2
    <3> HIDE DEF stop
    <3> QED
      BY <2>1, <2>2, <3>1, Zenon
  <2>4. \A m \in A : next[m] = h[m].child[IF k > h[m].key THEN 1 ELSE 0]
    BY <2>1, <2>2
  <2>5. stop[tail] /\ DOMAIN next = Places(h)
    BY <1>5
  <2> QED
    BY <2>3, <2>4, <2>5
<1>7. \A m \in A : /\ v.lo[m] \in Nat /\ v.at[m] \in Nat /\ v.hi[m] \in Nat
                   /\ v.lo[m] <= v.at[m] /\ v.at[m] <= v.hi[m]
                   /\ v.hi[m] <= v.hi[v.top[v.own[m]]]
  BY <1>1 DEF Shape, SpanFits
<1> HIDE DEF stop, next
<1>8. Descends(Places(h), stop, next, Rank(h, v))
  <2>1. \A m \in Allocated(h) : ~stop[m] => next[m] \in {h[m].child[0], h[m].child[1]}
    BY <1>6
  <2> QED
    BY <1>1, <1>6, <2>1, DownDescends
<1>9. x \in S
  <2>1. CASE x = tail
    <3>1. \A m \in A : v.own[m] # t
      <4>1. \A m \in A : v.top[v.own[m]] \in A
        BY <1>1 DEF Shape, SpanFits
      <4> QED
        BY <1>2, <2>1, <4>1
    <3> QED
      BY <1>5, <2>1, <3>1
  <2>2. CASE x # tail
    <3>1. x \in A /\ v.own[x] = t /\ v.lo[x] = 1
      BY <1>1, <2>2 DEF Shape, TopFits
    <3>2. \A m \in A : v.own[m] = t => 1 <= v.at[m] /\ v.at[m] <= v.hi[x]
      <4>1. \A m \in A : 1 <= v.lo[m]
        BY <1>1 DEF Shape, SpanFits
      <4>2. v.hi[x] \in Nat
        BY <1>7, <3>1
      <4> HIDE DEF A
      <4> QED
        BY <1>7, <4>1, <4>2
    <3> QED
      BY <1>5, <2>2, <3>1, <3>2
  <2> QED
    BY <2>1, <2>2
<1>10. ASSUME NEW y \in S, ~stop[y] PROVE next[y] \in S
  <2>1. y \in A /\ y # tail /\ v.own[y] = t /\ h[y].key # k
    BY <1>2, <1>5, <1>6, <1>10
  <2>2. \A m \in A : Has(m) => v.lo[y] <= v.at[m] /\ v.at[m] <= v.hi[y]
    BY <1>10
  <2>3. \A m \in A : Has(m) => IF k > h[y].key THEN v.at[y] < v.at[m] ELSE v.at[m] < v.at[y]
    <3> SUFFICES ASSUME NEW m \in A, Has(m)
                 PROVE  IF k > h[y].key THEN v.at[y] < v.at[m] ELSE v.at[m] < v.at[y]
      OBVIOUS
    <3>1. /\ v.at[m] < v.at[y] => h[m].key <= h[y].key
          /\ v.at[y] < v.at[m] => h[y].key <= h[m].key
      BY <2>1 DEF InOrderOfKeys
    <3>2. v.at[m] # v.at[y]
      BY <1>1, <2>1 DEF Shape, Apart
    <3>3. v.at[m] \in Nat /\ v.at[y] \in Nat /\ h[y].key \in Int /\ h[m].key = k
      BY <1>3, <1>7, <2>1
    <3> QED
      BY <1>4, <2>1, <3>1, <3>2, <3>3
  <2>4. CASE k > h[y].key
    <3> DEFINE c == h[y].child[1]
    <3>1. next[y] = c
      BY <1>6, <2>1, <2>4
    <3>2. CASE c = tail
      <4>1. v.hi[y] = v.at[y]
        BY <1>1, <2>1, <3>2, ShapeParts
      <4>2. \A m \in A : ~Has(m)
        BY <1>7, <2>1, <2>2, <2>3, <2>4, <4>1
      <4> QED
        BY <1>5, <3>1, <3>2, <4>2
    <3>3. CASE c # tail
      <4>1. c \in A /\ v.own[c] = t /\ v.lo[c] = v.at[y] + 1 /\ v.hi[c] = v.hi[y]
        BY <1>1, <2>1, <3>3, RightParts
      <4> HIDE DEF c
      <4>2. \A m \in A : Has(m) => v.lo[c] <= v.at[m] /\ v.at[m] <= v.hi[c]
        BY <1>7, <2>1, <2>2, <2>3, <2>4, <4>1
      <4> QED
        BY <1>2, <1>5, <3>1, <4>1, <4>2
    <3> QED
      BY <3>2, <3>3
  <2>5. CASE ~(k > h[y].key)
    <3> DEFINE c == h[y].child[0]
    <3>1. next[y] = c
      BY <1>6, <2>1, <2>5
    <3>2. CASE c = tail
      <4>1. v.lo[y] = v.at[y]
        BY <1>1, <2>1, <3>2, ShapeParts
      <4>2. \A m \in A : ~Has(m)
        BY <1>7, <2>1, <2>2, <2>3, <2>5, <4>1
      <4> QED
        BY <1>5, <3>1, <3>2, <4>2
    <3>3. CASE c # tail
      <4>1. c \in A /\ v.own[c] = t /\ v.lo[c] = v.lo[y] /\ v.hi[c] = v.at[y] - 1
        BY <1>1, <2>1, <3>3, LeftParts
      <4> HIDE DEF c
      <4>2. \A m \in A : Has(m) => v.lo[c] <= v.at[m] /\ v.at[m] <= v.hi[c]
        BY <1>7, <2>1, <2>2, <2>3, <2>5, <4>1
      <4> QED
        BY <1>2, <1>5, <3>1, <4>1, <4>2
    <3> QED
      BY <3>2, <3>3
  <2> QED
    BY <2>4, <2>5
<1>11. S \in SUBSET Places(h)
  OBVIOUS
<1> HIDE DEF S
<1>12. n \in S /\ stop[n]
  BY <1>8, <1>9, <1>10, <1>11, FollowReaches
<1> HIDE DEF n
<1>13. CASE n = tail
  <2>1. \A m \in A : ~Has(m)
    BY <1>12, <1>13 DEF S
  <2> QED
    BY <1>13, <2>1 DEF iter_value, n, stop, next
<1>14. CASE n # tail
  <2>1. n \in A /\ v.own[n] = t /\ h[n].key = k
    BY <1>5, <1>6, <1>12, <1>14 DEF S
  <2> QED
    BY <2>1 DEF iter_value, n, stop, next
<1> QED
  BY <1>13, <1>14

(* Between calls the search for a key finds an element that has it if    *)
(* there is one.                                                         *)
LEMMA FindsState ==
  ASSUME ComparesByDifference, IInv(FALSE)
  PROVE  FindsByKey
<1>1. Typed
  BY DEF IInv
<1>2. PICK v : Holds(FALSE, v)
  BY DEF IInv
<1>3. ASSUME pc = "idle", NEW t \in Live, NEW k \in Keys
      PROVE  LET n == iter_value(heap, root[t], k)
             IN  IF \E i \in DOMAIN seen[t] : seen[t][i][1] = k
                 THEN n # tail /\ heap[n].key = k
                 ELSE n = tail
  <2> DEFINE n == iter_value(heap, root[t], k)
             Some == \E m \in Allocated(heap) : v.own[m] = t /\ heap[m].key = k
  <2>1. t \in Trees /\ root[t] # NoTree
    BY DEF Live
  <2>2. /\ v.top[t] = root[t] /\ v.held[t] = seen[t] /\ seen[t] \in Seq(Keys \X Vals)
        /\ Abstract!Sorted(seen[t]) /\ IsHeap(heap)
    BY <1>1, <1>2, <1>3, <2>1, IdleParts
  <2>3. Good(heap, v)
    BY <1>2 DEF Holds
  <2>4. Abstract!Sorted(v.held[t])
    BY <2>2
  <2>5. InOrderOfKeys(heap, v, t)
    BY <2>1, <2>3, <2>4, SortedNodes
  <2>6. v.top[t] # NoTree
    BY <2>1, <2>2
  <2>7. IF Some THEN n \in Allocated(heap) /\ v.own[n] = t /\ heap[n].key = k ELSE n = tail
    <3>1. LET e == iter_value(heap, v.top[t], k)
          IN  IF Some THEN e \in Allocated(heap) /\ v.own[e] = t /\ heap[e].key = k ELSE e = tail
      BY <2>1, <2>3, <2>5, <2>6, FindsParts
    <3> QED
      BY <2>2, <3>1
  <2>8. Some <=> \E i \in DOMAIN seen[t] : seen[t][i][1] = k
    <3>1. ASSUME NEW m \in Allocated(heap), v.own[m] = t, heap[m].key = k
          PROVE  \E i \in DOMAIN seen[t] : seen[t][i][1] = k
      <4>1. v.at[m] \in 1 .. Len(v.held[t]) /\ v.held[t][v.at[m]] = <<heap[m].key, heap[m].val>>
        BY <2>3, <3>1, PlaceParts
      <4>2. v.at[m] \in DOMAIN seen[t] /\ seen[t][v.at[m]][1] = k
        BY <2>2, <3>1, <4>1
      <4> QED
        BY <4>2
    <3>2. ASSUME NEW i \in DOMAIN seen[t], seen[t][i][1] = k PROVE Some
      <4>1. i \in 1 .. Len(v.held[t])
        BY <2>2
      <4>2. PICK m \in Allocated(heap) : v.own[m] = t /\ v.at[m] = i
        BY <2>1, <2>3, <4>1, HolderOf
      <4>3. v.held[t][i] = <<heap[m].key, heap[m].val>>
        BY <2>3, <4>2, PlaceParts
      <4>4. heap[m].key = k
        BY <2>2, <3>2, <4>3
      <4> QED
        BY <4>2, <4>4
    <3> QED
      BY <3>1, <3>2
  <2>9. tail \notin Allocated(heap)
    BY <2>2, HeapParts
  <2> HIDE DEF n, Some
  <2> QED
    BY <2>7, <2>8, <2>9, Zenon DEF n
<1> QED
  BY <1>3, Zenon DEF FindsByKey

(* Between calls a search for a key finds an element that has it exactly *)
(* if there is one, provided that the comparator orders keys as          *)
(* rbtree_elem_insert does, which does not ask it but subtracts.         *)
THEOREM SearchesFindKeys ==
  ASSUME ComparesByDifference
  PROVE  Spec => []FindsByKey
<1>1. IInv(FALSE) => FindsByKey
  BY FindsState
<1> QED
  BY <1>1, SpecHolds, PTL

-----------------------------------------------------------------------------
(* Colours. *)

(* The colours of the nodes. *)
Reds(h) == [m \in Allocated(h) |-> h[m].red]

(* What a node adds to the black nodes of a path. *)
Tint(red, n) == IF red[n] THEN 0 ELSE 1

(* Every path down from a place n has b[n] black places. *)
Blacks(h, red, b) ==
  /\ b \in [Places(h) -> Nat \ {0}] /\ b[tail] = 1
  /\ \A n \in Allocated(h) : \A i \in 0 .. 1 : b[n] = b[h[n].child[i]] + Tint(red, n)

(* A red node with a red parent. *)
Clashes(h, red, n) == red[n] /\ h[n].up # head /\ red[h[n].up]

(* No node but x clashes. *)
ClashesAt(h, red, x) == \A n \in Allocated(h) : n # x => ~Clashes(h, red, n)

(* All paths down from a place are equally black, and no node but x clashes. *)
Coloured(h, red, x) == (\E b : Blacks(h, red, b)) /\ ClashesAt(h, red, x)

(* The colours of a heap give each node a Boolean. *)
LEMMA RedsParts ==
  ASSUME NEW h, IsHeap(h)
  PROVE  /\ Reds(h) \in [Allocated(h) -> BOOLEAN]
         /\ \A m \in Allocated(h) : Reds(h)[m] = h[m].red
<1>1. \A m \in Allocated(h) : h[m].red \in BOOLEAN
  BY HeapParts
<1> QED
  BY <1>1, Zenon DEF Reds

(* A child that is not the tail knows its parent and its side. *)
LEMMA LinkParts ==
  ASSUME NEW h, IsHeap(h), NEW v, Shape(h, v), NEW n \in Allocated(h), NEW i \in 0 .. 1
  PROVE  /\ h[n].child[i] \in Places(h) /\ 1 - i \in 0 .. 1
         /\ h[n].child[i] # tail =>
              /\ h[n].child[i] \in Allocated(h)
              /\ h[h[n].child[i]].up = n /\ h[h[n].child[i]].idx = i
<1>1. i = 0 \/ i = 1
  OBVIOUS
<1>2. 1 - i \in 0 .. 1
  BY <1>1
<1> DEFINE c == h[n].child[i]
<1>3. CASE c = tail
  BY <1>2, <1>3, Zenon DEF Places
<1>4. CASE c # tail
  <2>1. c \in Allocated(h) /\ h[c].up = n /\ h[c].idx = i
    BY <1>4, ChildSpan
  <2> QED
    BY <1>2, <2>1 DEF Places
<1> QED
  BY <1>3, <1>4

(* The colours of p and its red child n change places. *)
Swapped(h, red, red2, p, n) ==
  /\ red \in [Allocated(h) -> BOOLEAN] /\ red2 \in [Allocated(h) -> BOOLEAN]
  /\ red[n] = TRUE /\ red2[p] = TRUE /\ red2[n] = red[p]
  /\ \A m \in Allocated(h) : m # p /\ m # n => red2[m] = red[m]

(* h2 is h after p and its child n on side i have changed places. *)
TurnsAbout(h, h2, p, i, n, gp, c) ==
  /\ p \in Allocated(h) /\ i \in 0 .. 1 /\ n = h[p].child[i] /\ n # tail
  /\ gp = h[p].up /\ c = h[n].child[1 - i]
  /\ Allocated(h2) = Allocated(h) /\ RotatedLinks(h, h2, gp, p, n, c, i)

(* What that does to the children and parents of all nodes. *)
TurnedNodes(h, p, i, n, gp, c, g) ==
  /\ n \in Allocated(h) /\ gp \in Allocated(h) \cup {head} /\ c \in Places(h) /\ g \in 0 .. 1
  /\ p \in Allocated(h) /\ i \in 0 .. 1 /\ gp = h[p].up /\ n = h[p].child[i] /\ c = h[n].child[1 - i]
  /\ p # n /\ p # c /\ p # gp /\ n # c /\ n # gp /\ c # gp
  /\ h[n].up = p /\ h[n].idx = i /\ 1 - i \in 0 .. 1 /\ 1 - i # i
  /\ h[p].idx = g /\ (gp # head => h[gp].child[g] = p)
  /\ c # tail => c \in Allocated(h) /\ h[c].up = n /\ h[c].idx = 1 - i

TurnedLinks(h, h2, p, i, n, gp, c, g) ==
  /\ h2[p].child[i] = c /\ h2[p].child[1 - i] = h[p].child[1 - i]
  /\ h2[n].child[i] = h[n].child[i] /\ h2[n].child[1 - i] = p
  /\ h2[n].idx = g
  /\ gp # head => /\ h2[gp].child[g] = n /\ h2[gp].child[1 - g] = h[gp].child[1 - g]
                  /\ h2[gp].up = h[gp].up
  /\ \A m \in Allocated(h) : m \notin {p, n, gp} => h2[m].child = h[m].child
  /\ h2[p].up = n /\ h2[p].idx = 1 - i /\ h2[n].up = gp /\ (c # tail => h2[c].up = p)
  /\ \A m \in Allocated(h) : m \notin {p, n, c} => h2[m].up = h[m].up

(* A rotation is between four different nodes, and changes the children  *)
(* of three of them and the parents of three.                            *)
LEMMA TurnNodes ==
  ASSUME NEW h, IsHeap(h), NEW v, Shape(h, v), NEW h2, NEW p, NEW i, NEW n, NEW gp, NEW c,
         TurnsAbout(h, h2, p, i, n, gp, c)
  PROVE  /\ TurnedNodes(h, p, i, n, gp, c, h[p].idx)
         /\ TurnedLinks(h, h2, p, i, n, gp, c, h[p].idx)
         /\ Allocated(h2) = Allocated(h)
<1>1. /\ p \in Allocated(h) /\ i \in 0 .. 1 /\ n = h[p].child[i] /\ n # tail
      /\ gp = h[p].up /\ c = h[n].child[1 - i]
      /\ Allocated(h2) = Allocated(h) /\ RotatedLinks(h, h2, gp, p, n, c, i)
  BY DEF TurnsAbout
<1>2. 1 - i \in 0 .. 1 /\ 1 - i # i
  <2>1. i = 0 \/ i = 1
    BY <1>1
  <2> QED
    BY <2>1
<1>3. Rotatable(h, h[p].up, p, h[p].child[i], h[h[p].child[i]].child[1 - i], i)
  BY <1>1, RotationFits
<1>4. Rotatable(h, gp, p, n, c, i)
  BY <1>1, <1>3
<1>5. /\ n \in Allocated(h) /\ gp \in Allocated(h) \cup {head} /\ c \in Places(h)
      /\ p # n /\ p # c /\ p # gp /\ n # c /\ n # gp /\ c # gp
  BY <1>4, Zenon DEF Rotatable, Places
<1>6. h[n].up = p /\ h[n].idx = i
  <2>1. p \in Allocated(h) /\ i \in 0 .. 1
    BY <1>1
  <2>2. /\ h[p].child[i] \in Places(h) /\ 1 - i \in 0 .. 1
        /\ h[p].child[i] # tail => /\ h[p].child[i] \in Allocated(h)
                                   /\ h[h[p].child[i]].up = p /\ h[h[p].child[i]].idx = i
    BY <2>1, LinkParts
  <2> QED
    BY <1>1, <2>2, Zenon
<1>7. h[p].idx \in 0 .. 1 /\ (gp # head => h[gp].child[h[p].idx] = p)
  BY <1>1, ShapeParts
<1>8. c # tail => c \in Allocated(h) /\ h[c].up = n /\ h[c].idx = 1 - i
  <2>1. h[n].child[1 - i] # tail =>
          /\ h[n].child[1 - i] \in Allocated(h)
          /\ h[h[n].child[1 - i]].up = n /\ h[h[n].child[1 - i]].idx = 1 - i
    BY <1>2, <1>5, LinkParts
  <2> QED
    BY <1>1, <2>1
<1>9. TurnedNodes(h, p, i, n, gp, c, h[p].idx)
  BY <1>1, <1>2, <1>5, <1>6, <1>7, <1>8, Zenon DEF TurnedNodes
<1>10. head \notin Allocated(h) /\ tail \notin Allocated(h)
  BY HeapParts, Zenon
<1>11. /\ h2[p].up = n /\ h2[p].idx = 1 - i
       /\ h2[p].child[i] = c /\ h2[p].child[1 - i] = h[p].child[1 - i]
       /\ h2[n].up = gp /\ h2[n].idx = h[p].idx /\ h2[n].child[1 - i] = p /\ h2[n].child[i] = h[n].child[i]
       /\ c # tail => h2[c].up = p /\ h2[c].child = h[c].child
       /\ gp # head => /\ h2[gp].child[h[p].idx] = n
                       /\ h2[gp].child[1 - h[p].idx] = h[gp].child[1 - h[p].idx]
                       /\ h2[gp].up = h[gp].up
       /\ \A m \in Allocated(h) \ {p, n, c, gp} : h2[m].up = h[m].up /\ h2[m].child = h[m].child
  BY <1>1, Zenon DEF RotatedLinks
<1>12. \A m \in Allocated(h) : m \notin {p, n, gp} => h2[m].child = h[m].child
  BY <1>10, <1>11
<1>13. \A m \in Allocated(h) : m \notin {p, n, c} => h2[m].up = h[m].up
  BY <1>10, <1>11
<1>14. TurnedLinks(h, h2, p, i, n, gp, c, h[p].idx)
  BY <1>11, <1>12, <1>13, Zenon DEF TurnedLinks
<1> QED
  BY <1>1, <1>9, <1>14

(* A rotation around a red child keeps all paths equally black, if the two *)
(* nodes change colours.                                                   *)
LEMMA TurnBlacks ==
  ASSUME NEW h, IsHeap(h), NEW v, Shape(h, v), NEW h2, NEW p, NEW i, NEW n, NEW gp, NEW c,
         TurnsAbout(h, h2, p, i, n, gp, c),
         NEW red, NEW red2, Swapped(h, red, red2, p, n), NEW b, Blacks(h, red, b)
  PROVE  \E b2 : Blacks(h2, red2, b2)
<1> DEFINE b2 == [m \in Places(h) |-> IF m = p THEN b[n] ELSE IF m = n THEN b[p] ELSE b[m]]
<1>1. PICK A : A = Allocated(h)
  OBVIOUS
<1>2. PICK g : g = h[p].idx
  OBVIOUS
<1>3. TurnedNodes(h, p, i, n, gp, c, g) /\ TurnedLinks(h, h2, p, i, n, gp, c, g) /\ Allocated(h2) = A
  <2>1. /\ TurnedNodes(h, p, i, n, gp, c, h[p].idx)
        /\ TurnedLinks(h, h2, p, i, n, gp, c, h[p].idx) /\ Allocated(h2) = Allocated(h)
    BY TurnNodes
  <2> QED
    BY <1>1, <1>2, <2>1
<1>4. /\ p \in A /\ n \in A /\ gp \in A \cup {head} /\ c \in Places(h) /\ g \in 0 .. 1 /\ i \in 0 .. 1
      /\ p # n /\ p # c /\ p # gp /\ n # c /\ n # gp /\ c # gp
      /\ h[p].child[i] = n /\ h[n].child[1 - i] = c /\ h[p].up = gp /\ h[p].idx = g
      /\ h[n].up = p /\ h[n].idx = i /\ 1 - i \in 0 .. 1 /\ 1 - i # i
      /\ gp # head => h[gp].child[g] = p
      /\ h2[p].child[i] = c /\ h2[p].child[1 - i] = h[p].child[1 - i]
      /\ h2[n].child[i] = h[n].child[i] /\ h2[n].child[1 - i] = p
      /\ gp # head => h2[gp].child[g] = n /\ h2[gp].child[1 - g] = h[gp].child[1 - g]
      /\ \A m \in A : m \notin {p, n, gp} => h2[m].child = h[m].child
  BY <1>1, <1>3, Zenon DEF TurnedNodes, TurnedLinks
<1>5. \A m \in A : \A j \in 0 .. 1 :
        /\ h[m].child[j] \in Places(h)
        /\ h[m].child[j] # tail => h[h[m].child[j]].up = m /\ h[h[m].child[j]].idx = j
  BY <1>1, LinkParts
<1>6. /\ b \in [Places(h) -> Nat \ {0}] /\ b[tail] = 1
      /\ \A m \in A : \A j \in 0 .. 1 : b[m] = b[h[m].child[j]] + Tint(red, m)
  BY <1>1 DEF Blacks
<1>7. tail \notin A /\ head \notin A /\ Places(h) = A \cup {tail} /\ Places(h2) = Places(h)
  <2>1. tail \notin A /\ head \notin A
    BY <1>1, HeapParts, Zenon
  <2> QED
    BY <1>1, <1>3, <2>1 DEF Places
<1>8. /\ red[n] = TRUE /\ red2[p] = TRUE /\ red2[n] = red[p]
      /\ \A m \in A : m # p /\ m # n => red2[m] = red[m]
  BY <1>1 DEF Swapped
<1>9. /\ Tint(red, n) = 0 /\ Tint(red2, p) = 0 /\ Tint(red2, n) = Tint(red, p)
      /\ \A m \in A : m # p /\ m # n => Tint(red2, m) = Tint(red, m)
  BY <1>8 DEF Tint
<1>10. b2 \in [Places(h) -> Nat \ {0}] /\ b2[tail] = 1
  <2>1. b2 \in [Places(h) -> Nat \ {0}]
    BY <1>4, <1>6, <1>7
  <2>2. b2[tail] = 1
    BY <1>4, <1>6, <1>7
  <2> QED
    BY <2>1, <2>2
<1>11. b2[p] = b[n] /\ b2[n] = b[p] /\ \A m \in Places(h) : m # p /\ m # n => b2[m] = b[m]
  BY <1>4, <1>7
<1> HIDE DEF b2
<1>12. \A j \in 0 .. 1 : j = i \/ j = 1 - i
  BY <1>4
<1>13. ASSUME NEW m \in A, NEW j \in 0 .. 1, m \notin {p, n, gp}
       PROVE  b2[m] = b2[h2[m].child[j]] + Tint(red2, m)
  <2> DEFINE d == h[m].child[j]
  <2>1. h2[m].child[j] = d /\ d \in Places(h) /\ b[m] = b[d] + Tint(red, m)
    BY <1>4, <1>5, <1>6, <1>13
  <2>2. d # p /\ d # n
    BY <1>4, <1>5, <1>7, <1>13
  <2> HIDE DEF d
  <2> QED
    BY <1>7, <1>9, <1>11, <1>13, <2>1, <2>2
<1>14. b[p] = b[n] + Tint(red, p) /\ b[n] = b[c]
  <2>1. b[n] = b[c] + Tint(red, n)
    BY <1>4, <1>6
  <2>2. b[p] = b[n] + Tint(red, p)
    BY <1>4, <1>6
  <2>3. b[n] \in Nat /\ b[c] \in Nat
    BY <1>4, <1>6, <1>7
  <2> QED
    BY <1>9, <2>1, <2>2, <2>3
<1>15. ASSUME NEW j \in 0 .. 1 PROVE b2[p] = b2[h2[p].child[j]] + Tint(red2, p)
  <2>1. CASE j = i
    <3>1. b2[p] = b2[c] + 0
      BY <1>4, <1>6, <1>7, <1>11, <1>14
    <3> QED
      BY <1>4, <1>9, <2>1, <3>1
  <2>2. CASE j = 1 - i
    <3> DEFINE d == h[p].child[j]
    <3>1. d \in Places(h) /\ b[p] = b[d] + Tint(red, p) /\ h2[p].child[j] = d
      BY <1>4, <1>5, <1>6, <2>2
    <3>2. d # p /\ d # n
      BY <1>4, <1>5, <1>7, <2>2
    <3> HIDE DEF d
    <3>3. b[d] = b[n]
      <4>1. b[d] \in Nat /\ b[n] \in Nat /\ Tint(red, p) \in Nat
        BY <1>4, <1>6, <1>7, <3>1 DEF Tint
      <4> QED
        BY <1>14, <3>1, <4>1
    <3>4. b2[d] = b[n] /\ b[n] \in Nat
      BY <1>4, <1>6, <1>7, <1>11, <3>1, <3>2, <3>3
    <3> QED
      BY <1>9, <1>11, <3>1, <3>4
  <2> QED
    BY <1>12, <2>1, <2>2
<1>16. ASSUME NEW j \in 0 .. 1 PROVE b2[n] = b2[h2[n].child[j]] + Tint(red2, n)
  <2>1. CASE j = 1 - i
    BY <1>4, <1>9, <1>11, <1>14, <2>1
  <2>2. CASE j = i
    <3> DEFINE d == h[n].child[j]
    <3>1. d \in Places(h) /\ b[n] = b[d] + Tint(red, n) /\ h2[n].child[j] = d
      BY <1>4, <1>5, <1>6, <2>2
    <3>2. d # p /\ d # n
      BY <1>4, <1>5, <1>7, <2>2
    <3> HIDE DEF d
    <3>3. b[d] = b[n]
      <4>1. b[d] \in Nat /\ b[n] \in Nat
        BY <1>4, <1>6, <1>7, <3>1
      <4> QED
        BY <1>9, <3>1, <4>1
    <3> QED
      BY <1>9, <1>11, <1>14, <3>1, <3>2, <3>3
  <2> QED
    BY <1>12, <2>1, <2>2
<1>17. ASSUME gp # head, NEW j \in 0 .. 1 PROVE b2[gp] = b2[h2[gp].child[j]] + Tint(red2, gp)
  <2>1. gp \in A
    BY <1>4, <1>17
  <2>2. g = 0 \/ g = 1
    BY <1>4
  <2>3. CASE j = g
    <3>1. b[gp] = b[p] + Tint(red, gp) /\ h2[gp].child[j] = n
      BY <1>4, <1>6, <1>17, <2>1, <2>3
    <3> QED
      BY <1>4, <1>7, <1>9, <1>11, <2>1, <3>1
  <2>4. CASE j = 1 - g
    <3> DEFINE d == h[gp].child[j]
    <3>1. d \in Places(h) /\ b[gp] = b[d] + Tint(red, gp) /\ h2[gp].child[j] = d
      BY <1>4, <1>5, <1>6, <1>17, <2>1, <2>4
    <3>2. 1 - g # g
      BY <2>2
    <3>3. d # p /\ d # n
      <4>1. d # tail => h[d].up = gp /\ h[d].idx = 1 - g
        BY <1>5, <2>1, <2>4
      <4>2. h[p].idx = g /\ p # tail /\ n # tail
        BY <1>4, <1>7
      <4> QED
        BY <1>4, <3>2, <4>1, <4>2
    <3> HIDE DEF d
    <3> QED
      BY <1>4, <1>7, <1>9, <1>11, <2>1, <3>1, <3>3
  <2> QED
    BY <2>2, <2>3, <2>4
<1>18. ASSUME NEW m \in A, NEW j \in 0 .. 1 PROVE b2[m] = b2[h2[m].child[j]] + Tint(red2, m)
  <2>1. CASE m = p
    BY <1>15, <2>1
  <2>2. CASE m = n
    BY <1>16, <2>2
  <2>3. CASE m = gp
    BY <1>7, <1>17, <2>3
  <2>4. CASE m \notin {p, n, gp}
    BY <1>13, <2>4
  <2> QED
    BY <2>1, <2>2, <2>3, <2>4
<1>19. Blacks(h2, red2, b2)
  BY <1>1, <1>3, <1>7, <1>10, <1>18 DEF Blacks
<1> QED
  BY <1>19

(* Node p and its child on the other side than i are black, and e is child *)
(* i of n.                                                                 *)
EndsAt(h, red, p, i, n, e) ==
  /\ red[p] = FALSE /\ (h[p].child[1 - i] # tail => ~red[h[p].child[1 - i]])
  /\ h[e].up = n /\ h[e].idx = i

(* The red node n rises above its black parent p and takes its colour: the *)
(* clash of n with its child e ends.                                       *)
LEMMA TurnEnds ==
  ASSUME NEW h, IsHeap(h), NEW v, Shape(h, v), NEW h2, NEW p, NEW i, NEW n, NEW gp, NEW c,
         TurnsAbout(h, h2, p, i, n, gp, c),
         NEW red, NEW red2, Swapped(h, red, red2, p, n),
         NEW e, EndsAt(h, red, p, i, n, e), ClashesAt(h, red, e)
  PROVE  ClashesAt(h2, red2, tail)
<1>1. /\ red[p] = FALSE /\ (h[p].child[1 - i] # tail => ~red[h[p].child[1 - i]])
      /\ h[e].up = n /\ h[e].idx = i
  BY DEF EndsAt
<1>2. PICK A : A = Allocated(h)
  OBVIOUS
<1>3. PICK g : TurnedNodes(h, p, i, n, gp, c, g) /\ TurnedLinks(h, h2, p, i, n, gp, c, g)
  BY TurnNodes
<1>4. Allocated(h2) = A
  BY <1>2, TurnNodes
<1>5. /\ p \in A /\ n \in A /\ gp \in A \cup {head} /\ c \in Places(h) /\ i \in 0 .. 1
      /\ p # n /\ p # c /\ p # gp /\ n # c /\ n # gp /\ c # gp
      /\ h[p].child[i] = n /\ h[p].up = gp /\ h[n].up = p /\ 1 - i \in 0 .. 1 /\ 1 - i # i
      /\ h2[p].up = n /\ h2[n].up = gp /\ (c # tail => h2[c].up = p)
      /\ c # tail => c \in A /\ h[c].up = n /\ h[c].idx = 1 - i
      /\ \A m \in A : m \notin {p, n, c} => h2[m].up = h[m].up
  BY <1>2, <1>3, Zenon DEF TurnedNodes, TurnedLinks
<1>6. /\ red[n] = TRUE /\ red2[p] = TRUE /\ red2[n] = FALSE
      /\ red \in [A -> BOOLEAN]
      /\ \A m \in A : m # p /\ m # n => red2[m] = red[m]
  BY <1>2, <1>1 DEF Swapped
<1>7. head \notin A /\ tail \notin A
  BY <1>2, HeapParts, Zenon
<1>8. \A m \in A : m # e => ~Clashes(h, red, m)
  BY <1>2 DEF ClashesAt
<1>9. \A m \in A : h[m].up # head => h[m].up \in A /\ h[h[m].up].child[h[m].idx] = m
                                     /\ h[m].idx \in 0 .. 1
  BY <1>2, ShapeParts
<1>10. ASSUME NEW m \in A, h[m].up = p, m # n PROVE ~red[m]
  <2>1. h[p].child[h[m].idx] = m /\ h[m].idx \in 0 .. 1 /\ p # head
    <3>1. h[m].up # head /\ h[m].up = p
      BY <1>5, <1>7, <1>10
    <3> QED
      BY <1>9, <3>1
  <2>2. h[m].idx # i
    BY <1>5, <1>10, <2>1
  <2>3. h[m].idx = 1 - i
    BY <1>5, <2>1, <2>2
  <2> QED
    BY <1>7, <1>1, <2>1, <2>3
<1>11. c # tail => ~red[c]
  <2>1. CASE c # tail
    <3>1. ~Clashes(h, red, c)
      BY <1>5, <1>8, <1>1, <2>1
    <3>2. n # head
      BY <1>5, <1>7
    <3> QED
      BY <1>5, <1>6, <2>1, <3>1, <3>2 DEF Clashes
  <2> QED
    BY <2>1
<1>12. ASSUME NEW m \in A, Clashes(h2, red2, m) PROVE FALSE
  <2>1. red2[m] /\ h2[m].up # head /\ red2[h2[m].up]
    BY <1>12 DEF Clashes
  <2>2. m # n /\ m # p
    BY <1>6, <1>5, <2>1
  <2>3. m # c
    BY <1>5, <1>6, <1>7, <1>11, <2>1, <2>2
  <2>4. h2[m].up = h[m].up /\ red[m]
    BY <1>5, <1>6, <2>1, <2>2, <2>3
  <2>5. h[m].up # n /\ h[m].up # p
    BY <1>6, <1>10, <2>1, <2>2, <2>4
  <2>6. red[h[m].up] /\ h[m].up # head
    BY <1>6, <1>9, <2>1, <2>4, <2>5
  <2>7. Clashes(h, red, m)
    BY <2>4, <2>6 DEF Clashes
  <2>8. m = e
    BY <1>8, <2>7
  <2> QED
    BY <1>1, <2>5, <2>8
<1> QED
  BY <1>12, <1>4 DEF ClashesAt

(* The red node n rises above its red parent p: now p clashes with n. *)
LEMMA TurnMoves ==
  ASSUME NEW h, IsHeap(h), NEW v, Shape(h, v), NEW h2, NEW p, NEW i, NEW n, NEW gp, NEW c,
         TurnsAbout(h, h2, p, i, n, gp, c),
         NEW red, red[p], red[n], gp # head, ~red[gp], ClashesAt(h, red, n)
  PROVE  ClashesAt(h2, red, p)
<1>1. PICK A : A = Allocated(h)
  OBVIOUS
<1>2. PICK g : TurnedNodes(h, p, i, n, gp, c, g) /\ TurnedLinks(h, h2, p, i, n, gp, c, g)
  BY TurnNodes
<1>3. Allocated(h2) = A
  BY <1>1, TurnNodes
<1>4. /\ p \in A /\ n \in A /\ gp \in A \cup {head} /\ c \in Places(h) /\ i \in 0 .. 1
      /\ p # n /\ p # c /\ p # gp /\ n # c /\ n # gp /\ c # gp
      /\ h[p].child[i] = n /\ h[p].up = gp /\ h[n].up = p /\ 1 - i \in 0 .. 1 /\ 1 - i # i
      /\ h2[p].up = n /\ h2[n].up = gp /\ (c # tail => h2[c].up = p)
      /\ c # tail => c \in A /\ h[c].up = n /\ h[c].idx = 1 - i
      /\ \A m \in A : m \notin {p, n, c} => h2[m].up = h[m].up
  BY <1>1, <1>2, Zenon DEF TurnedNodes, TurnedLinks
<1>5. head \notin A /\ tail \notin A
  BY <1>1, HeapParts, Zenon
<1>6. \A m \in A : m # n => ~Clashes(h, red, m)
  BY <1>1 DEF ClashesAt
<1>7. c # tail => ~red[c]
  <2>1. CASE c # tail
    <3>1. ~Clashes(h, red, c)
      BY <1>4, <1>6, <2>1
    <3>2. n # head
      BY <1>4, <1>5
    <3> QED
      BY <1>4, <2>1, <3>1, <3>2 DEF Clashes
  <2> QED
    BY <2>1
<1>8. ASSUME NEW m \in A, m # p, Clashes(h2, red, m) PROVE FALSE
  <2>1. red[m] /\ h2[m].up # head /\ red[h2[m].up]
    BY <1>8 DEF Clashes
  <2>2. m # n
    BY <1>4, <2>1
  <2>3. m # c
    BY <1>4, <1>5, <1>7, <2>1, <2>2
  <2>4. h2[m].up = h[m].up
    BY <1>4, <1>8, <2>2, <2>3
  <2>5. Clashes(h, red, m)
    BY <2>1, <2>4 DEF Clashes
  <2> QED
    BY <1>6, <2>2, <2>5
<1> QED
  BY <1>8, <1>3 DEF ClashesAt

(* The colours with another one at n. *)
Dyed(red, n, c) == [m \in DOMAIN red |-> IF m = n THEN c ELSE red[m]]

(* h2 is h with node n painted. *)
Paints(h, h2, v, n, c) ==
  /\ IsHeap(h2) /\ Shape(h2, v) /\ Allocated(h2) = Allocated(h) /\ SameLinks(h, h2)
  /\ Reds(h2) = Dyed(Reds(h), n, c)

(* set_red and set_black change one colour and no link. *)
LEMMA PaintReds ==
  ASSUME NEW h, IsHeap(h), NEW v, Shape(h, v), NEW n \in Allocated(h)
  PROVE  Paints(h, set_red(h, n), v, n, TRUE) /\ Paints(h, set_black(h, n), v, n, FALSE)
<1>1. ASSUME NEW h2, IsHeap(h2), SameElements(h, h2), SameLinks(h, h2), NEW c \in BOOLEAN,
             h2[n].red = c, \A m \in Nodes \cup {head, tail} : m # n => h2[m] = h[m]
      PROVE  Paints(h, h2, v, n, c)
  <2>1. Allocated(h2) = Allocated(h)
    BY <1>1 DEF SameElements
  <2>2. Shape(h2, v)
    BY <1>1, <2>1, SameShape
  <2>3. Allocated(h) \subseteq Nodes
    BY HeapParts
  <2>4. \A m \in Allocated(h) : h2[m].red = IF m = n THEN c ELSE h[m].red
    BY <1>1, <2>3
  <2>5. Reds(h2) = Dyed(Reds(h), n, c)
    BY <2>1, <2>4 DEF Reds, Dyed
  <2> QED
    BY <1>1, <2>1, <2>2, <2>5 DEF Paints
<1>2. n \in Nodes /\ DOMAIN h = Nodes \cup {head, tail}
  <2>1. n \in Nodes
    BY HeapParts
  <2> QED
    BY <2>1 DEF IsHeap
<1>3. Paints(h, set_red(h, n), v, n, TRUE)
  <2> DEFINE h2 == set_red(h, n)
  <2>1. IsHeap(h2) /\ SameElements(h, h2) /\ SameLinks(h, h2)
    BY ColourLinks
  <2>2. h2[n].red = TRUE
    BY ColourLinks
  <2>3. \A m \in Nodes \cup {head, tail} : m # n => h2[m] = h[m]
    BY <1>2 DEF set_red
  <2> HIDE DEF h2
  <2>4. Paints(h, h2, v, n, TRUE)
    BY <1>1, <2>1, <2>2, <2>3
  <2> QED
    BY <2>4 DEF h2
<1>4. Paints(h, set_black(h, n), v, n, FALSE)
  <2> DEFINE h2 == set_black(h, n)
  <2>1. IsHeap(h2) /\ SameElements(h, h2) /\ SameLinks(h, h2)
    BY ColourLinks
  <2>2. h2[n].red = FALSE
    BY ColourLinks
  <2>3. \A m \in Nodes \cup {head, tail} : m # n => h2[m] = h[m]
    BY <1>2 DEF set_black
  <2> HIDE DEF h2
  <2>4. Paints(h, h2, v, n, FALSE)
    BY <1>1, <2>1, <2>2, <2>3
  <2> QED
    BY <2>4 DEF h2
<1> QED
  BY <1>3, <1>4

(* Colours are about links. *)
LEMMA LinksKeepColours ==
  ASSUME NEW h, IsHeap(h), NEW v, Shape(h, v), NEW h2, Allocated(h2) = Allocated(h), SameLinks(h, h2),
         NEW red, NEW x, Coloured(h, red, x)
  PROVE  Coloured(h2, red, x)
<1>1. PICK b : Blacks(h, red, b)
  BY DEF Coloured
<1>2. Blacks(h2, red, b)
  BY <1>1 DEF Blacks, Places, SameLinks
<1>3. ClashesAt(h2, red, x)
  BY DEF Coloured, ClashesAt, Clashes, SameLinks
<1> QED
  BY <1>2, <1>3 DEF Coloured

(* rotate_return turns and paints nothing. *)
TurnsBack(h, h2, n) ==
  /\ IsHeap(h2) /\ Allocated(h2) = Allocated(h) /\ Reds(h2) = Reds(h)
  /\ \E v2 : Shape(h2, v2)
  /\ TurnsAbout(h, h2, h[n].up, h[n].idx, n, h[h[n].up].up, h[n].child[1 - h[n].idx])

(* rotate_return, called with a node, its parent and its grandparent,    *)
(* turns the parent and the node and paints nothing.                     *)
LEMMA ReturnReds ==
  ASSUME NEW h, IsHeap(h), NEW v, Shape(h, v), NEW n \in Allocated(h), h[n].up # head
  PROVE  TurnsBack(h, rotate_return(h, h[h[n].up].up, h[n].up, n), n)
<1> DEFINE p == h[n].up
           i == h[n].idx
           gp == h[p].up
           c == h[n].child[1 - i]
           h2 == rotate_return(h, gp, p, n)
<1>1. RotatesTo(h, h2, v, gp, p, n, c, i)
  BY ReturnTurns
<1>2. p \in Allocated(h) /\ i \in 0 .. 1 /\ h[p].child[i] = n
  BY ShapeParts
<1>3. n # tail
  <2>1. tail \notin Allocated(h)
    BY HeapParts
  <2> QED
    BY <2>1
<1> HIDE DEF h2
<1>4. /\ IsHeap(h2) /\ SameElements(h, h2) /\ SameColours(h, h2)
      /\ RotatedLinks(h, h2, gp, p, n, c, i) /\ \E v2 : Shape(h2, v2)
  BY <1>1, Zenon DEF RotatesTo
<1>5. Allocated(h2) = Allocated(h)
  BY <1>4 DEF SameElements
<1>6. Reds(h2) = Reds(h)
  BY <1>4, <1>5 DEF Reds, SameColours
<1>7. TurnsAbout(h, h2, p, i, n, gp, c)
  BY <1>2, <1>3, <1>4, <1>5, Zenon DEF TurnsAbout
<1> QED
  BY <1>4, <1>5, <1>6, <1>7, Zenon DEF TurnsBack, h2

(* Of the colours red, q is painted red and m black. *)
Traded(red, q, m) == Dyed(Dyed(red, q, TRUE), m, FALSE)

TradedColours(A, red, red2, q, m) ==
  /\ red2 \in [A -> BOOLEAN] /\ red2[q] = TRUE /\ red2[m] = FALSE
  /\ \A x \in A : x # q /\ x # m => red2[x] = red[x]

(* Two nodes change their colour. *)
LEMMA TradedParts ==
  ASSUME NEW A, NEW red \in [A -> BOOLEAN], NEW q \in A, NEW m \in A, q # m
  PROVE  TradedColours(A, red, Traded(red, q, m), q, m)
<1> QED
  BY DEF Traded, Dyed, TradedColours

(* The last rotation of rbtree_insert_balance: m rises above q, which is   *)
(* red already, and turns black.                                           *)
LastTurn(h, m, q) == set_black(rotate_return(h, h[q].up, q, m), m)

(* Its premise: the colours red are those from before q was painted, and e *)
(* is the red child of the red m that it is for.                           *)
Trades(h, red, m, q, i, e) ==
  /\ red \in [Allocated(h) -> BOOLEAN]
  /\ m \in Allocated(h) /\ q \in Allocated(h) /\ h[m].up = q /\ q # head /\ h[m].idx = i
  /\ Reds(h) = Dyed(red, q, TRUE) /\ red[m] = TRUE /\ red[q] = FALSE
  /\ h[q].child[1 - i] # tail => ~red[h[q].child[1 - i]]
  /\ h[e].up = m /\ h[e].idx = i

(* The last rotation of rbtree_insert_balance, and the painting around   *)
(* it, end the clash.                                                    *)
LEMMA LastTurnColours ==
  ASSUME NEW h, IsHeap(h), NEW v, Shape(h, v), NEW m, NEW q, NEW i, NEW e, NEW red,
         Trades(h, red, m, q, i, e), Coloured(h, red, e)
  PROVE  /\ Coloured(LastTurn(h, m, q), Reds(LastTurn(h, m, q)), tail)
         /\ Reds(LastTurn(h, m, q)) = Traded(red, q, m)
<1>1. /\ red \in [Allocated(h) -> BOOLEAN]
      /\ m \in Allocated(h) /\ q \in Allocated(h) /\ h[m].up = q /\ q # head /\ h[m].idx = i
      /\ Reds(h) = Dyed(red, q, TRUE) /\ red[m] = TRUE /\ red[q] = FALSE
      /\ h[q].child[1 - i] # tail => ~red[h[q].child[1 - i]]
      /\ h[e].up = m /\ h[e].idx = i
  BY DEF Trades
<1>2. PICK h2 : h2 = rotate_return(h, h[q].up, q, m)
  OBVIOUS
<1>3. PICK h3 : h3 = set_black(h2, m)
  OBVIOUS
<1>4. TurnsBack(h, h2, m)
  <2>1. h[m].up # head
    BY <1>1
  <2>2. TurnsBack(h, rotate_return(h, h[h[m].up].up, h[m].up, m), m)
    BY <1>1, <2>1, ReturnReds
  <2> QED
    BY <1>1, <1>2, <2>2
<1>5. PICK gp, c : TurnsAbout(h, h2, q, i, m, gp, c)
  BY <1>1, <1>4 DEF TurnsBack
<1>6. PICK v2 : Shape(h2, v2)
  BY <1>4 DEF TurnsBack
<1>7. IsHeap(h2) /\ Allocated(h2) = Allocated(h) /\ Reds(h2) = Dyed(red, q, TRUE)
  BY <1>1, <1>4 DEF TurnsBack
<1>8. Paints(h2, h3, v2, m, FALSE)
  BY <1>1, <1>3, <1>6, <1>7, PaintReds
<1>9. Reds(h3) = Traded(red, q, m)
  BY <1>7, <1>8 DEF Paints, Traded
<1>10. q # m
  BY <1>1
<1> DEFINE red2 == Traded(red, q, m)
<1>11. Swapped(h, red, red2, q, m)
  <2>1. TradedColours(Allocated(h), red, red2, q, m)
    BY <1>1, <1>10, TradedParts
  <2> HIDE DEF red2
  <2> QED
    BY <1>1, <2>1 DEF Swapped, TradedColours
<1> HIDE DEF red2
<1>12. (\E b : Blacks(h, red, b)) /\ ClashesAt(h, red, e)
  BY DEF Coloured
<1>13. \E b : Blacks(h2, red2, b)
  <2>1. PICK b : Blacks(h, red, b)
    BY <1>12
  <2> QED
    BY <1>5, <1>11, <2>1, TurnBlacks
<1>14. ClashesAt(h2, red2, tail)
  <2>1. EndsAt(h, red, q, i, m, e)
    BY <1>1 DEF EndsAt
  <2> QED
    BY <1>5, <1>11, <1>12, <2>1, TurnEnds
<1>15. Coloured(h2, red2, tail)
  BY <1>13, <1>14 DEF Coloured
<1>16. Allocated(h3) = Allocated(h2) /\ SameLinks(h2, h3)
  BY <1>8 DEF Paints
<1>17. Coloured(h3, red2, tail)
  BY <1>6, <1>7, <1>15, <1>16, LinksKeepColours
<1>18. h3 = LastTurn(h, m, q)
  BY <1>2, <1>3 DEF LastTurn
<1> QED
  BY <1>9, <1>17, <1>18 DEF red2

(* What rbtree_insert_balance finds at n when its parent p is red and its  *)
(* uncle, on the other side of gp, is black.                               *)
Leans(h, red, n, p, gp) ==
  /\ red = Reds(h) /\ red \in [Allocated(h) -> BOOLEAN]
  /\ n \in Allocated(h) /\ p \in Allocated(h) /\ gp \in Allocated(h)
  /\ n # p /\ n # gp /\ p # gp /\ p # head /\ gp # head
  /\ h[n].up = p /\ h[p].up = gp /\ h[n].idx \in 0 .. 1 /\ h[p].idx \in 0 .. 1
  /\ h[gp].child[h[p].idx] = p
  /\ red[n] = TRUE /\ red[p] = TRUE /\ red[gp] = FALSE
  /\ h[gp].child[1 - h[p].idx] # tail => ~red[h[gp].child[1 - h[p].idx]]

(* No node but x has turned red. *)
Reddens(h, h2, x) ==
  Allocated(h2) = Allocated(h) /\ \A m \in Allocated(h) : m # x /\ Reds(h2)[m] => Reds(h)[m]

(* That reddens the grandparent at most. *)
LEMMA TradedReddens ==
  ASSUME NEW h, NEW red, NEW n, NEW p, NEW gp, Leans(h, red, n, p, gp), NEW m \in {n, p},
         NEW h2, Allocated(h2) = Allocated(h), Reds(h2) = Traded(red, gp, m)
  PROVE  Reddens(h, h2, gp)
<1>1. /\ red = Reds(h) /\ red \in [Allocated(h) -> BOOLEAN]
      /\ m \in Allocated(h) /\ gp \in Allocated(h) /\ gp # m
  BY DEF Leans
<1>2. TradedColours(Allocated(h), red, Traded(red, gp, m), gp, m)
  BY <1>1, TradedParts
<1>3. /\ Reds(h2)[m] = FALSE
      /\ \A x \in Allocated(h) : x # gp /\ x # m => Reds(h2)[x] = red[x]
  BY <1>2 DEF TradedColours
<1> QED
  BY <1>1, <1>3 DEF Reddens

(* Node and parent are on the same side: one rotation. *)
LEMMA OuterColours ==
  ASSUME NEW h, IsHeap(h), NEW v, Shape(h, v), NEW red, NEW n, NEW p, NEW gp, Leans(h, red, n, p, gp),
         Coloured(h, red, n), h[n].idx = h[p].idx
  PROVE  LET h3 == LastTurn(set_red(h, gp), p, gp)
         IN  Coloured(h3, Reds(h3), tail) /\ Reds(h3) = Traded(red, gp, p)
<1>1. PICK h1 : h1 = set_red(h, gp)
  OBVIOUS
<1>2. /\ red = Reds(h) /\ red \in [Allocated(h) -> BOOLEAN]
      /\ n \in Allocated(h) /\ p \in Allocated(h) /\ gp \in Allocated(h)
      /\ gp # head /\ h[n].up = p /\ h[p].up = gp
      /\ red[n] = TRUE /\ red[p] = TRUE /\ red[gp] = FALSE
      /\ h[gp].child[1 - h[p].idx] # tail => ~red[h[gp].child[1 - h[p].idx]]
  BY DEF Leans
<1>3. Paints(h, h1, v, gp, TRUE)
  BY <1>1, <1>2, PaintReds
<1>4. /\ IsHeap(h1) /\ Shape(h1, v) /\ Allocated(h1) = Allocated(h) /\ SameLinks(h, h1)
      /\ Reds(h1) = Dyed(red, gp, TRUE)
  BY <1>2, <1>3 DEF Paints
<1>5. Coloured(h1, red, n)
  BY <1>4, LinksKeepColours
<1>6. /\ h1[n].up = h[n].up /\ h1[n].idx = h[n].idx /\ h1[p].up = h[p].up /\ h1[p].idx = h[p].idx
      /\ h1[gp].child = h[gp].child
  BY <1>2, <1>4 DEF SameLinks
<1>7. Trades(h1, red, p, gp, h[p].idx, n)
  BY <1>2, <1>4, <1>6 DEF Trades
<1> QED
  BY <1>1, <1>4, <1>5, <1>7, LastTurnColours

(* They are on different sides: two rotations. *)
LEMMA InnerColours ==
  ASSUME NEW h, IsHeap(h), NEW v, Shape(h, v), NEW red, NEW n, NEW p, NEW gp, Leans(h, red, n, p, gp),
         Coloured(h, red, n), h[n].idx # h[p].idx
  PROVE  LET h1 == set_red(h, gp)
             h4 == LastTurn(rotate_return(h1, gp, p, n), n, gp)
         IN  Coloured(h4, Reds(h4), tail) /\ Reds(h4) = Traded(red, gp, n)
<1>1. PICK h1 : h1 = set_red(h, gp)
  OBVIOUS
<1>2. /\ red = Reds(h) /\ red \in [Allocated(h) -> BOOLEAN]
      /\ n \in Allocated(h) /\ p \in Allocated(h) /\ gp \in Allocated(h)
      /\ n # p /\ n # gp /\ p # gp /\ p # head /\ gp # head /\ h[n].up = p /\ h[p].up = gp
      /\ h[n].idx \in 0 .. 1 /\ h[p].idx \in 0 .. 1
      /\ red[n] = TRUE /\ red[p] = TRUE /\ red[gp] = FALSE
      /\ h[gp].child[1 - h[p].idx] # tail => ~red[h[gp].child[1 - h[p].idx]]
  BY DEF Leans
<1>3. Paints(h, h1, v, gp, TRUE)
  BY <1>1, <1>2, PaintReds
<1>4. /\ IsHeap(h1) /\ Shape(h1, v) /\ Allocated(h1) = Allocated(h) /\ SameLinks(h, h1)
      /\ Reds(h1) = Dyed(red, gp, TRUE)
  BY <1>2, <1>3 DEF Paints
<1>5. Coloured(h1, red, n)
  BY <1>4, LinksKeepColours
<1>6. /\ h1[n].up = h[n].up /\ h1[n].idx = h[n].idx /\ h1[p].up = h[p].up /\ h1[p].idx = h[p].idx
      /\ h1[gp].child = h[gp].child
  BY <1>2, <1>4 DEF SameLinks
<1>7. PICK h2 : h2 = rotate_return(h1, gp, p, n)
  OBVIOUS
<1>8. TurnsBack(h1, h2, n)
  <2>1. n \in Allocated(h1) /\ h1[n].up # head
    BY <1>2, <1>4, <1>6
  <2>2. TurnsBack(h1, rotate_return(h1, h1[h1[n].up].up, h1[n].up, n), n)
    BY <1>4, <2>1, ReturnReds
  <2>3. h1[h1[n].up].up = gp /\ h1[n].up = p
    BY <1>2, <1>6
  <2> QED
    BY <1>7, <2>2, <2>3
<1> DEFINE i == h[p].idx
           j == h[n].idx
<1>9. j = 1 - i /\ i = 1 - j
  BY <1>2
<1>10. PICK c : TurnsAbout(h1, h2, p, j, n, gp, c)
  <2>1. h1[h1[n].up].up = gp /\ h1[n].up = p /\ h1[n].idx = j
    BY <1>2, <1>6
  <2>2. TurnsAbout(h1, h2, h1[n].up, h1[n].idx, n, h1[h1[n].up].up, h1[n].child[1 - h1[n].idx])
    BY <1>8 DEF TurnsBack
  <2> QED
    BY <2>1, <2>2
<1> HIDE DEF i, j
<1>11. TurnedNodes(h1, p, j, n, gp, c, i) /\ TurnedLinks(h1, h2, p, j, n, gp, c, i)
  <2>1. /\ TurnedNodes(h1, p, j, n, gp, c, h1[p].idx)
        /\ TurnedLinks(h1, h2, p, j, n, gp, c, h1[p].idx)
    BY <1>4, <1>10, TurnNodes
  <2>2. h1[p].idx = i
    BY <1>6 DEF i
  <2> QED
    BY <2>1, <2>2
<1>12. /\ h2[p].up = n /\ h2[p].idx = i /\ h2[n].up = gp /\ h2[n].idx = i
       /\ h2[gp].child[1 - i] = h[gp].child[1 - i]
  <2>1. /\ h2[p].up = n /\ h2[p].idx = 1 - j /\ h2[n].up = gp /\ h2[n].idx = i
        /\ h2[gp].child[1 - i] = h1[gp].child[1 - i]
    BY <1>2, <1>11 DEF TurnedLinks
  <2> QED
    BY <1>6, <1>9, <2>1
<1>13. PICK v2 : Shape(h2, v2)
  BY <1>8 DEF TurnsBack
<1>14. IsHeap(h2) /\ Allocated(h2) = Allocated(h) /\ Reds(h2) = Dyed(red, gp, TRUE)
  BY <1>4, <1>8 DEF TurnsBack
<1>15. Swapped(h1, red, red, p, n)
  BY <1>2, <1>4 DEF Swapped
<1>16. \E b : Blacks(h2, red, b)
  <2>1. PICK b : Blacks(h1, red, b)
    BY <1>5 DEF Coloured
  <2> QED
    BY <1>4, <1>10, <1>15, <2>1, TurnBlacks
<1>17. ClashesAt(h2, red, p)
  <2>1. ClashesAt(h1, red, n)
    BY <1>5 DEF Coloured
  <2>2. red[p] /\ red[n] /\ ~red[gp]
    BY <1>2
  <2> QED
    BY <1>2, <1>4, <1>10, <2>1, <2>2, TurnMoves
<1>18. Coloured(h2, red, p)
  BY <1>16, <1>17 DEF Coloured
<1>19. Trades(h2, red, n, gp, i, p)
  BY <1>2, <1>12, <1>14 DEF Trades, i
<1>20. /\ Coloured(LastTurn(h2, n, gp), Reds(LastTurn(h2, n, gp)), tail)
       /\ Reds(LastTurn(h2, n, gp)) = Traded(red, gp, n)
  BY <1>13, <1>14, <1>18, <1>19, LastTurnColours
<1> QED
  BY <1>1, <1>7, <1>20

(* Node n and its parent are red, its grandparent gp is not. *)
RedPair(h, n) ==
  /\ n \in Allocated(h) /\ h[n].red /\ h[n].up # head /\ h[h[n].up].red
  /\ ~h[h[h[n].up].up].red

(* Where that is: u is the uncle. *)
Kin(h, red, n, p, gp, u) ==
  /\ red = Reds(h) /\ red \in [Allocated(h) -> BOOLEAN]
  /\ n \in Allocated(h) /\ p \in Allocated(h) /\ gp \in Allocated(h)
  /\ n # p /\ n # gp /\ p # gp /\ p # head /\ gp # head
  /\ p = parent(h, n) /\ gp = parent(h, p)
  /\ h[n].up = p /\ h[p].up = gp /\ h[n].idx \in 0 .. 1 /\ h[p].idx \in 0 .. 1
  /\ h[gp].child[h[p].idx] = p
  /\ red[n] = TRUE /\ red[p] = TRUE /\ red[gp] = FALSE
  /\ u = uncle(h, n) /\ u = h[gp].child[1 - h[p].idx]
  /\ u # tail => u \in Allocated(h) /\ h[u].up = gp /\ u # p /\ u # gp /\ h[u].red = red[u]

(* A red node with a red parent has a grandparent and an uncle, which    *)
(* may be the tail.                                                      *)
LEMMA KinParts ==
  ASSUME NEW h, IsHeap(h), NEW v, Shape(h, v), NEW n, RedPair(h, n)
  PROVE  Kin(h, Reds(h), n, h[n].up, h[h[n].up].up, uncle(h, n))
<1>1. PICK p : p = h[n].up
  OBVIOUS
<1>2. PICK gp : gp = h[p].up
  OBVIOUS
<1>3. PICK u : u = h[gp].child[1 - h[p].idx]
  OBVIOUS
<1>4. n \in Allocated(h) /\ h[n].red /\ p # head /\ h[p].red /\ ~h[gp].red
  BY <1>1, <1>2 DEF RedPair
<1>5. h[head].red = TRUE
  BY HeapParts
<1>6. gp # head
  BY <1>4, <1>5
<1>7. p \in Allocated(h) /\ p # n /\ h[p].child[h[n].idx] = n
  BY <1>1, <1>4, UpParts
<1>8. gp \in Allocated(h) /\ gp # p /\ h[gp].child[h[p].idx] = p
  BY <1>2, <1>6, <1>7, UpParts
<1>9. h[n].idx \in 0 .. 1 /\ h[p].idx \in 0 .. 1
  <2>1. h[n].idx \in 0 .. 1
    BY <1>4, ShapeParts
  <2>2. h[p].idx \in 0 .. 1
    BY <1>7, ShapeParts
  <2> QED
    BY <2>1, <2>2
<1>10. /\ Reds(h) \in [Allocated(h) -> BOOLEAN]
       /\ \A m \in Allocated(h) : Reds(h)[m] = h[m].red
  BY RedsParts
<1>11. n # gp
  <2>1. CASE n = gp
    BY <1>4, <2>1
  <2> QED
    BY <2>1
<1>12. 1 - h[p].idx \in 0 .. 1 /\ 1 - h[p].idx # h[p].idx
  <2>1. h[p].idx = 0 \/ h[p].idx = 1
    BY <1>9
  <2> QED
    BY <2>1
<1>13. u # tail => u \in Allocated(h) /\ h[u].up = gp /\ h[u].idx = 1 - h[p].idx
  <2>1. h[gp].child[1 - h[p].idx] # tail =>
          /\ h[gp].child[1 - h[p].idx] \in Allocated(h)
          /\ h[h[gp].child[1 - h[p].idx]].up = gp
          /\ h[h[gp].child[1 - h[p].idx]].idx = 1 - h[p].idx
    BY <1>8, <1>12, LinkParts
  <2> QED
    BY <1>3, <2>1, Zenon
<1>14. u # tail => u # p /\ u # gp
  <2>1. CASE u = gp /\ u # tail
    <3>1. h[gp].up = gp
      BY <1>13, <2>1
    <3>2. h[gp].up # head
      BY <1>6, <3>1
    <3>3. h[gp].up # gp
      BY <1>8, <3>2, UpParts
    <3> QED
      BY <3>1, <3>3
  <2> QED
    BY <1>12, <1>13, <2>1
<1>15. u = uncle(h, n)
  BY <1>1, <1>2, <1>3 DEF uncle, sibling
<1>16. Reds(h)[n] = TRUE /\ Reds(h)[p] = TRUE /\ Reds(h)[gp] = FALSE
  <2>1. /\ Reds(h)[n] = h[n].red /\ Reds(h)[p] = h[p].red /\ Reds(h)[gp] = h[gp].red
        /\ Reds(h)[n] \in BOOLEAN /\ Reds(h)[p] \in BOOLEAN /\ Reds(h)[gp] \in BOOLEAN
    BY <1>4, <1>7, <1>8, <1>10
  <2> QED
    BY <1>4, <2>1
<1>17. u # tail => u \in Allocated(h) /\ h[u].up = gp /\ u # p /\ u # gp /\ h[u].red = Reds(h)[u]
  BY <1>10, <1>13, <1>14
<1>18. p = parent(h, n) /\ gp = parent(h, p)
  BY <1>1, <1>2 DEF parent
<1>19. Kin(h, Reds(h), n, p, gp, u)
  BY <1>1, <1>2, <1>3, <1>4, <1>6, <1>7, <1>8, <1>9, <1>10, <1>11, <1>15, <1>16, <1>17, <1>18, Zenon
     DEF Kin
<1> QED
  BY <1>1, <1>2, <1>15, <1>19

(* After the rotations for a black uncle no node clashes. *)
LEMMA RotatedColours ==
  ASSUME NEW h, IsHeap(h), NEW v, Shape(h, v), NEW n, RedPair(h, n), ~h[uncle(h, n)].red,
         Coloured(h, Reds(h), n), NEW gp, gp = h[h[n].up].up
  PROVE  LET h2 == Rotated(h, n)
         IN  Coloured(h2, Reds(h2), tail) /\ Reddens(h, h2, gp)
<1>1. PICK p : p = h[n].up
  OBVIOUS
<1>2. PICK u : u = uncle(h, n)
  OBVIOUS
<1>3. PICK red : red = Reds(h)
  OBVIOUS
<1>4. Kin(h, red, n, p, gp, u)
  BY <1>1, <1>2, <1>3, KinParts
<1>5. Leans(h, red, n, p, gp)
  <2>1. u # tail => ~red[u]
    BY <1>2, <1>4 DEF Kin
  <2> QED
    BY <1>4, <2>1 DEF Kin, Leans
<1>6. PICK h2 : h2 = Rotated(h, n)
  OBVIOUS
<1>7. n \in Allocated(h) /\ h[n].up # head /\ h[h[n].up].up # head
  BY <1>1, <1>4 DEF Kin
<1>8. Allocated(h2) = Allocated(h)
  <2>1. Rebalanced(h, h2, v, v.own[n])
    BY <1>6, <1>7, RotatedRebalances
  <2> QED
    BY <2>1 DEF Rebalanced, SameElements
<1>9. CASE h[n].idx = h[p].idx
  <2>1. h2 = LastTurn(set_red(h, gp), p, gp)
    <3>1. h[gp].up = set_red(h, gp)[gp].up
      <4>1. gp \in Allocated(h)
        BY <1>4 DEF Kin
      <4>2. SameLinks(h, set_red(h, gp))
        BY <4>1, ColourLinks
      <4> QED
        BY <4>1, <4>2 DEF SameLinks
    <3>2. h2 = set_black(rotate_return(set_red(h, gp), h[gp].up, gp, p), p)
      BY <1>1, <1>6, <1>9 DEF Rotated, parent
    <3> QED
      BY <3>1, <3>2 DEF LastTurn
  <2>2. Coloured(h, red, n)
    BY <1>3
  <2>3. Coloured(h2, Reds(h2), tail) /\ Reds(h2) = Traded(red, gp, p)
    BY <1>5, <1>9, <2>1, <2>2, OuterColours
  <2>4. Reddens(h, h2, gp)
    BY <1>5, <1>8, <2>3, TradedReddens
  <2> QED
    BY <1>6, <2>3, <2>4
<1>10. CASE h[n].idx # h[p].idx
  <2>1. h2 = LastTurn(rotate_return(set_red(h, gp), gp, p, n), n, gp)
    <3>1. h[gp].up = rotate_return(set_red(h, gp), gp, p, n)[gp].up
      <4>1. gp \in Allocated(h) /\ n \in Allocated(h) /\ p \in Allocated(h)
            /\ h[n].up = p /\ h[p].up = gp /\ p # head /\ gp # head
        BY <1>4 DEF Kin
      <4>2. SameLinks(h, set_red(h, gp)) /\ IsHeap(set_red(h, gp)) /\ SameElements(h, set_red(h, gp))
        BY <4>1, ColourLinks
      <4>3. PICK h1 : h1 = set_red(h, gp)
        OBVIOUS
      <4>4. SameLinks(h, h1) /\ IsHeap(h1) /\ Allocated(h1) = Allocated(h)
        BY <4>2, <4>3 DEF SameElements
      <4>5. h1[n].up = p /\ h1[p].up = gp /\ h1[gp].up = h[gp].up
        BY <4>1, <4>4 DEF SameLinks
      <4>6. Shape(h1, v)
        BY <4>4, SameShape
      <4>7. RotatesTo(h1, rotate_return(h1, h1[h1[n].up].up, h1[n].up, n), v, h1[h1[n].up].up,
                      h1[n].up, n, h1[n].child[1 - h1[n].idx], h1[n].idx)
        <5>1. n \in Allocated(h1) /\ h1[n].up # head
          BY <4>1, <4>4, <4>5
        <5> QED
          BY <4>4, <4>6, <5>1, ReturnTurns
      <4>8. RotatesTo(h1, rotate_return(h1, gp, p, n), v, gp, p, n, h1[n].child[1 - h1[n].idx], h1[n].idx)
        BY <4>5, <4>7
      <4>9. rotate_return(h1, gp, p, n)[gp].up = h1[gp].up
        BY <4>1, <4>8 DEF RotatesTo, RotatedLinks
      <4> QED
        BY <4>3, <4>5, <4>9
    <3>2. h2 = set_black(rotate_return(rotate_return(set_red(h, gp), gp, p, n), h[gp].up, gp, n), n)
      BY <1>1, <1>6, <1>10 DEF Rotated, parent
    <3> QED
      BY <3>1, <3>2 DEF LastTurn
  <2>2. Coloured(h, red, n)
    BY <1>3
  <2>3. Coloured(h2, Reds(h2), tail) /\ Reds(h2) = Traded(red, gp, n)
    BY <1>5, <1>10, <2>1, <2>2, InnerColours
  <2>4. Reddens(h, h2, gp)
    BY <1>5, <1>8, <2>3, TradedReddens
  <2> QED
    BY <1>6, <2>3, <2>4
<1> QED
  BY <1>9, <1>10

(* Of the colours red, gp is painted red and its children p and u black. *)
SplitsAt(h, red, red2, n, p, gp, u) ==
  /\ red \in [Allocated(h) -> BOOLEAN] /\ red2 \in [Allocated(h) -> BOOLEAN]
  /\ n \in Allocated(h) /\ p \in Allocated(h) /\ gp \in Allocated(h) /\ u \in Allocated(h)
  /\ u # p /\ p # gp /\ u # gp /\ gp # head
  /\ h[n].up = p /\ h[p].up = gp /\ h[u].up = gp /\ h[p].idx \in 0 .. 1
  /\ h[gp].child[h[p].idx] = p /\ h[gp].child[1 - h[p].idx] = u
  /\ red[p] = TRUE /\ red[u] = TRUE /\ red[gp] = FALSE
  /\ red2[p] = FALSE /\ red2[u] = FALSE /\ red2[gp] = TRUE
  /\ \A m \in Allocated(h) : m \notin {p, u, gp} => red2[m] = red[m]

(* Painting a black node red and its two red children black keeps all    *)
(* paths equally black.                                                  *)
LEMMA SplitBlacks ==
  ASSUME NEW h, IsHeap(h), NEW v, Shape(h, v), NEW red, NEW red2, NEW n, NEW p, NEW gp, NEW u,
         SplitsAt(h, red, red2, n, p, gp, u), NEW b, Blacks(h, red, b)
  PROVE  \E b2 : Blacks(h, red2, b2)
<1> DEFINE b2 == [m \in Places(h) |-> IF m = p \/ m = u THEN b[m] + 1 ELSE b[m]]
<1>1. PICK A : A = Allocated(h)
  OBVIOUS
<1>2. /\ p \in A /\ gp \in A /\ u \in A /\ u # p /\ p # gp /\ u # gp /\ h[p].idx \in 0 .. 1
      /\ h[p].up = gp /\ h[u].up = gp
      /\ h[gp].child[h[p].idx] = p /\ h[gp].child[1 - h[p].idx] = u
  BY <1>1 DEF SplitsAt
<1>3. \A m \in A : \A j \in 0 .. 1 :
        /\ h[m].child[j] \in Places(h)
        /\ h[m].child[j] # tail => h[h[m].child[j]].up = m
  BY <1>1, LinkParts
<1>4. /\ b \in [Places(h) -> Nat \ {0}] /\ b[tail] = 1
      /\ \A m \in A : \A j \in 0 .. 1 : b[m] = b[h[m].child[j]] + Tint(red, m)
  BY <1>1 DEF Blacks
<1>5. tail \notin A /\ Places(h) = A \cup {tail}
  <2>1. tail \notin A
    BY <1>1, HeapParts, Zenon
  <2> QED
    BY <1>1, <2>1 DEF Places
<1>6. /\ Tint(red, p) = 0 /\ Tint(red, u) = 0 /\ Tint(red, gp) = 1
      /\ Tint(red2, p) = 1 /\ Tint(red2, u) = 1 /\ Tint(red2, gp) = 0
      /\ \A m \in A : m \notin {p, u, gp} => Tint(red2, m) = Tint(red, m)
  <2>1. /\ red[p] = TRUE /\ red[u] = TRUE /\ red[gp] = FALSE
        /\ red2[p] = FALSE /\ red2[u] = FALSE /\ red2[gp] = TRUE
        /\ \A m \in A : m \notin {p, u, gp} => red2[m] = red[m]
    BY <1>1 DEF SplitsAt
  <2> QED
    BY <2>1 DEF Tint
<1>7. b2 \in [Places(h) -> Nat \ {0}] /\ b2[tail] = 1
  <2>1. b2 \in [Places(h) -> Nat \ {0}]
    BY <1>4
  <2> QED
    BY <1>2, <1>4, <1>5, <2>1
<1>8. b2[p] = b[p] + 1 /\ b2[u] = b[u] + 1 /\ \A m \in Places(h) : m # p /\ m # u => b2[m] = b[m]
  BY <1>2, <1>5
<1>9. \A m \in Places(h) : b[m] \in Nat
  BY <1>4
<1> HIDE DEF b2
<1>10. ASSUME NEW m \in A, NEW j \in 0 .. 1, m # gp PROVE h[m].child[j] # p /\ h[m].child[j] # u
  BY <1>2, <1>3, <1>5, <1>10
<1>11. ASSUME NEW m \in A, NEW j \in 0 .. 1 PROVE b2[m] = b2[h[m].child[j]] + Tint(red2, m)
  <2>1. PICK d : d = h[m].child[j]
    OBVIOUS
  <2>2. d \in Places(h) /\ b[m] = b[d] + Tint(red, m)
    BY <1>3, <1>4, <2>1
  <2>3. CASE m = p \/ m = u
    <3>1. b2[d] = b[d]
      BY <1>2, <1>8, <1>10, <2>1, <2>2, <2>3
    <3>2. b2[m] = b[m] + 1 /\ Tint(red, m) = 0 /\ Tint(red2, m) = 1
      BY <1>6, <1>8, <2>3
    <3> QED
      BY <1>9, <2>1, <2>2, <3>1, <3>2
  <2>4. CASE m = gp
    <3>1. d = p \/ d = u
      <4>1. h[p].idx = 0 \/ h[p].idx = 1
        BY <1>2
      <4>2. j = h[p].idx \/ j = 1 - h[p].idx
        BY <4>1
      <4> QED
        BY <1>2, <2>1, <2>4, <4>2
    <3>2. b2[d] = b[d] + 1 /\ b2[m] = b[m] /\ Tint(red, m) = 1 /\ Tint(red2, m) = 0
      BY <1>2, <1>5, <1>6, <1>8, <2>4, <3>1
    <3> QED
      BY <1>9, <2>1, <2>2, <3>2
  <2>5. CASE m \notin {p, u, gp}
    <3>1. b2[d] = b[d] /\ b2[m] = b[m] /\ Tint(red2, m) = Tint(red, m)
      BY <1>5, <1>6, <1>8, <1>10, <2>1, <2>2, <2>5
    <3> QED
      BY <2>1, <2>2, <3>1
  <2> QED
    BY <2>3, <2>4, <2>5
<1>12. Blacks(h, red2, b2)
  BY <1>1, <1>7, <1>11 DEF Blacks
<1> QED
  BY <1>12

(* It moves the clash of a grandchild to the node that turned red. *)
LEMMA SplitClashes ==
  ASSUME NEW h, IsHeap(h), NEW v, Shape(h, v), NEW red, NEW red2, NEW n, NEW p, NEW gp, NEW u,
         SplitsAt(h, red, red2, n, p, gp, u), ClashesAt(h, red, n)
  PROVE  ClashesAt(h, red2, gp)
<1>1. PICK A : A = Allocated(h)
  OBVIOUS
<1>2. /\ gp # head /\ h[p].idx \in 0 .. 1 /\ h[n].up = p /\ p \in A
      /\ h[gp].child[h[p].idx] = p /\ h[gp].child[1 - h[p].idx] = u
      /\ red2[p] = FALSE /\ red2[u] = FALSE
      /\ \A m \in A : m \notin {p, u, gp} => red2[m] = red[m]
  BY <1>1 DEF SplitsAt
<1>3. ASSUME NEW m \in A, m # gp, Clashes(h, red2, m) PROVE FALSE
  <2>1. red2[m] /\ h[m].up # head /\ red2[h[m].up]
    BY <1>3 DEF Clashes
  <2>2. m # p /\ m # u /\ h[m].up # p /\ h[m].up # u
    BY <1>2, <2>1
  <2>3. h[m].up \in A /\ h[h[m].up].child[h[m].idx] = m /\ h[m].idx \in 0 .. 1
    BY <1>1, <2>1, ShapeParts
  <2>4. h[m].up # gp
    <3>1. h[p].idx = 0 \/ h[p].idx = 1
      BY <1>2
    <3>2. h[m].idx = h[p].idx \/ h[m].idx = 1 - h[p].idx
      BY <2>3, <3>1
    <3> QED
      BY <1>2, <2>2, <2>3, <3>2
  <2>5. red[m] /\ red[h[m].up]
    BY <1>2, <1>3, <2>1, <2>2, <2>3, <2>4
  <2>6. Clashes(h, red, m)
    BY <2>1, <2>5 DEF Clashes
  <2>7. m # n
    BY <1>2, <2>2
  <2> QED
    BY <1>1, <2>6, <2>7 DEF ClashesAt
<1> QED
  BY <1>1, <1>3 DEF ClashesAt

(* After the painting for a red uncle only the grandparent may clash. *)
LEMMA SplitColours ==
  ASSUME NEW h, IsHeap(h), NEW v, Shape(h, v), NEW n, RedPair(h, n), h[uncle(h, n)].red,
         Coloured(h, Reds(h), n), NEW gp, gp = h[h[n].up].up
  PROVE  LET h2 == Split(h, n)
         IN  /\ Coloured(h2, Reds(h2), gp) /\ Reddens(h, h2, gp) /\ h2[gp].red = TRUE
             /\ IsHeap(h2) /\ SameLinks(h, h2)
<1>1. PICK p : p = h[n].up
  OBVIOUS
<1>2. PICK u : u = uncle(h, n)
  OBVIOUS
<1>3. PICK red : red = Reds(h)
  OBVIOUS
<1>4. Kin(h, red, n, p, gp, u)
  BY <1>1, <1>2, <1>3, KinParts
<1>5. u # tail
  <2>1. h[tail].red = FALSE
    BY HeapParts
  <2> QED
    BY <1>2, <2>1
<1>6. /\ red \in [Allocated(h) -> BOOLEAN]
      /\ n \in Allocated(h) /\ p \in Allocated(h) /\ gp \in Allocated(h) /\ u \in Allocated(h)
      /\ p # gp /\ u # p /\ u # gp /\ gp # head
      /\ h[n].up = p /\ h[p].up = gp /\ h[u].up = gp /\ h[p].idx \in 0 .. 1
      /\ h[gp].child[h[p].idx] = p /\ h[gp].child[1 - h[p].idx] = u
      /\ red[p] = TRUE /\ red[gp] = FALSE /\ h[u].red = red[u]
      /\ p = parent(h, n) /\ gp = parent(h, p)
  BY <1>4, <1>5 DEF Kin
<1>7. red[u] = TRUE
  BY <1>2, <1>6
<1>8. PICK h1 : h1 = set_black(h, u)
  OBVIOUS
<1>9. PICK h2 : h2 = set_black(h1, p)
  OBVIOUS
<1>10. PICK h3 : h3 = set_red(h2, gp)
  OBVIOUS
<1>11. h3 = Split(h, n)
  BY <1>2, <1>6, <1>8, <1>9, <1>10 DEF Split
<1>12. Paints(h, h1, v, u, FALSE)
  BY <1>6, <1>8, PaintReds
<1>13. IsHeap(h1) /\ Shape(h1, v) /\ Allocated(h1) = Allocated(h)
  BY <1>12 DEF Paints
<1>14. Paints(h1, h2, v, p, FALSE)
  BY <1>6, <1>9, <1>13, PaintReds
<1>15. IsHeap(h2) /\ Shape(h2, v) /\ Allocated(h2) = Allocated(h)
  BY <1>13, <1>14 DEF Paints
<1>16. Paints(h2, h3, v, gp, TRUE)
  BY <1>6, <1>10, <1>15, PaintReds
<1>17. Allocated(h3) = Allocated(h) /\ SameLinks(h, h3) /\ IsHeap(h3)
  <2>1. Allocated(h3) = Allocated(h) /\ IsHeap(h3)
    BY <1>15, <1>16 DEF Paints
  <2>2. SameLinks(h, h1) /\ SameLinks(h1, h2) /\ SameLinks(h2, h3)
    BY <1>12, <1>14, <1>16 DEF Paints
  <2>3. SameLinks(h, h3)
    BY <1>13, <1>15, <2>2 DEF SameLinks
  <2> QED
    BY <2>1, <2>3
<1>18. PICK red2 : red2 = Reds(h3)
  OBVIOUS
<1>19. /\ red2 \in [Allocated(h) -> BOOLEAN] /\ red2[p] = FALSE /\ red2[u] = FALSE /\ red2[gp] = TRUE
       /\ \A m \in Allocated(h) : m \notin {p, u, gp} => red2[m] = red[m]
  <2>1. PICK r1 : r1 = Dyed(red, u, FALSE)
    OBVIOUS
  <2>2. PICK r2 : r2 = Dyed(r1, p, FALSE)
    OBVIOUS
  <2>3. red2 = Dyed(r2, gp, TRUE)
    BY <1>3, <1>12, <1>14, <1>16, <1>18, <2>1, <2>2 DEF Paints
  <2>4. PICK A : A = Allocated(h)
    OBVIOUS
  <2>5. red \in [A -> BOOLEAN] /\ u \in A /\ p \in A /\ gp \in A
    BY <1>6, <2>4
  <2>6. /\ r1 \in [A -> BOOLEAN] /\ r1[u] = FALSE
        /\ \A m \in A : m # u => r1[m] = red[m]
    <3>1. /\ Dyed(red, u, FALSE) \in [A -> BOOLEAN] /\ Dyed(red, u, FALSE)[u] = FALSE
          /\ \A m \in A : m # u => Dyed(red, u, FALSE)[m] = red[m]
      BY <2>5 DEF Dyed
    <3> QED
      BY <2>1, <3>1
  <2>7. /\ r2 \in [A -> BOOLEAN] /\ r2[p] = FALSE
        /\ \A m \in A : m # p => r2[m] = r1[m]
    <3>1. /\ Dyed(r1, p, FALSE) \in [A -> BOOLEAN] /\ Dyed(r1, p, FALSE)[p] = FALSE
          /\ \A m \in A : m # p => Dyed(r1, p, FALSE)[m] = r1[m]
      BY <2>5, <2>6 DEF Dyed
    <3> QED
      BY <2>2, <3>1
  <2>8. /\ red2 \in [A -> BOOLEAN] /\ red2[gp] = TRUE
        /\ \A m \in A : m # gp => red2[m] = r2[m]
    <3>1. /\ Dyed(r2, gp, TRUE) \in [A -> BOOLEAN] /\ Dyed(r2, gp, TRUE)[gp] = TRUE
          /\ \A m \in A : m # gp => Dyed(r2, gp, TRUE)[m] = r2[m]
      BY <2>5, <2>7 DEF Dyed
    <3> QED
      BY <2>3, <3>1
  <2> QED
    BY <1>6, <2>4, <2>5, <2>6, <2>7, <2>8
<1>20. SplitsAt(h, red, red2, n, p, gp, u)
  BY <1>6, <1>7, <1>19, Zenon DEF SplitsAt
<1>21. Coloured(h, red2, gp)
  <2>1. PICK b : Blacks(h, red, b)
    BY <1>3 DEF Coloured
  <2>2. ClashesAt(h, red, n)
    BY <1>3 DEF Coloured
  <2>3. \E b2 : Blacks(h, red2, b2)
    BY <1>20, <2>1, SplitBlacks
  <2>4. ClashesAt(h, red2, gp)
    BY <1>20, <2>2, SplitClashes
  <2> QED
    BY <2>3, <2>4 DEF Coloured
<1>22. Coloured(h3, red2, gp)
  BY <1>17, <1>21, LinksKeepColours
<1>23. Reddens(h, h3, gp)
  <2>1. ASSUME NEW m \in Allocated(h), m # gp, red2[m] PROVE red[m]
    BY <1>19, <2>1
  <2> QED
    BY <1>3, <1>17, <1>18, <2>1 DEF Reddens
<1>24. h3[gp].red = TRUE
  <2>1. red2[gp] = h3[gp].red
    BY <1>6, <1>17, <1>18, RedsParts
  <2> QED
    BY <1>19, <2>1
<1> QED
  BY <1>11, <1>17, <1>18, <1>22, <1>23, <1>24

(* What BlackHeight computes at a node from its children's results l and m. *)
HeightOf(red, l, m) == IF l = 0 \/ l # m THEN 0 ELSE IF red THEN l ELSE l + 1

(* If all paths are equally black then BlackHeight says so. *)
LEMMA BlackHeightIs ==
  ASSUME NEW h, IsHeap(h), NEW v, Shape(h, v), NEW b, Blacks(h, Reds(h), b), NEW x \in Places(h)
  PROVE  BlackHeight(h, x) = b[x] /\ b[x] # 0
<1> DEFINE Body(f) == [n \in Places(h) |->
                         IF n = tail THEN 1
                         ELSE LET l == f[h[n].child[0]]
                                  m == f[h[n].child[1]]
                              IN  IF l = 0 \/ l # m THEN 0 ELSE IF h[n].red THEN l ELSE l + 1]
           below == CHOOSE f : f = Body(f)
           rank == Rank(h, v)
<1>1. /\ \A n \in Places(h) : rank[n] \in Nat
      /\ \A n \in Allocated(h) : /\ h[n].child[0] \in Places(h) /\ h[n].child[1] \in Places(h)
                                 /\ rank[h[n].child[0]] < rank[n] /\ rank[h[n].child[1]] < rank[n]
  BY RankParts
<1>2. /\ b \in [Places(h) -> Nat \ {0}] /\ b[tail] = 1
      /\ \A n \in Allocated(h) : \A i \in 0 .. 1 : b[n] = b[h[n].child[i]] + Tint(Reds(h), n)
  BY DEF Blacks
<1>3. ASSUME NEW n \in Allocated(h)
      PROVE  b[n] = HeightOf(h[n].red, b[h[n].child[0]], b[h[n].child[1]])
  <2>1. Reds(h)[n] = h[n].red /\ h[n].red \in BOOLEAN
    BY HeapParts, RedsParts
  <2>2. b[n] = b[h[n].child[0]] + Tint(Reds(h), n) /\ b[n] = b[h[n].child[1]] + Tint(Reds(h), n)
    BY <1>2
  <2>3. b[h[n].child[0]] \in Nat \ {0} /\ b[h[n].child[1]] \in Nat \ {0}
    BY <1>1, <1>2
  <2>4. CASE h[n].red = TRUE
    <3>1. Tint(Reds(h), n) = 0
      BY <2>1, <2>4 DEF Tint
    <3> QED
      BY <2>2, <2>3, <2>4, <3>1 DEF HeightOf
  <2>5. CASE h[n].red = FALSE
    <3>1. Tint(Reds(h), n) = 1
      BY <2>1, <2>5 DEF Tint
    <3> QED
      BY <2>2, <2>3, <2>5, <3>1 DEF HeightOf
  <2> QED
    BY <2>1, <2>4, <2>5
<1>4. b = Body(b)
  <2>1. ASSUME NEW n \in Places(h)
        PROVE  b[n] = IF n = tail THEN 1
                      ELSE LET l == b[h[n].child[0]]
                               m == b[h[n].child[1]]
                           IN  IF l = 0 \/ l # m THEN 0 ELSE IF h[n].red THEN l ELSE l + 1
    <3>1. CASE n = tail
      BY <1>2, <3>1
    <3>2. CASE n # tail
      <4>1. n \in Allocated(h)
        BY <3>2 DEF Places
      <4> QED
        BY <1>3, <3>2, <4>1 DEF HeightOf
    <3> QED
      BY <3>1, <3>2
  <2>2. b = [n \in Places(h) |-> b[n]]
    BY <1>2
  <2> QED
    BY <2>1, <2>2
<1>5. below = Body(below)
  BY <1>4
<1> HIDE DEF below
<1>6. \A n \in Places(h) : below[n] = IF n = tail THEN 1
                                      ELSE HeightOf(h[n].red, below[h[n].child[0]], below[h[n].child[1]])
  BY <1>5 DEF HeightOf
<1> DEFINE T == {k \in Nat : \A n \in Places(h) : rank[n] < k => below[n] = b[n]}
<1> HIDE DEF rank, Body
<1>7. 0 \in T
  BY <1>1
<1>8. ASSUME NEW k \in Nat, k \in T PROVE k + 1 \in T
  <2>1. SUFFICES ASSUME NEW n \in Places(h), rank[n] < k + 1
                 PROVE  below[n] = b[n]
    OBVIOUS
  <2>2. CASE n = tail
    BY <1>2, <1>6, <2>2
  <2>3. CASE n # tail
    <3>1. n \in Allocated(h)
      BY <2>3 DEF Places
    <3> DEFINE l == h[n].child[0]
               r == h[n].child[1]
    <3>2. l \in Places(h) /\ r \in Places(h) /\ rank[l] < rank[n] /\ rank[r] < rank[n]
      BY <1>1, <3>1
    <3>3. b[n] = HeightOf(h[n].red, b[l], b[r])
      BY <1>3, <3>1
    <3>4. below[n] = HeightOf(h[n].red, below[l], below[r])
      BY <1>6, <2>3
    <3> HIDE DEF l, r
    <3>5. rank[l] < k /\ rank[r] < k
      BY <1>1, <2>1, <3>2
    <3>6. below[l] = b[l] /\ below[r] = b[r]
      BY <1>8, <3>2, <3>5
    <3> QED
      BY <3>3, <3>4, <3>6
  <2> QED
    BY <2>2, <2>3
<1>9. Nat \subseteq T
  <2> HIDE DEF T
  <2> QED
    BY <1>7, <1>8, NatSetInduction
<1>10. below[x] = b[x]
  <2>1. rank[x] + 1 \in Nat /\ rank[x] < rank[x] + 1
    BY <1>1
  <2>2. rank[x] + 1 \in T
    <3> HIDE DEF T
    <3> QED
      BY <1>9, <2>1
  <2> QED
    BY <2>1, <2>2
<1>11. b[x] # 0
  BY <1>2
<1>12. BlackHeight(h, x) = below[x]
  BY DEF BlackHeight, below, Body
<1> QED
  BY <1>10, <1>11, <1>12

-----------------------------------------------------------------------------
(* Growing. *)

(* No tree but the one that the call works on has a red root. *)
RootsBlack == \A t \in Trees : t # tree /\ root[t] \in Allocated(heap) => ~heap[root[t]].red

(* The node of the insertion loop is red, and if one without parent is red *)
(* then it is that node.                                                   *)
Inserting ==
  /\ heap[node].red /\ root[tree] \in Allocated(heap) /\ heap[root[tree]].up = head
  /\ \A m \in Allocated(heap) : heap[m].up = head /\ heap[m].red => m = node

(* Where a red node may have a red parent. *)
Clashing == IF pc = "insert_balance" THEN node ELSE tail

(* What a program that only adds elements keeps. *)
GInv ==
  /\ pc \in {"idle", "insert_balance", "maintain"}
  /\ Coloured(heap, Reds(heap), Clashing)
  /\ pc # "idle" => node \in Allocated(heap)
  /\ IF pc = "insert_balance" THEN Inserting ELSE RootsBlack

(* What colours say of the tree below a place. *)
LEMMA ColouredParts ==
  ASSUME NEW h, IsHeap(h), NEW v, Shape(h, v), NEW x, Coloured(h, Reds(h), x)
  PROVE  /\ \A r \in Places(h) : BlackHeight(h, r) # 0
         /\ \A n \in Allocated(h) : n # x => ~(h[n].red /\ ParentIsRed(h, n))
<1>1. PICK b : Blacks(h, Reds(h), b)
  BY DEF Coloured
<1>2. ASSUME NEW r \in Places(h) PROVE BlackHeight(h, r) # 0
  <2>1. BlackHeight(h, r) = b[r] /\ b[r] # 0
    BY <1>1, BlackHeightIs
  <2> QED
    BY <2>1
<1>3. ASSUME NEW n \in Allocated(h), n # x, h[n].red, ParentIsRed(h, n) PROVE FALSE
  <2>1. h[n].up # head /\ h[h[n].up].red
    BY <1>3 DEF ParentIsRed, is_red
  <2>2. h[n].up \in Allocated(h)
    BY <2>1, UpParts
  <2>3. Reds(h)[n] = h[n].red /\ Reds(h)[h[n].up] = h[h[n].up].red
    BY <2>2, RedsParts
  <2>4. Clashes(h, Reds(h), n)
    BY <1>3, <2>1, <2>3 DEF Clashes
  <2> QED
    BY <1>3, <2>4 DEF Coloured, ClashesAt
<1> QED
  BY <1>2, <1>3

(* What a program that only adds elements keeps makes its trees red-     *)
(* black ones between calls.                                             *)
LEMMA RedBlackState ==
  ASSUME IInv(FALSE), GInv
  PROVE  RedBlack
<1>1. SUFFICES ASSUME pc = "idle", NEW t \in Live
               PROVE  ~heap[root[t]].red /\ NoRedRed(t, {}) /\ EqualBlackHeights(t)
  BY DEF RedBlack
<1>2. PICK v : Typed /\ Holds(FALSE, v)
  BY DEF IInv
<1>3. t \in Trees /\ root[t] # NoTree
  BY DEF Live
<1>4. /\ tree = None /\ t # None /\ IsHeap(heap) /\ Shape(heap, v) /\ v.top[t] = root[t]
      /\ root[t] \in Allocated(heap) \cup {tail, NoTree}
  BY <1>1, <1>2, <1>3, IdleParts
<1>5. Coloured(heap, Reds(heap), tail) /\ RootsBlack
  <2>1. pc # "insert_balance"
    BY <1>1
  <2> QED
    BY <2>1 DEF GInv, Clashing
<1>6. /\ \A r \in Places(heap) : BlackHeight(heap, r) # 0
      /\ \A n \in Allocated(heap) : n # tail => ~(heap[n].red /\ ParentIsRed(heap, n))
  BY <1>4, <1>5, ColouredParts
<1>7. tail \notin Allocated(heap) /\ heap[tail].red = FALSE
  BY <1>4, HeapParts
<1>8. ~heap[root[t]].red
  BY <1>3, <1>4, <1>5, <1>7 DEF RootsBlack
<1>9. NoRedRed(t, {})
  <2>1. Members(t) = {m \in Allocated(heap) : v.own[m] = t}
    BY <1>3, <1>4, MembersOwned
  <2> QED
    BY <1>6, <1>7, <2>1 DEF NoRedRed
<1>10. EqualBlackHeights(t)
  BY <1>3, <1>4, <1>6 DEF EqualBlackHeights, Places
<1> QED
  BY <1>8, <1>9, <1>10

(* And it allows no red node with a red parent but the one that the      *)
(* insertion loop is at.                                                 *)
LEMMA OneRedRedState ==
  ASSUME IInv(FALSE), GInv
  PROVE  OneRedRed
<1>1. SUFFICES ASSUME pc = "insert_balance"
               PROVE  heap[node].red /\ NoRedRed(tree, {node}) /\ EqualBlackHeights(tree)
  BY DEF OneRedRed
<1>2. PICK v : IsHeap(heap) /\ Shape(heap, v)
  BY <1>1, BusyParts
<1>3. Coloured(heap, Reds(heap), node) /\ Inserting
  BY <1>1 DEF GInv, Clashing
<1>4. PICK r : r = root[tree]
  OBVIOUS
<1>5. r \in Allocated(heap) /\ heap[r].up = head /\ heap[node].red
  BY <1>3, <1>4 DEF Inserting
<1>6. /\ \A m \in Places(heap) : BlackHeight(heap, m) # 0
      /\ \A n \in Allocated(heap) : n # node => ~(heap[n].red /\ ParentIsRed(heap, n))
  BY <1>2, <1>3, ColouredParts
<1>7. Members(tree) \subseteq Allocated(heap)
  <2>1. PICK t : t = v.own[r]
    OBVIOUS
  <2>2. t \in Trees /\ v.top[t] = r
    BY <1>2, <1>5, <2>1, ShapeParts
  <2>3. r # NoTree
    <3>1. r \in Nodes
      BY <1>2, <1>5, HeapParts
    <3> QED
      BY <3>1, MarksAssumption
  <2>4. Lists(heap, v, t, NodesInOrder(heap, r))
    BY <1>2, <2>2, <2>3, OrderedNodes
  <2>5. \A i \in DOMAIN NodesInOrder(heap, r) : NodesInOrder(heap, r)[i] \in Allocated(heap)
    BY <2>4 DEF Lists
  <2> QED
    BY <1>4, <2>5 DEF Members
<1>8. NoRedRed(tree, {node})
  BY <1>6, <1>7 DEF NoRedRed
<1>9. EqualBlackHeights(tree)
  BY <1>4, <1>5, <1>6 DEF EqualBlackHeights, Places
<1> QED
  BY <1>5, <1>8, <1>9

-----------------------------------------------------------------------------
(* The colours after the other writes. *)

(* h2 has the links and the colours of h. *)
SameTints(h, h2) ==
  /\ Allocated(h2) = Allocated(h) /\ SameLinks(h, h2)
  /\ \A m \in Allocated(h) : h2[m].red = h[m].red

(* Colours are about links and colours. *)
LEMMA SameTintsKeep ==
  ASSUME NEW h, IsHeap(h), NEW v, Shape(h, v), NEW h2, SameTints(h, h2),
         NEW x, Coloured(h, Reds(h), x)
  PROVE  Coloured(h2, Reds(h2), x)
<1>1. /\ Allocated(h2) = Allocated(h) /\ SameLinks(h, h2)
      /\ \A m \in Allocated(h) : h2[m].red = h[m].red
  BY DEF SameTints
<1>2. Reds(h2) = Reds(h)
  BY <1>1 DEF Reds
<1> QED
  BY <1>1, <1>2, LinksKeepColours

(* h2 is h with the new leaf x, black without a parent or red below p. *)
Leaf(h, h2, x) ==
  /\ x \notin Allocated(h) /\ x \in Nodes /\ Allocated(h2) = Allocated(h) \cup {x}
  /\ h2[x].child[0] = tail /\ h2[x].child[1] = tail
  /\ \A m \in Allocated(h) : h2[m].up = h[m].up /\ h2[m].red = h[m].red

(* A new leaf brings no clash but its own. *)
LEMMA LeafReds ==
  ASSUME NEW h, IsHeap(h), NEW v, Shape(h, v), NEW h2, IsHeap(h2), NEW x, Leaf(h, h2, x),
         NEW y \in {x, tail}, ClashesAt(h, Reds(h), tail),
         y = x \/ ~h2[x].red
  PROVE  /\ Reds(h2)[x] = h2[x].red /\ \A m \in Allocated(h) : Reds(h2)[m] = Reds(h)[m]
         /\ ClashesAt(h2, Reds(h2), y)
<1>1. PICK A : A = Allocated(h)
  OBVIOUS
<1>2. /\ x \notin A /\ Allocated(h2) = A \cup {x}
      /\ \A m \in A : h2[m].up = h[m].up /\ h2[m].red = h[m].red
  BY <1>1 DEF Leaf
<1>3. \A m \in A : Reds(h)[m] = h[m].red
  BY <1>1, RedsParts
<1>4. \A m \in A \cup {x} : Reds(h2)[m] = h2[m].red
  BY <1>2, RedsParts
<1>5. \A m \in A : Reds(h2)[m] = Reds(h)[m]
  BY <1>2, <1>3, <1>4
<1>6. tail \notin A
  BY <1>1, HeapParts, Zenon
<1>7. ASSUME NEW m \in A \cup {x}, m # y, Clashes(h2, Reds(h2), m) PROVE FALSE
  <2>1. Reds(h2)[m] /\ h2[m].up # head /\ Reds(h2)[h2[m].up]
    BY <1>7 DEF Clashes
  <2>2. m \in A
    BY <1>4, <1>7, <2>1
  <2>3. h2[m].up = h[m].up /\ h[m].up \in A
    <3>1. h[m].up \in A \cup {head}
      BY <1>1, <2>2, ShapeParts
    <3> QED
      BY <1>2, <2>1, <2>2, <3>1
  <2>4. Clashes(h, Reds(h), m)
    BY <1>5, <2>1, <2>2, <2>3 DEF Clashes
  <2> QED
    BY <1>1, <1>6, <2>2, <2>4 DEF ClashesAt
<1>8. ClashesAt(h2, Reds(h2), y)
  BY <1>2, <1>7 DEF ClashesAt
<1> QED
  BY <1>1, <1>4, <1>5, <1>8

(* A black tree of one node. *)
LEMMA PlantColours ==
  ASSUME NEW h, IsHeap(h), NEW v, Shape(h, v), NEW h2, IsHeap(h2), NEW x, Leaf(h, h2, x),
         \A m \in Allocated(h) : h2[m].child = h[m].child, h2[x].red = FALSE,
         Coloured(h, Reds(h), tail)
  PROVE  Coloured(h2, Reds(h2), tail)
<1>1. PICK A : A = Allocated(h)
  OBVIOUS
<1>2. /\ x \notin A /\ Allocated(h2) = A \cup {x} /\ x \in Nodes
      /\ h2[x].child[0] = tail /\ h2[x].child[1] = tail
      /\ \A m \in A : h2[m].child = h[m].child
  BY <1>1 DEF Leaf
<1>3. ClashesAt(h, Reds(h), tail)
  BY DEF Coloured
<1>4. /\ Reds(h2)[x] = h2[x].red /\ \A m \in A : Reds(h2)[m] = Reds(h)[m]
      /\ ClashesAt(h2, Reds(h2), tail)
  BY <1>1, <1>3, LeafReds
<1>5. PICK b : Blacks(h, Reds(h), b)
  BY DEF Coloured
<1>6. /\ b \in [Places(h) -> Nat \ {0}] /\ b[tail] = 1
      /\ \A m \in A : \A j \in 0 .. 1 : b[m] = b[h[m].child[j]] + Tint(Reds(h), m)
  BY <1>1, <1>5 DEF Blacks
<1>7. x # tail /\ Places(h) = A \cup {tail} /\ Places(h2) = A \cup {tail, x}
  <2>1. x # tail
    BY <1>2, SentinelsAssumption
  <2> QED
    BY <1>1, <1>2, <2>1 DEF Places
<1> DEFINE b2 == [m \in A \cup {tail, x} |-> IF m = x THEN 2 ELSE b[m]]
<1>8. /\ b2 \in [A \cup {tail, x} -> Nat \ {0}] /\ b2[tail] = 1 /\ b2[x] = 2
      /\ \A m \in A \cup {tail} : b2[m] = b[m]
  <2>1. b2 \in [A \cup {tail, x} -> Nat \ {0}]
    BY <1>6, <1>7
  <2>2. x \notin A \cup {tail}
    BY <1>2, <1>7
  <2> QED
    BY <1>6, <2>1, <2>2
<1> HIDE DEF b2
<1>9. /\ Tint(Reds(h2), x) = 1
      /\ \A m \in A : Tint(Reds(h2), m) = Tint(Reds(h), m)
  BY <1>4 DEF Tint
<1>10. ASSUME NEW m \in A \cup {x}, NEW j \in 0 .. 1
       PROVE  b2[m] = b2[h2[m].child[j]] + Tint(Reds(h2), m)
  <2>1. CASE m = x
    <3>1. h2[x].child[j] = tail
      <4>1. j = 0 \/ j = 1
        OBVIOUS
      <4> QED
        BY <1>2, <4>1
    <3> QED
      BY <1>8, <1>9, <2>1, <3>1
  <2>2. CASE m \in A
    <3>1. h[m].child[j] \in A \cup {tail}
      BY <1>1, <1>7, <2>2, LinkParts
    <3>2. h2[m].child[j] = h[m].child[j] /\ b[m] = b[h[m].child[j]] + Tint(Reds(h), m)
      BY <1>2, <1>6, <2>2
    <3> QED
      BY <1>8, <1>9, <2>2, <3>1, <3>2
  <2> QED
    BY <2>1, <2>2
<1>11. Blacks(h2, Reds(h2), b2)
  BY <1>2, <1>7, <1>8, <1>10 DEF Blacks
<1> QED
  BY <1>4, <1>11 DEF Coloured

(* A red leaf below p, which is the only node that may clash. *)
LEMMA GraftColours ==
  ASSUME NEW h, IsHeap(h), NEW v, Shape(h, v), NEW h2, IsHeap(h2), NEW x, NEW p \in Allocated(h),
         NEW i \in 0 .. 1, h[p].child[i] = tail,
         Grafted(h, h2, x, p, i), AddsRed(h, h2, x), Coloured(h, Reds(h), tail)
  PROVE  Coloured(h2, Reds(h2), x)
<1>1. PICK A : A = Allocated(h)
  OBVIOUS
<1>2. /\ x \notin A /\ Allocated(h2) = A \cup {x} /\ x \in Nodes
      /\ h2[x].child[0] = tail /\ h2[x].child[1] = tail
      /\ h2[p].child[i] = x /\ h2[p].child[1 - i] = h[p].child[1 - i] /\ h2[p].up = h[p].up
      /\ \A m \in A \ {p} : h2[m].up = h[m].up /\ h2[m].child = h[m].child
  BY <1>1 DEF Grafted
<1>3. h2[x].red = TRUE /\ \A m \in A : h2[m].red = h[m].red
  BY <1>1 DEF AddsRed
<1>4. ClashesAt(h, Reds(h), tail)
  BY DEF Coloured
<1>5. Leaf(h, h2, x)
  BY <1>1, <1>2, <1>3 DEF Leaf
<1>6. /\ Reds(h2)[x] = h2[x].red /\ \A m \in A : Reds(h2)[m] = Reds(h)[m]
      /\ ClashesAt(h2, Reds(h2), x)
  BY <1>1, <1>4, <1>5, LeafReds
<1>7. PICK b : Blacks(h, Reds(h), b)
  BY DEF Coloured
<1>8. /\ b \in [Places(h) -> Nat \ {0}] /\ b[tail] = 1
      /\ \A m \in A : \A j \in 0 .. 1 : b[m] = b[h[m].child[j]] + Tint(Reds(h), m)
  BY <1>1, <1>7 DEF Blacks
<1>9. x # tail /\ Places(h) = A \cup {tail} /\ Places(h2) = A \cup {tail, x}
  <2>1. x # tail
    BY <1>2, SentinelsAssumption
  <2> QED
    BY <1>1, <1>2, <2>1 DEF Places
<1> DEFINE b2 == [m \in A \cup {tail, x} |-> IF m = x THEN 1 ELSE b[m]]
<1>10. /\ b2 \in [A \cup {tail, x} -> Nat \ {0}] /\ b2[tail] = 1 /\ b2[x] = 1
       /\ \A m \in A \cup {tail} : b2[m] = b[m]
  <2>1. b2 \in [A \cup {tail, x} -> Nat \ {0}]
    BY <1>8, <1>9
  <2>2. x \notin A \cup {tail}
    BY <1>2, <1>9
  <2> QED
    BY <1>8, <2>1, <2>2
<1> HIDE DEF b2
<1>11. /\ Tint(Reds(h2), x) = 0
       /\ \A m \in A : Tint(Reds(h2), m) = Tint(Reds(h), m)
  BY <1>3, <1>6 DEF Tint
<1>12. ASSUME NEW m \in A \cup {x}, NEW j \in 0 .. 1
       PROVE  b2[m] = b2[h2[m].child[j]] + Tint(Reds(h2), m)
  <2>1. (j = 0 \/ j = 1) /\ (j = i \/ j = 1 - i)
    <3>1. j = 0 \/ j = 1
      OBVIOUS
    <3>2. i = 0 \/ i = 1
      OBVIOUS
    <3> QED
      BY <3>1, <3>2
  <2>2. CASE m = x
    <3>1. h2[x].child[j] = tail
      BY <1>2, <2>1
    <3> QED
      BY <1>10, <1>11, <2>2, <3>1
  <2>3. CASE m \in A /\ (m # p \/ j # i)
    <3>1. h[m].child[j] \in A \cup {tail}
      BY <1>1, <1>9, <2>3, LinkParts
    <3>2. h2[m].child[j] = h[m].child[j]
      BY <1>2, <2>1, <2>3
    <3>3. b[m] = b[h[m].child[j]] + Tint(Reds(h), m)
      BY <1>8, <2>3
    <3> QED
      BY <1>10, <1>11, <2>3, <3>1, <3>2, <3>3
  <2>4. CASE m = p /\ j = i
    <3>1. h2[m].child[j] = x /\ h[m].child[j] = tail
      BY <1>2, <2>4
    <3>2. b[m] = b[h[m].child[j]] + Tint(Reds(h), m)
      BY <1>1, <1>8, <2>4
    <3> QED
      BY <1>1, <1>8, <1>10, <1>11, <2>4, <3>1, <3>2
  <2> QED
    BY <2>2, <2>3, <2>4
<1>13. Blacks(h2, Reds(h2), b2)
  BY <1>2, <1>9, <1>10, <1>12 DEF Blacks
<1> QED
  BY <1>6, <1>13 DEF Coloured

(* The top of a tree painted black. *)
LEMMA TopColours ==
  ASSUME NEW h, IsHeap(h), NEW v, Shape(h, v), NEW n \in Allocated(h), h[n].up = head,
         Coloured(h, Reds(h), tail)
  PROVE  LET h2 == set_black(h, n)
         IN  /\ Coloured(h2, Reds(h2), tail)
             /\ Reds(h2)[n] = FALSE /\ \A m \in Allocated(h) : m # n => Reds(h2)[m] = Reds(h)[m]
<1>1. PICK A : A = Allocated(h)
  OBVIOUS
<1>2. PICK red : red = Reds(h)
  OBVIOUS
<1>3. PICK h2 : h2 = set_black(h, n)
  OBVIOUS
<1>4. PICK red2 : red2 = Reds(h2)
  OBVIOUS
<1>5. Paints(h, h2, v, n, FALSE)
  BY <1>3, PaintReds
<1>6. red2 = Dyed(red, n, FALSE) /\ Allocated(h2) = A /\ SameLinks(h, h2)
  BY <1>1, <1>2, <1>4, <1>5 DEF Paints
<1>7. red \in [A -> BOOLEAN] /\ n \in A
  BY <1>1, <1>2, RedsParts
<1>8. red2[n] = FALSE /\ \A m \in A : m # n => red2[m] = red[m]
  BY <1>6, <1>7 DEF Dyed
<1>9. ClashesAt(h, red2, tail)
  <2>1. ASSUME NEW m \in A, Clashes(h, red2, m) PROVE Clashes(h, red, m)
    <3>1. red2[m] /\ h[m].up # head /\ red2[h[m].up]
      BY <2>1 DEF Clashes
    <3>2. h[m].up \in A
      BY <1>1, <3>1, UpParts
    <3> QED
      BY <1>8, <3>1, <3>2 DEF Clashes
  <2>2. ClashesAt(h, red, tail)
    BY <1>2 DEF Coloured
  <2> QED
    BY <1>1, <2>1, <2>2 DEF ClashesAt
<1>10. PICK b : Blacks(h, red, b)
  BY <1>2 DEF Coloured
<1>11. /\ b \in [Places(h) -> Nat \ {0}] /\ b[tail] = 1
       /\ \A m \in A : \A j \in 0 .. 1 : b[m] = b[h[m].child[j]] + Tint(red, m)
  BY <1>1, <1>10 DEF Blacks
<1>12. tail \notin A /\ head \notin A /\ Places(h) = A \cup {tail}
  <2>1. tail \notin A /\ head \notin A
    BY <1>1, HeapParts, Zenon
  <2> QED
    BY <1>1, <2>1 DEF Places
<1>13. \A m \in A : \A j \in 0 .. 1 :
         /\ h[m].child[j] \in Places(h)
         /\ h[m].child[j] # tail => h[h[m].child[j]].up = m
  BY <1>1, LinkParts
<1> DEFINE b2 == [m \in Places(h) |-> IF m = n THEN b[h[n].child[0]] + 1 ELSE b[m]]
<1>14. /\ b2 \in [Places(h) -> Nat \ {0}] /\ b2[tail] = 1 /\ b2[n] = b[h[n].child[0]] + 1
       /\ \A m \in Places(h) : m # n => b2[m] = b[m]
  <2>1. h[n].child[0] \in Places(h)
    BY <1>7, <1>13
  <2>2. b2 \in [Places(h) -> Nat \ {0}]
    BY <1>11, <2>1
  <2> QED
    BY <1>7, <1>11, <1>12, <2>2
<1> HIDE DEF b2
<1>15. Tint(red2, n) = 1 /\ \A m \in A : m # n => Tint(red2, m) = Tint(red, m)
  BY <1>8 DEF Tint
<1>16. ASSUME NEW m \in A, NEW j \in 0 .. 1
       PROVE  b2[m] = b2[h[m].child[j]] + Tint(red2, m)
  <2>1. PICK d : d = h[m].child[j]
    OBVIOUS
  <2>2. d \in Places(h) /\ d # n
    <3>1. d \in Places(h) /\ (d # tail => h[d].up = m)
      BY <1>13, <2>1
    <3> QED
      BY <1>7, <1>12, <3>1
  <2>3. b[m] = b[d] + Tint(red, m)
    BY <1>11, <2>1
  <2>4. CASE m # n
    BY <1>12, <1>14, <1>15, <2>1, <2>2, <2>3, <2>4
  <2>5. CASE m = n
    <3>1. b[n] = b[h[n].child[0]] + Tint(red, n) /\ b[n] = b[d] + Tint(red, n)
      BY <1>7, <1>11, <2>3, <2>5
    <3>2. b[h[n].child[0]] = b[d]
      <4>1. h[n].child[0] \in Places(h)
        BY <1>7, <1>13
      <4>2. b[h[n].child[0]] \in Nat /\ b[d] \in Nat
        BY <1>11, <2>2, <4>1
      <4>3. Tint(red, n) \in Nat
        BY DEF Tint
      <4> QED
        BY <3>1, <4>2, <4>3
    <3> QED
      BY <1>14, <1>15, <2>1, <2>2, <2>5, <3>2
  <2> QED
    BY <2>4, <2>5
<1>17. Blacks(h, red2, b2)
  BY <1>1, <1>14, <1>16 DEF Blacks
<1>18. Coloured(h, red2, tail)
  BY <1>9, <1>17 DEF Coloured
<1>19. Coloured(h2, red2, tail)
  BY <1>1, <1>6, <1>18, LinksKeepColours
<1> QED
  BY <1>1, <1>2, <1>3, <1>4, <1>8, <1>19

-----------------------------------------------------------------------------
(* The steps of a program that only adds elements. *)

(* What a call finds. *)
IdleGrown(v) ==
  /\ Typed /\ Holds(FALSE, v) /\ Good(heap, v) /\ IsHeap(heap) /\ Shape(heap, v)
  /\ Coloured(heap, Reds(heap), tail) /\ RootsBlack
  /\ \A t \in Trees : /\ t # tree /\ v.top[t] = root[t]
                      /\ root[t] \in Allocated(heap) \cup {tail, NoTree}

(* What the invariant says between calls. *)
LEMMA IdleColours ==
  ASSUME IInv(FALSE), GInv, pc = "idle"
  PROVE  \E v : IdleGrown(v)
<1>1. PICK v : Typed /\ Holds(FALSE, v)
  BY DEF IInv
<1>2. Good(heap, v) /\ IsHeap(heap) /\ Shape(heap, v)
  BY <1>1 DEF Holds, Good
<1>3. ASSUME NEW t \in Trees
      PROVE  t # tree /\ v.top[t] = root[t] /\ root[t] \in Allocated(heap) \cup {tail, NoTree}
  BY <1>1, <1>3, IdleParts
<1>4. Coloured(heap, Reds(heap), tail) /\ RootsBlack
  <2>1. pc # "insert_balance"
    OBVIOUS
  <2> QED
    BY <2>1 DEF GInv, Clashing
<1> QED
  BY <1>1, <1>2, <1>3, <1>4, Zenon DEF IdleGrown

(* What a call leaves that returns. *)
LEMMA ReturnGrows ==
  ASSUME NEW t, NEW err, NEW val, Return(t, err, val),
         Coloured(heap', Reds(heap'), tail),
         \A o \in Trees : root'[o] \in Allocated(heap') => ~heap'[root'[o]].red
  PROVE  GInv'
<1>1. pc' = "idle" /\ pc' # "insert_balance"
  BY DEF Return
<1>2. Clashing' = tail
  BY <1>1 DEF Clashing
<1>3. RootsBlack'
  BY DEF RootsBlack
<1> QED
  BY <1>1, <1>2, <1>3 DEF GInv

(* rbtree_create keeps the colours. *)
LEMMA CreateGrows ==
  ASSUME IInv(FALSE), GInv, NEW t \in Trees, Create(t)
  PROVE  GInv'
<1>1. pc = "idle" /\ root' = [root EXCEPT ![t] = tail] /\ heap' = heap /\ Return(t, 0, None)
  BY DEF Create
<1>2. PICK v : IdleGrown(v)
  BY <1>1, IdleColours
<1>3. /\ Typed /\ IsHeap(heap) /\ Coloured(heap, Reds(heap), tail) /\ RootsBlack
      /\ \A o \in Trees : o # tree
  BY <1>2 DEF IdleGrown
<1>4. ASSUME NEW o \in Trees, root'[o] \in Allocated(heap') PROVE ~heap'[root'[o]].red
  <2>1. tail \notin Allocated(heap)
    BY <1>3, HeapParts
  <2>2. root \in [Trees -> Nodes \cup {tail, NoTree}]
    BY <1>3 DEF Typed
  <2>3. o # t /\ root'[o] = root[o]
    BY <1>1, <1>4, <2>1, <2>2
  <2> QED
    BY <1>1, <1>3, <1>4, <2>3 DEF RootsBlack
<1>5. Coloured(heap', Reds(heap'), tail)
  BY <1>1, <1>3
<1> QED
  BY <1>1, <1>4, <1>5, ReturnGrows

(* rbtree_elem_insert into an empty tree paints the new root black. *)
LEMMA InsertFirstGrows ==
  ASSUME IInv(FALSE), GInv, NEW t \in Trees, NEW k \in Keys, NEW w \in Vals, InsertFirst(t, k, w)
  PROVE  GInv'
<1>1. PICK x : x = Fresh(k)
  OBVIOUS
<1>2. PICK r : r = FreshNode(k, w)
  OBVIOUS
<1>3. /\ pc = "idle" /\ root[t] = tail /\ root' = [root EXCEPT ![t] = x]
      /\ heap' = Put(heap, x, r) /\ Return(t, 0, None) /\ Free # {}
  BY <1>1, <1>2 DEF InsertFirst, Idle, Put
<1>4. PICK v : IdleGrown(v)
  BY <1>3, IdleColours
<1>5. /\ Typed /\ IsHeap(heap) /\ Shape(heap, v) /\ Coloured(heap, Reds(heap), tail) /\ RootsBlack
      /\ \A o \in Trees : o # tree /\ root[o] \in Allocated(heap) \cup {tail, NoTree}
  BY <1>4 DEF IdleGrown
<1>6. x \in Nodes \ Allocated(heap)
  BY <1>1, <1>3, FreshIsFree DEF Free
<1>7. r \in NodeStructs /\ r.red = FALSE /\ r.child[0] = tail /\ r.child[1] = tail
  BY <1>2, FreshStruct DEF FreshNode
<1>8. /\ IsHeap(heap') /\ Allocated(heap') = Allocated(heap) \cup {x} /\ heap'[x] = r
      /\ \A m \in Nodes \cup {head, tail} : m # x => heap'[m] = heap[m]
  BY <1>3, <1>5, <1>6, <1>7, PutNode
<1>9. \A m \in Allocated(heap) : heap'[m] = heap[m]
  BY <1>6, <1>8 DEF Allocated
<1>10. Leaf(heap, heap', x)
  BY <1>6, <1>7, <1>8, <1>9 DEF Leaf
<1>11. Coloured(heap', Reds(heap'), tail)
  <2>1. \A m \in Allocated(heap) : heap'[m].child = heap[m].child
    BY <1>9
  <2>2. heap'[x].red = FALSE
    BY <1>7, <1>8
  <2> QED
    BY <1>5, <1>8, <1>10, <2>1, <2>2, PlantColours
<1>12. ASSUME NEW o \in Trees, root'[o] \in Allocated(heap') PROVE ~heap'[root'[o]].red
  <2>1. root \in [Trees -> Nodes \cup {tail, NoTree}]
    BY <1>5 DEF Typed
  <2>2. CASE o = t
    <3>1. root'[o] = x
      BY <1>3, <2>1, <2>2
    <3> QED
      BY <1>7, <1>8, <3>1
  <2>3. CASE o # t
    <3>1. root'[o] = root[o]
      BY <1>3, <2>1, <2>3
    <3>2. x # tail /\ x # NoTree
      BY <1>6, SentinelsAssumption, MarksAssumption
    <3>3. root[o] \in Allocated(heap)
      <4>1. tail \notin Allocated(heap') /\ NoTree \notin Allocated(heap')
        <5>1. Allocated(heap') \subseteq Nodes
          BY DEF Allocated
        <5> QED
          BY <5>1, SentinelsAssumption, MarksAssumption
      <4> QED
        BY <1>5, <1>12, <3>1, <4>1
    <3> QED
      BY <1>5, <1>9, <3>1, <3>3 DEF RootsBlack
  <2> QED
    BY <2>2, <2>3
<1> QED
  BY <1>3, <1>11, <1>12, ReturnGrows

(* rbtree_elem_insert below a node paints the new node red, and starts   *)
(* its loop there.                                                       *)
LEMMA InsertBelowGrows ==
  ASSUME IInv(FALSE), GInv, NEW t \in Trees, NEW k \in Keys, NEW w \in Vals, InsertBelow(t, k, w)
  PROVE  GInv'
<1> DEFINE x == Fresh(k)
           p == InsertPoint(heap, root[t], k)
           i == InsertSide(heap, p, k)
           h2 == Attached(heap, x, k, w, p)
<1>1. /\ pc = "idle" /\ root[t] \notin {tail, NoTree} /\ Free # {}
      /\ heap' = h2 /\ tree' = t /\ pc' = "insert_balance" /\ node' = x /\ root' = root
  BY DEF InsertBelow, Enter, Idle, Live
<1>2. PICK v : IdleGrown(v)
  BY <1>1, IdleColours
<1>3. /\ Typed /\ Holds(FALSE, v) /\ Good(heap, v) /\ IsHeap(heap) /\ Shape(heap, v)
      /\ Coloured(heap, Reds(heap), tail) /\ RootsBlack
      /\ \A o \in Trees : o # tree /\ v.top[o] = root[o]
      /\ root[t] \in Allocated(heap)
  BY <1>1, <1>2 DEF IdleGrown
<1>4. v.held[t] = seen[t] /\ Abstract!Sorted(seen[t])
  BY <1>1, <1>3, IdleParts
<1>5. x \in Nodes \ Allocated(heap)
  BY <1>1, FreshIsFree DEF Free
<1>6. InOrderOfKeys(heap, v, t)
  BY <1>3, <1>4, SortedNodes
<1>7. p \in Allocated(heap) /\ i \in 0 .. 1 /\ heap[p].child[i] = tail
  <2>1. v.top[t] \in Allocated(heap) /\ v.top[t] = root[t]
    BY <1>3
  <2> QED
    BY <1>3, <1>6, <2>1, InsertPointParts
<1> HIDE DEF x, p
<1>8. i = InsertSide(heap, p, k)
  OBVIOUS
<1> HIDE DEF i
<1>9. IsHeap(h2) /\ Grafted(heap, h2, x, p, i) /\ AddsRed(heap, h2, x)
  BY <1>3, <1>5, <1>7, <1>8, AttachedGrafts
<1> HIDE DEF h2
<1>10. Coloured(h2, Reds(h2), x)
  BY <1>3, <1>7, <1>9, GraftColours
<1>11. /\ Allocated(h2) = Allocated(heap) \cup {x} /\ h2[x].red = TRUE
       /\ \A m \in Allocated(heap) : h2[m].up = heap[m].up /\ h2[m].red = heap[m].red
       /\ h2[x].up = p
  BY <1>9 DEF Grafted, AddsRed
<1>12. heap[root[t]].up = head
  <2>1. root[t] \notin {tail, NoTree} /\ v.top[t] = root[t]
    BY <1>1, <1>3
  <2> QED
    BY <1>3, <2>1 DEF Shape, TopFits
<1>13. ASSUME NEW m \in Allocated(h2), h2[m].up = head, h2[m].red PROVE m = x
  <2>1. CASE m \in Allocated(heap)
    <3>1. heap[m].up = head /\ heap[m].red
      BY <1>11, <1>13, <2>1
    <3>2. v.own[m] \in Trees /\ v.top[v.own[m]] = m
      BY <1>3, <2>1, <3>1, ShapeParts
    <3> QED
      BY <1>3, <2>1, <3>1, <3>2 DEF RootsBlack
  <2> QED
    BY <1>11, <2>1
<1>14. Inserting'
  <2>1. heap'[node'].red /\ root'[tree'] \in Allocated(heap') /\ heap'[root'[tree']].up = head
    BY <1>1, <1>3, <1>11, <1>12
  <2>2. \A m \in Allocated(heap') : heap'[m].up = head /\ heap'[m].red => m = node'
    BY <1>1, <1>13
  <2> QED
    BY <2>1, <2>2 DEF Inserting
<1>15. Clashing' = x /\ node' \in Allocated(heap')
  BY <1>1, <1>11 DEF Clashing
<1> QED
  BY <1>1, <1>10, <1>14, <1>15 DEF GInv

(* rbtree_elem_update keeps the colours. *)
LEMMA ElemUpdateGrows ==
  ASSUME IInv(FALSE), GInv, NEW t \in Trees, NEW k \in Keys, NEW w \in Vals, ElemUpdate(t, k, w)
  PROVE  GInv'
<1>1. PICK n : n = iter_value(heap, root[t], k)
  OBVIOUS
<1>2. /\ pc = "idle" /\ root[t] # NoTree /\ root' = root
      /\ IF n = tail THEN heap' = heap /\ Return(t, -1, None)
         ELSE heap' = ValueWritten(heap, n, w) /\ Return(t, 0, None)
  BY <1>1 DEF ElemUpdate, Idle, Live, ValueWritten
<1>3. PICK v : IdleGrown(v)
  BY <1>2, IdleColours
<1>4. /\ IsHeap(heap) /\ Shape(heap, v) /\ Coloured(heap, Reds(heap), tail) /\ RootsBlack
      /\ \A o \in Trees : o # tree /\ v.top[o] = root[o]
  BY <1>3 DEF IdleGrown
<1>5. SameTints(heap, heap')
  <2>1. CASE n = tail
    BY <1>2, <2>1 DEF SameTints, SameLinks
  <2>2. CASE n # tail
    <3>1. n \in Allocated(heap)
      <4>1. v.top[t] # NoTree /\ v.top[t] = root[t]
        BY <1>2, <1>4
      <4>2. iter_value(heap, v.top[t], k) # tail => iter_value(heap, v.top[t], k) \in Allocated(heap)
        BY <1>4, <4>1, ValueParts
      <4> QED
        BY <1>1, <2>2, <4>1, <4>2
    <3>2. PICK h2 : h2 = ValueWritten(heap, n, w)
      OBVIOUS
    <3>3. /\ Allocated(h2) = Allocated(heap) /\ SameLinks(heap, h2)
          /\ \A l \in Nodes \cup {head, tail} : l # n => h2[l] = heap[l]
      BY <1>4, <3>1, <3>2, UpdatedElement
    <3>4. h2[n].red = heap[n].red
      <4>1. heap[n] \in NodeStructs /\ n \in DOMAIN heap
        <5>1. heap[n] \in NodeStructs /\ n \in Nodes
          BY <1>4, <3>1, HeapParts
        <5> QED
          BY <1>4, <5>1 DEF IsHeap
      <4> QED
        BY <3>2, <4>1 DEF ValueWritten, NodeStructs
    <3>5. \A m \in Allocated(heap) : h2[m].red = heap[m].red
      BY <3>3, <3>4 DEF Allocated
    <3>6. heap' = h2
      BY <1>2, <2>2, <3>2
    <3> QED
      BY <3>3, <3>5, <3>6 DEF SameTints
  <2> QED
    BY <2>1, <2>2
<1>6. Coloured(heap', Reds(heap'), tail)
  BY <1>4, <1>5, SameTintsKeep
<1>7. ASSUME NEW o \in Trees, root'[o] \in Allocated(heap') PROVE ~heap'[root'[o]].red
  BY <1>2, <1>4, <1>5, <1>7 DEF SameTints, RootsBlack
<1>8. \E err : Return(t, err, None)
  BY <1>2
<1> QED
  BY <1>6, <1>7, <1>8, ReturnGrows

(* What the insertion loop finds. *)
BusyGrown(v) ==
  /\ IsHeap(heap) /\ Shape(heap, v) /\ node \in Allocated(heap) /\ v.own[node] = tree
  /\ Coloured(heap, Reds(heap), node) /\ Inserting
  /\ \A t \in Trees : t # tree /\ root[t] \in Allocated(heap) =>
       v.own[root[t]] # tree /\ ~heap[root[t]].red

(* What the invariant says at the head of the insertion loop: there is a *)
(* tree that the loop is in, and no root of another tree is red.         *)
LEMMA BusyColours ==
  ASSUME IInv(FALSE), GInv, pc = "insert_balance"
  PROVE  \E v : BusyGrown(v)
<1>1. PICK v : Holds(FALSE, v) /\ IsHeap(heap) /\ Shape(heap, v) /\ Pending(FALSE, v)
  BY BusyParts
<1>2. node \in Allocated(heap) /\ v.own[node] = tree
  BY <1>1 DEF Pending, Owned
<1>3. Coloured(heap, Reds(heap), node) /\ Inserting
  BY DEF GInv, Clashing
<1>4. ASSUME NEW t \in Trees, t # tree, root[t] \in Allocated(heap)
      PROVE  v.own[root[t]] # tree /\ ~heap[root[t]].red
  <2>1. v.top[t] = root[t]
    BY <1>1, <1>4 DEF Holds, Settled
  <2>2. root[t] \notin {tail, NoTree}
    <3>1. root[t] \in Nodes
      BY <1>4 DEF Allocated
    <3> QED
      BY <3>1, SentinelsAssumption, MarksAssumption
  <2>3. v.own[root[t]] = t /\ heap[root[t]].up = head
    BY <1>1, <2>1, <2>2 DEF Shape, TopFits
  <2>4. heap[root[t]].red => root[t] = node
    BY <1>3, <1>4, <2>3 DEF Inserting
  <2> QED
    BY <1>2, <1>4, <2>3, <2>4
<1> QED
  BY <1>1, <1>2, <1>3, <1>4 DEF BusyGrown

(* An iteration of rbtree_insert_balance ends the clash or moves it two  *)
(* levels up; below a black parent and at the top of the tree it ends    *)
(* the loop. Its assertion about the grandparent cannot fail, since no   *)
(* node but that of the loop clashes.                                    *)
LEMMA InsertBalanceGrows ==
  ASSUME IInv(FALSE), GInv, InsertBalance
  PROVE  GInv'
<1>1. PICK p : p = heap[node].up
  OBVIOUS
<1>2. PICK gp : gp = heap[p].up
  OBVIOUS
<1>3. pc = "insert_balance"
  BY DEF InsertBalance
<1>4. PICK v : BusyGrown(v)
  BY <1>3, BusyColours
<1>5. /\ IsHeap(heap) /\ Shape(heap, v) /\ node \in Allocated(heap) /\ v.own[node] = tree
      /\ Coloured(heap, Reds(heap), node) /\ Inserting
      /\ \A t \in Trees : t # tree /\ root[t] \in Allocated(heap) =>
           v.own[root[t]] # tree /\ ~heap[root[t]].red
  BY <1>4 DEF BusyGrown
<1>6. heap[node].red /\ \A m \in Allocated(heap) : heap[m].up = head /\ heap[m].red => m = node
  BY <1>5 DEF Inserting
<1>7. \/ /\ ~ParentIsRed(heap, node) /\ pc' = "maintain" /\ node' = node
         /\ heap' = heap /\ root' = root /\ tree' = tree
      \/ ParentIsRed(heap, node) /\ is_red(heap, gp)
      \/ /\ ParentIsRed(heap, node) /\ ~is_red(heap, gp) /\ is_red(heap, uncle(heap, node))
         /\ heap' = Split(heap, node) /\ pc' = "insert_balance" /\ node' = gp
         /\ root' = root /\ tree' = tree
      \/ /\ ParentIsRed(heap, node) /\ ~is_red(heap, gp) /\ ~is_red(heap, uncle(heap, node))
         /\ heap' = Rotated(heap, node) /\ pc' = "maintain" /\ node' = gp
         /\ root' = root /\ tree' = tree
  BY <1>1, <1>2 DEF InsertBalance, Enter, parent
<1>8. ParentIsRed(heap, node) => p \in Allocated(heap) /\ p # node /\ heap[p].red /\ p # head
                                 /\ v.own[p] = tree
  <2>1. ASSUME p # head PROVE p \in Allocated(heap) /\ p # node /\ v.own[p] = tree
    BY <1>1, <1>5, <2>1, UpParts
  <2> QED
    BY <1>1, <2>1 DEF ParentIsRed, is_red
<1>9. CASE /\ ~ParentIsRed(heap, node) /\ pc' = "maintain" /\ node' = node
           /\ heap' = heap /\ root' = root /\ tree' = tree
  <2>1. ~Clashes(heap, Reds(heap), node)
    <3>1. ASSUME Clashes(heap, Reds(heap), node) PROVE FALSE
      <4>1. heap[node].up # head /\ Reds(heap)[heap[node].up]
        BY <3>1 DEF Clashes
      <4>2. heap[node].up \in Allocated(heap)
        BY <1>5, <4>1, UpParts
      <4>3. Reds(heap)[heap[node].up] = heap[heap[node].up].red
        BY <1>5, <4>2, RedsParts
      <4> QED
        BY <1>9, <4>1, <4>3 DEF ParentIsRed, is_red
    <3> QED
      BY <3>1
  <2>2. Coloured(heap, Reds(heap), tail)
    <3>1. (\E b : Blacks(heap, Reds(heap), b)) /\ ClashesAt(heap, Reds(heap), node)
      BY <1>5 DEF Coloured
    <3>2. ClashesAt(heap, Reds(heap), tail)
      BY <2>1, <3>1 DEF ClashesAt
    <3> QED
      BY <3>1, <3>2 DEF Coloured
  <2>3. RootsBlack'
    BY <1>5, <1>9 DEF RootsBlack
  <2>4. Clashing' = tail /\ pc' # "insert_balance"
    BY <1>9 DEF Clashing
  <2>5. Coloured(heap', Reds(heap'), Clashing') /\ node' \in Allocated(heap')
    BY <1>5, <1>9, <2>2, <2>4
  <2> QED
    BY <1>9, <2>3, <2>4, <2>5 DEF GInv
<1>10. ASSUME ParentIsRed(heap, node), is_red(heap, gp) PROVE FALSE
  <2>1. heap[gp].red /\ p \in Allocated(heap) /\ p # node /\ heap[p].red
    BY <1>8, <1>10 DEF is_red
  <2>2. gp # head
    BY <1>2, <1>6, <2>1
  <2>3. gp \in Allocated(heap)
    BY <1>2, <1>5, <2>1, <2>2, UpParts
  <2>4. Reds(heap)[p] = heap[p].red /\ Reds(heap)[gp] = heap[gp].red
    BY <1>5, <2>1, <2>3, RedsParts
  <2>5. Clashes(heap, Reds(heap), p)
    BY <1>2, <2>1, <2>2, <2>4 DEF Clashes
  <2> QED
    BY <1>5, <2>1, <2>5 DEF Coloured, ClashesAt
<1>11. ASSUME ParentIsRed(heap, node), ~is_red(heap, gp)
       PROVE  RedPair(heap, node) /\ gp \in Allocated(heap) /\ v.own[gp] = tree
  <2>1. p \in Allocated(heap) /\ heap[p].red /\ p # head /\ v.own[p] = tree
    BY <1>8, <1>11
  <2>2. gp # head
    <3>1. heap[head].red = TRUE
      BY <1>5, HeapParts
    <3> QED
      BY <1>11, <3>1 DEF is_red
  <2>3. gp \in Allocated(heap) /\ v.own[gp] = tree
    BY <1>2, <1>5, <2>1, <2>2, UpParts
  <2>4. RedPair(heap, node)
    BY <1>1, <1>2, <1>5, <1>6, <1>11, <2>1 DEF RedPair, is_red
  <2> QED
    BY <2>3, <2>4
<1>12. CASE /\ ParentIsRed(heap, node) /\ ~is_red(heap, gp) /\ is_red(heap, uncle(heap, node))
            /\ heap' = Split(heap, node) /\ pc' = "insert_balance" /\ node' = gp
            /\ root' = root /\ tree' = tree
  <2>1. RedPair(heap, node) /\ gp \in Allocated(heap) /\ heap[uncle(heap, node)].red
    BY <1>11, <1>12 DEF is_red
  <2>2. gp = heap[heap[node].up].up
    BY <1>1, <1>2
  <2>3. /\ Coloured(heap', Reds(heap'), gp) /\ Reddens(heap, heap', gp) /\ heap'[gp].red = TRUE
        /\ IsHeap(heap') /\ SameLinks(heap, heap')
    BY <1>5, <1>12, <2>1, <2>2, SplitColours
  <2>4. /\ Allocated(heap') = Allocated(heap)
        /\ \A m \in Allocated(heap) : m # gp /\ Reds(heap')[m] => Reds(heap)[m]
    BY <2>3 DEF Reddens
  <2>5. ASSUME NEW m \in Allocated(heap), heap'[m].up = head, heap'[m].red, m # gp PROVE FALSE
    <3>1. Reds(heap')[m] = heap'[m].red /\ Reds(heap)[m] = heap[m].red
      BY <1>5, <2>3, <2>4, RedsParts
    <3>2. heap[m].red
      BY <2>4, <2>5, <3>1
    <3>3. heap[m].up = head
      BY <2>3, <2>5 DEF SameLinks
    <3>4. m = node
      BY <1>6, <3>2, <3>3
    <3> QED
      BY <1>1, <1>8, <1>12, <3>3, <3>4
  <2>6. root[tree] \in Allocated(heap) /\ heap'[root[tree]].up = head
    <3>1. root[tree] \in Allocated(heap) /\ heap[root[tree]].up = head
      BY <1>5 DEF Inserting
    <3> QED
      BY <2>3, <3>1 DEF SameLinks
  <2>7. Inserting'
    BY <1>12, <2>3, <2>4, <2>5, <2>6 DEF Inserting
  <2>8. Coloured(heap', Reds(heap'), Clashing') /\ node' \in Allocated(heap')
    <3>1. Clashing' = gp
      BY <1>12 DEF Clashing
    <3> QED
      BY <1>12, <2>1, <2>3, <2>4, <3>1
  <2> QED
    BY <1>12, <2>7, <2>8 DEF GInv
<1>13. CASE /\ ParentIsRed(heap, node) /\ ~is_red(heap, gp) /\ ~is_red(heap, uncle(heap, node))
            /\ heap' = Rotated(heap, node) /\ pc' = "maintain" /\ node' = gp
            /\ root' = root /\ tree' = tree
  <2>1. /\ RedPair(heap, node) /\ gp \in Allocated(heap) /\ v.own[gp] = tree
        /\ ~heap[uncle(heap, node)].red
    BY <1>11, <1>13 DEF is_red
  <2>2. gp = heap[heap[node].up].up
    BY <1>1, <1>2
  <2>3. Coloured(heap', Reds(heap'), tail) /\ Reddens(heap, heap', gp)
    BY <1>5, <1>13, <2>1, <2>2, RotatedColours
  <2>4. /\ Allocated(heap') = Allocated(heap)
        /\ \A m \in Allocated(heap) : m # gp /\ Reds(heap')[m] => Reds(heap)[m]
    BY <2>3 DEF Reddens
  <2>5. IsHeap(heap')
    <3>1. heap[node].up # head /\ heap[heap[node].up].up # head
      <4>1. heap[head].red = TRUE
        BY <1>5, HeapParts
      <4> QED
        BY <2>1, <4>1 DEF RedPair
    <3>2. Rebalanced(heap, heap', v, v.own[node])
      BY <1>5, <1>13, <3>1, RotatedRebalances
    <3> QED
      BY <3>2 DEF Rebalanced
  <2>6. ASSUME NEW t \in Trees, t # tree, root[t] \in Allocated(heap) PROVE ~heap'[root[t]].red
    <3>1. v.own[root[t]] # tree /\ ~heap[root[t]].red
      BY <1>5, <2>6
    <3>2. root[t] # gp
      BY <2>1, <3>1
    <3>3. Reds(heap')[root[t]] = heap'[root[t]].red /\ Reds(heap)[root[t]] = heap[root[t]].red
      BY <1>5, <2>4, <2>5, <2>6, RedsParts
    <3> QED
      BY <2>4, <2>6, <3>1, <3>2, <3>3
  <2>7. RootsBlack'
    BY <1>13, <2>4, <2>6 DEF RootsBlack
  <2>8. Coloured(heap', Reds(heap'), Clashing') /\ node' \in Allocated(heap') /\ pc' # "insert_balance"
    <3>1. Clashing' = tail
      BY <1>13 DEF Clashing
    <3> QED
      BY <1>13, <2>1, <2>3, <2>4, <3>1
  <2> QED
    BY <1>13, <2>7, <2>8 DEF GInv
<1> QED
  BY <1>7, <1>9, <1>10, <1>12, <1>13

(* rbtree_maintain, which goes up from the inserted node and writes      *)
(* sizes, keeps the colours, and at the top it paints the root black.    *)
LEMMA MaintainGrows ==
  ASSUME IInv(FALSE), GInv, Maintain
  PROVE  GInv'
<1>1. PICK p : p = heap[node].up
  OBVIOUS
<1>2. pc = "maintain"
  BY DEF Maintain
<1>3. PICK v : /\ Holds(FALSE, v) /\ Typed /\ IsHeap(heap) /\ Shape(heap, v) /\ tree \in Trees
  BY <1>2, BusyParts
<1>4. /\ Coloured(heap, Reds(heap), tail) /\ node \in Allocated(heap) /\ RootsBlack
  BY <1>2 DEF GInv, Clashing
<1>5. \/ /\ p # head /\ heap' = resize(heap, p) /\ pc' = "maintain" /\ node' = p
         /\ root' = root /\ tree' = tree
      \/ /\ p = head /\ heap' = Residue(set_black(heap, node))
         /\ root' = [root EXCEPT ![tree] = node] /\ Return(tree, 0, out)
  BY <1>1 DEF Maintain, Enter, parent, Up, NewRoot
<1>6. CASE /\ p # head /\ heap' = resize(heap, p) /\ pc' = "maintain" /\ node' = p
           /\ root' = root /\ tree' = tree
  <2>1. p \in Allocated(heap)
    BY <1>1, <1>3, <1>4, <1>6, UpParts
  <2>2. SameTints(heap, heap')
    <3>1. heap[p].child[0] \in Allocated(heap) \cup {tail} /\ heap[p].child[1] \in Allocated(heap) \cup {tail}
      BY <1>3, <2>1, ShapeParts
    <3>2. PICK h2 : h2 = resize(heap, p)
      OBVIOUS
    <3>3. /\ SameElements(heap, h2) /\ SameLinks(heap, h2)
          /\ h2[p].red = heap[p].red /\ \A m \in Nodes \cup {head, tail} : m # p => h2[m] = heap[m]
      BY <1>3, <2>1, <3>1, <3>2, ResizeLinks
    <3>4. \A m \in Allocated(heap) : h2[m].red = heap[m].red
      BY <3>3 DEF Allocated
    <3> QED
      BY <1>6, <3>2, <3>3, <3>4 DEF SameTints, SameElements
  <2>3. Coloured(heap', Reds(heap'), tail)
    BY <1>3, <1>4, <2>2, SameTintsKeep
  <2>4. RootsBlack'
    BY <1>4, <1>6, <2>2 DEF RootsBlack, SameTints
  <2>5. Coloured(heap', Reds(heap'), Clashing') /\ node' \in Allocated(heap') /\ pc' # "insert_balance"
    <3>1. Clashing' = tail
      BY <1>6 DEF Clashing
    <3> QED
      BY <1>6, <2>1, <2>2, <2>3, <3>1 DEF SameTints
  <2> QED
    BY <1>6, <2>4, <2>5 DEF GInv
<1>7. CASE /\ p = head /\ heap' = Residue(set_black(heap, node))
           /\ root' = [root EXCEPT ![tree] = node] /\ Return(tree, 0, out)
  <2>1. PICK h2 : h2 = set_black(heap, node)
    OBVIOUS
  <2>2. /\ Coloured(h2, Reds(h2), tail)
        /\ Reds(h2)[node] = FALSE
        /\ \A m \in Allocated(heap) : m # node => Reds(h2)[m] = Reds(heap)[m]
    BY <1>1, <1>3, <1>4, <1>7, <2>1, TopColours
  <2>3. IsHeap(h2) /\ Shape(h2, v) /\ Allocated(h2) = Allocated(heap)
    <3>1. Paints(heap, h2, v, node, FALSE)
      BY <1>3, <1>4, <2>1, PaintReds
    <3> QED
      BY <3>1 DEF Paints
  <2>4. SameTints(h2, heap') /\ IsHeap(heap')
    <3>1. PICK h3 : h3 = Residue(h2)
      OBVIOUS
    <3>2. /\ IsHeap(h3) /\ SameElements(h2, h3) /\ SameLinks(h2, h3)
          /\ \A m \in Nodes : h3[m] = h2[m]
      BY <2>3, <3>1, ResidueHeap
    <3>3. \A m \in Allocated(h2) : h3[m].red = h2[m].red
      BY <3>2 DEF Allocated
    <3> QED
      BY <1>7, <2>1, <3>1, <3>2, <3>3 DEF SameTints, SameElements
  <2>5. Coloured(heap', Reds(heap'), tail)
    BY <2>2, <2>3, <2>4, SameTintsKeep
  <2>6. ASSUME NEW m \in Allocated(heap), m = node \/ ~heap[m].red PROVE ~heap'[m].red
    <3>1. heap'[m].red = h2[m].red
      BY <2>3, <2>4 DEF SameTints
    <3>2. Reds(h2)[m] = h2[m].red /\ Reds(heap)[m] = heap[m].red
      BY <1>3, <2>3, RedsParts
    <3> QED
      BY <2>2, <2>6, <3>1, <3>2
  <2>7. ASSUME NEW o \in Trees, root'[o] \in Allocated(heap') PROVE ~heap'[root'[o]].red
    <3>1. root \in [Trees -> Nodes \cup {tail, NoTree}]
      BY <1>3 DEF Typed
    <3>2. Allocated(heap') = Allocated(heap)
      BY <2>3, <2>4 DEF SameTints
    <3>3. CASE o = tree
      <4>1. root'[o] = node
        BY <1>7, <3>1, <3>3
      <4> QED
        BY <1>4, <2>6, <4>1
    <3>4. CASE o # tree
      <4>1. root'[o] = root[o]
        BY <1>7, <3>1, <3>4
      <4>2. root[o] \in Allocated(heap) /\ ~heap[root[o]].red
        BY <1>4, <2>7, <3>2, <3>4, <4>1 DEF RootsBlack
      <4> QED
        BY <2>6, <4>1, <4>2
    <3> QED
      BY <3>3, <3>4
  <2>8. Return(tree, 0, out)
    BY <1>7
  <2> QED
    BY <2>5, <2>7, <2>8, ReturnGrows
<1> QED
  BY <1>5, <1>6, <1>7

-----------------------------------------------------------------------------
GrowInv == IInv(FALSE) /\ GInv

(* There are no trees at the start. *)
LEMMA InitGrows ==
  ASSUME Init
  PROVE  GrowInv
<1>1. IInv(FALSE)
  BY InitHolds
<1>2. heap = EmptyHeap /\ pc = "idle" /\ root = [t \in Trees |-> NoTree]
  BY DEF Init
<1>3. Allocated(heap) = {}
  BY <1>2, SentinelsAssumption DEF EmptyHeap, Allocated
<1>4. Coloured(heap, Reds(heap), tail)
  <2>1. Places(heap) = {tail}
    BY <1>3 DEF Places
  <2> DEFINE b == [m \in {tail} |-> 1]
  <2>2. b \in [{tail} -> Nat \ {0}] /\ b[tail] = 1
    OBVIOUS
  <2> HIDE DEF b
  <2>3. Blacks(heap, Reds(heap), b)
    BY <1>3, <2>1, <2>2 DEF Blacks
  <2>4. ClashesAt(heap, Reds(heap), tail)
    BY <1>3 DEF ClashesAt
  <2> QED
    BY <2>3, <2>4 DEF Coloured
<1>5. Clashing = tail /\ RootsBlack /\ pc # "insert_balance"
  BY <1>2, <1>3 DEF Clashing, RootsBlack
<1> QED
  BY <1>1, <1>2, <1>4, <1>5 DEF GrowInv, GInv

(* Every step of a program that only adds elements keeps the invariant:  *)
(* no assert fails and no node is discarded.                             *)
LEMMA GrowKeeps ==
  ASSUME GrowInv, [GrowNext]_vars
  PROVE  GrowInv'
<1>1. IInv(FALSE) /\ GInv
  BY DEF GrowInv
<1>2. CASE InsertBalance \/ Maintain
  <2>1. IInv(FALSE)'
    <3>1. [Next]_vars
      BY <1>2 DEF Next, Loops
    <3> QED
      BY <1>1, <3>1, NextKeeps
  <2> QED
    BY <1>1, <1>2, <2>1, InsertBalanceGrows, MaintainGrows DEF GrowInv
<1>3. ASSUME NEW t \in Trees, Create(t) PROVE GrowInv'
  <2>1. IInv(FALSE)'
    <3>1. [Next]_vars
      BY <1>3 DEF Next, Calls
    <3> QED
      BY <1>1, <3>1, NextKeeps
  <2> QED
    BY <1>1, <1>3, <2>1, CreateGrows DEF GrowInv
<1>4. ASSUME NEW t \in Trees, NEW k \in Keys, NEW w \in Vals, Insert(t, k, w) \/ ElemUpdate(t, k, w)
      PROVE  GrowInv'
  <2>1. IInv(FALSE)'
    <3>1. [Next]_vars
      BY <1>4 DEF Next, Calls
    <3> QED
      BY <1>1, <3>1, NextKeeps
  <2>2. GInv'
    BY <1>1, <1>4, InsertFirstGrows, InsertBelowGrows, ElemUpdateGrows DEF Insert
  <2> QED
    BY <2>1, <2>2 DEF GrowInv
<1>5. CASE UNCHANGED vars
  <2>1. IInv(FALSE)'
    BY <1>1, <1>5, NextKeeps
  <2>2. heap' = heap /\ root' = root /\ pc' = pc /\ tree' = tree /\ node' = node
    BY <1>5 DEF vars
  <2>3. GInv'
    BY <1>1, <2>2 DEF GInv, Clashing, Inserting, RootsBlack
  <2> QED
    BY <2>1, <2>3 DEF GrowInv
<1> QED
  BY <1>2, <1>3, <1>4, <1>5 DEF GrowNext

(* The invariant holds in every state of such a program. *)
LEMMA GrowSpecHolds == GrowSpec => []GrowInv
<1>1. Init => GrowInv
  BY InitGrows
<1>2. GrowInv /\ [GrowNext]_vars => GrowInv'
  BY GrowKeeps
<1> QED
  BY <1>1, <1>2, PTL DEF GrowSpec

(* The invariant of such a program, for the client that is one.          *)
LEMMA ClientsHold == ClientsSpec => [](client = "grow" => GrowInv)
<1> DEFINE G == client = "grow" => GrowInv
<1>1. ClientsInit => G
  BY InitGrows DEF ClientsInit
<1>2. G /\ [ClientsNext]_client_vars => G'
  BY GrowKeeps, ClientSteps
<1> QED
  BY <1>1, <1>2, PTL DEF ClientsSpec

(* As long as a program only creates trees, inserts and updates, every   *)
(* tree is a red-black tree between calls: the root is black, no red     *)
(* node has a red parent, and all paths to the tail pass the same number *)
(* of black nodes. It is what the rotations and paintings of             *)
(* rbtree_insert_balance are for.                                        *)
THEOREM GrowingStaysRedBlack == ClientsSpec => []GrowsRedBlack
<1>1. (client = "grow" => GrowInv) => GrowsRedBlack
  BY RedBlackState DEF GrowInv, GrowsRedBlack
<1> QED
  BY <1>1, ClientsHold, PTL

(* While rbtree_insert_balance is at work in such a program no red node  *)
(* but the one that the loop is at has a red parent, so one violation at *)
(* most is left to repair and it is where the loop looks.                *)
THEOREM GrowingHasOneRedRed == ClientsSpec => []GrowsOneRedRed
<1>1. (client = "grow" => GrowInv) => GrowsOneRedRed
  BY OneRedRedState DEF GrowInv, GrowsOneRedRed
<1> QED
  BY <1>1, ClientsHold, PTL

(* In such a program the assertion of rbtree_insert_balance that the     *)
(* grandparent is black never fails.                                     *)
THEOREM GrowingNeverAborts == GrowSpec => [](pc # "abort")
<1>1. ASSUME GrowInv
      PROVE  pc # "abort"
  <2>1. pc \in {"idle", "insert_balance", "maintain"}
    BY <1>1 DEF GrowInv, GInv
  <2> QED
    BY <2>1
<1> QED
  BY <1>1, GrowSpecHolds, PTL
=============================================================================

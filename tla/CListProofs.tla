----------------------------- MODULE CListProofs -----------------------------
(***************************************************************************)
(* Theorems about container/list for any finite number of nodes and any    *)
(* values.  The invariant names the sequence of the nodes on the list;     *)
(* what following the pointers gives is that sequence, by induction on     *)
(* the number of steps.                                                    *)
(***************************************************************************)
EXTENDS CList, DataLemmas

-----------------------------------------------------------------------------
(* Pointers f that lead from n through the nodes of s to stop. *)
Leads(f, n, stop, s) ==
  /\ s \in Seq(Cells) /\ IsInjective(s) /\ stop \notin Elements(s)
  /\ n = IF Len(s) = 0 THEN stop ELSE s[1]
  /\ \A i \in 1 .. Len(s) : f[s[i]] = IF i = Len(s) THEN stop ELSE s[i + 1]

LEMMA WalkFollows ==
  ASSUME NEW f, NEW n, NEW stop, NEW s, Leads(f, n, stop, s)
  PROVE  Walk(f, n, stop) = s
<1> DEFINE N == Cardinality(Cells)
           len == Len(s)
           Body(g) == [k \in 0 .. N |->
                         IF k = 0 THEN n ELSE IF g[k - 1] = stop THEN stop ELSE f[g[k - 1]]]
           w == [k \in 0 .. N |-> IF k < len THEN s[k + 1] ELSE stop]
           at == CHOOSE g : g = Body(g)
           Met == {k \in 0 .. N - 1 : at[k] # stop}
<1>1. len \in Nat /\ N \in Nat /\ len <= N
  BY CellsAssumption, InjectiveIsShort DEF Leads
<1>2. \A i \in 1 .. len : s[i] \in Elements(s) /\ s[i] # stop
  <2>1. DOMAIN s = 1 .. len
    BY LenProperties DEF Leads
  <2> QED
    BY <2>1 DEF Elements, Leads
<1>3. /\ n = IF len = 0 THEN stop ELSE s[1]
      /\ \A i \in 1 .. len : f[s[i]] = IF i = len THEN stop ELSE s[i + 1]
  BY DEF Leads
<1> HIDE DEF N, len
<1>4. w = Body(w)
  <2> SUFFICES ASSUME NEW k \in 0 .. N
               PROVE  w[k] = IF k = 0 THEN n ELSE IF w[k - 1] = stop THEN stop ELSE f[w[k - 1]]
    OBVIOUS
  <2>1. CASE k = 0
    BY <1>1, <1>3, <2>1
  <2>2. CASE k # 0 /\ k - 1 < len
    <3>1. k - 1 \in 0 .. N /\ w[k - 1] = s[k] /\ k \in 1 .. len
      BY <1>1, <2>2
    <3>2. w[k] = IF k = len THEN stop ELSE s[k + 1]
      BY <1>1, <3>1
    <3> QED
      BY <1>2, <1>3, <2>2, <3>1, <3>2
  <2>3. CASE k # 0 /\ ~ (k - 1 < len)
    <3>1. k - 1 \in 0 .. N /\ w[k - 1] = stop /\ w[k] = stop
      BY <1>1, <2>3
    <3> QED
      BY <2>3, <3>1
  <2> QED
    BY <1>1, <2>1, <2>2, <2>3
<1>5. at = Body(at)
  <2> HIDE DEF w
  <2> QED
    BY <1>4
<1> HIDE DEF at
<1>6. \A k \in 0 .. N : at[k] = w[k]
  <2> DEFINE T == {k \in Nat : k \in 0 .. N => at[k] = w[k]}
  <2>1. \A k \in 0 .. N : /\ at[k] = Body(at)[k]
                          /\ w[k] = Body(w)[k]
    <3> HIDE DEF w, Body
    <3> QED
      BY <1>4, <1>5
  <2> HIDE DEF w
  <2>2. 0 \in T
    BY <1>1, <2>1
  <2>3. ASSUME NEW k \in Nat, k \in T PROVE k + 1 \in T
    <3>1. SUFFICES ASSUME k + 1 \in 0 .. N PROVE at[k + 1] = w[k + 1]
      OBVIOUS
    <3>2. k \in 0 .. N /\ (k + 1) - 1 = k /\ k + 1 # 0
      BY <1>1, <3>1
    <3>3. at[k] = w[k]
      BY <2>3, <3>2
    <3> QED
      BY <2>1, <3>1, <3>2, <3>3
  <2>4. Nat \subseteq T
    BY <2>2, <2>3, NatSetInduction
  <2> QED
    BY <1>1, <2>4
<1>7. Met = 0 .. len - 1
  <2>1. ASSUME NEW k \in 0 .. N - 1 PROVE at[k] # stop <=> k < len
    <3>1. k \in 0 .. N /\ at[k] = w[k]
      BY <1>1, <1>6
    <3>2. CASE k < len
      BY <1>1, <1>2, <3>1, <3>2
    <3>3. CASE ~ (k < len)
      BY <3>1, <3>3
    <3> QED
      BY <3>2, <3>3
  <2> QED
    BY <1>1, <2>1
<1>8. Cardinality(Met) = len
  <2>1. 0 \in Int /\ len - 1 \in Int /\ (0 > len - 1 <=> len = 0)
    BY <1>1
  <2>2. Cardinality(0 .. len - 1) = IF len = 0 THEN 0 ELSE len - 1 - 0 + 1
    BY <2>1, FS_Interval
  <2> HIDE DEF Met
  <2> QED
    BY <1>1, <1>7, <2>2
<1>9. [i \in 1 .. Cardinality(Met) |-> at[i - 1]] = s
  <2>1. s = [i \in 1 .. len |-> s[i]]
    BY DEF Leads, len
  <2>2. ASSUME NEW i \in 1 .. len PROVE at[i - 1] = s[i]
    <3>1. i - 1 \in 0 .. N /\ i - 1 < len /\ (i - 1) + 1 = i
      BY <1>1
    <3> QED
      BY <1>6, <3>1
  <2> HIDE DEF Met
  <2> QED
    BY <1>8, <2>1, <2>2
<1> QED
  BY <1>9 DEF Walk, at, Met, N

-----------------------------------------------------------------------------
(* The invariant. *)

(* The i-th node of the list that is c followed by s and goes round. *)
At(s, c, i) == IF i \in 1 .. Len(s) THEN s[i] ELSE c

IsHeap(h) == h \in [Cells -> ListNodes \cup {NoNode}]

Occupied(h) == {n \in Cells : h[n] # NoNode}

(* In h the list c has the nodes s, linked both ways and counted. *)
Circle(h, c, s) ==
  /\ IsHeap(h)
  /\ c \in Cells /\ s \in Seq(Cells) /\ IsInjective(s) /\ c \notin Elements(s)
  /\ Occupied(h) = Elements(s) \cup {c}
  /\ \A i \in 0 .. Len(s) : /\ h[At(s, c, i)].next = At(s, c, i + 1)
                            /\ h[At(s, c, i + 1)].prev = At(s, c, i)
  /\ h[c].data = Len(s)
  /\ \A i \in 1 .. Len(s) : h[s[i]].data \in Payloads

(* In h only the nodes s are left, from n to one without a next. *)
Remains(h, n, s) ==
  /\ IsHeap(h)
  /\ s \in Seq(Cells) /\ IsInjective(s)
  /\ Occupied(h) = Elements(s)
  /\ n = IF Len(s) = 0 THEN Null ELSE s[1]
  /\ \A i \in 1 .. Len(s) : h[s[i]].next = IF i = Len(s) THEN Null ELSE s[i + 1]

ListInv ==
  \/ /\ clist = Null /\ cursor = Null
     /\ Remains(cells, Null, <<>>)
  \/ /\ clist # Null /\ cursor = Null
     /\ \E s \in Seq(Cells) : Circle(cells, clist, s)
  \/ /\ clist # Null /\ cursor # Null
     /\ \E s \in Seq(Cells) : Remains(cells, cursor, s)

-----------------------------------------------------------------------------
(* What the positions of a list are. *)
LEMMA AtParts ==
  ASSUME NEW c \in Cells, NEW s \in Seq(Cells), IsInjective(s), c \notin Elements(s)
  PROVE  /\ Len(s) \in Nat /\ DOMAIN s = 1 .. Len(s)
         /\ At(s, c, 0) = c /\ At(s, c, Len(s) + 1) = c
         /\ \A i \in 1 .. Len(s) : /\ At(s, c, i) = s[i] /\ s[i] \in Cells
                                   /\ s[i] \in Elements(s) /\ s[i] # c
         /\ \A i \in 1 .. Len(s), j \in 1 .. Len(s) : s[i] = s[j] => i = j
         /\ \A i \in Int : At(s, c, i) \in Elements(s) \cup {c}
         /\ Elements(s) \subseteq Cells
<1>1. /\ Len(s) \in Nat /\ DOMAIN s = 1 .. Len(s)
      /\ \A i \in 1 .. Len(s) : s[i] \in Cells
  BY LenProperties, ElementOfSeq
<1>2. \A i \in 1 .. Len(s) : s[i] \in Elements(s) /\ s[i] # c
  BY <1>1 DEF Elements
<1>3. /\ At(s, c, 0) = c /\ At(s, c, Len(s) + 1) = c
      /\ \A i \in 1 .. Len(s) : At(s, c, i) = s[i]
      /\ \A i \in Int : At(s, c, i) \in Elements(s) \cup {c}
  BY <1>1, <1>2 DEF At
<1>4. \A i \in 1 .. Len(s), j \in 1 .. Len(s) : s[i] = s[j] => i = j
  BY <1>1 DEF IsInjective
<1>5. Elements(s) \subseteq Cells
  BY <1>1 DEF Elements
<1> QED
  BY <1>1, <1>2, <1>3, <1>4, <1>5

LEMMA OccupiedIsNode ==
  ASSUME NEW h, IsHeap(h), NEW n \in Occupied(h)
  PROVE  /\ n \in Cells /\ h[n] \in ListNodes
         /\ h[n] = [prev |-> h[n].prev, next |-> h[n].next, data |-> h[n].data]
         /\ h[n].prev \in Cells
<1>1. h[n] \in ListNodes
  BY DEF IsHeap, Occupied
<1> QED
  BY <1>1 DEF Occupied, ListNodes

NextsIn(h) == [n \in Occupied(h) |-> h[n].next]

PrevsIn(h) == [n \in Occupied(h) |-> h[n].prev]

(* Both walks of a list that is not being destroyed. *)
LEMMA CircleWalks ==
  ASSUME NEW h, NEW c, NEW s, Circle(h, c, s)
  PROVE  /\ Walk(NextsIn(h), h[c].next, c) = s
         /\ Walk(PrevsIn(h), h[c].prev, c) = [i \in 1 .. Len(s) |-> s[Len(s) + 1 - i]]
         /\ h[c].next = At(s, c, 1) /\ h[c].prev = At(s, c, Len(s))
<1> DEFINE L == Len(s)
           r == [i \in 1 .. L |-> s[L + 1 - i]]
<1>1. /\ c \in Cells /\ s \in Seq(Cells) /\ IsInjective(s) /\ c \notin Elements(s)
      /\ Occupied(h) = Elements(s) \cup {c}
      /\ \A i \in 0 .. L : /\ h[At(s, c, i)].next = At(s, c, i + 1)
                           /\ h[At(s, c, i + 1)].prev = At(s, c, i)
  BY DEF Circle
<1>2. /\ L \in Nat /\ DOMAIN s = 1 .. L
      /\ At(s, c, 0) = c /\ At(s, c, L + 1) = c
      /\ \A i \in 1 .. L : /\ At(s, c, i) = s[i] /\ s[i] \in Cells
                           /\ s[i] \in Elements(s) /\ s[i] # c
      /\ \A i \in 1 .. L, j \in 1 .. L : s[i] = s[j] => i = j
  BY <1>1, AtParts
<1> HIDE DEF L
<1>3. h[c].next = At(s, c, 1) /\ h[c].prev = At(s, c, L)
  <2>1. 0 \in 0 .. L /\ L \in 0 .. L /\ 0 + 1 = 1
    BY <1>2
  <2> QED
    BY <1>1, <1>2, <2>1
<1>4. Leads(NextsIn(h), h[c].next, c, s)
  <2>1. h[c].next = IF L = 0 THEN c ELSE s[1]
    BY <1>2, <1>3
  <2>2. ASSUME NEW i \in 1 .. L
        PROVE  NextsIn(h)[s[i]] = IF i = L THEN c ELSE s[i + 1]
    <3>1. i \in 0 .. L /\ s[i] \in Occupied(h) /\ (i # L => i + 1 \in 1 .. L)
      BY <1>1, <1>2
    <3>2. NextsIn(h)[s[i]] = At(s, c, i + 1)
      BY <1>1, <1>2, <3>1 DEF NextsIn
    <3> QED
      BY <1>2, <3>1, <3>2
  <2> QED
    BY <1>1, <2>1, <2>2 DEF Leads, L
<1>5. /\ r \in Seq(Cells) /\ Len(r) = L /\ DOMAIN r = 1 .. L
      /\ \A i \in 1 .. L : r[i] = s[L + 1 - i] /\ L + 1 - i \in 1 .. L
  <2>1. \A i \in 1 .. L : L + 1 - i \in 1 .. L
    BY <1>2
  <2>2. \A i \in 1 .. L : s[L + 1 - i] \in Cells
    BY <1>2, <2>1
  <2> QED
    BY <1>2, <2>1, <2>2
<1> HIDE DEF r
<1>6. Leads(PrevsIn(h), h[c].prev, c, r)
  <2>1. h[c].prev = IF L = 0 THEN c ELSE r[1]
    <3>1. L # 0 => 1 \in 1 .. L /\ r[1] = s[L] /\ L \in 1 .. L
      BY <1>2, <1>5
    <3>2. 0 = L => At(s, c, L) = c
      BY <1>2
    <3> QED
      BY <1>2, <1>3, <3>1, <3>2
  <2>2. IsInjective(r)
    <3> SUFFICES ASSUME NEW i \in 1 .. L, NEW j \in 1 .. L, r[i] = r[j]
                 PROVE  i = j
      BY <1>5 DEF IsInjective
    <3>1. L + 1 - i = L + 1 - j
      BY <1>2, <1>5
    <3> QED
      BY <1>2, <3>1
  <2>3. c \notin Elements(r)
    BY <1>2, <1>5 DEF Elements
  <2>4. ASSUME NEW i \in 1 .. L
        PROVE  PrevsIn(h)[r[i]] = IF i = L THEN c ELSE r[i + 1]
    <3> DEFINE j == L + 1 - i
    <3>1. j \in 1 .. L /\ r[i] = s[j] /\ s[j] \in Occupied(h) /\ j - 1 \in 0 .. L /\ (j - 1) + 1 = j
      BY <1>1, <1>2, <1>5
    <3>2. PrevsIn(h)[r[i]] = At(s, c, j - 1)
      BY <1>1, <1>2, <3>1 DEF PrevsIn
    <3>3. CASE i = L
      BY <1>2, <3>2, <3>3
    <3>4. CASE i # L
      <4>1. i + 1 \in 1 .. L /\ j - 1 \in 1 .. L /\ L + 1 - (i + 1) = j - 1
        BY <1>2, <3>4
      <4> QED
        BY <1>2, <1>5, <3>2, <3>4, <4>1
    <3> QED
      BY <3>3, <3>4
  <2> QED
    BY <1>5, <2>1, <2>2, <2>3, <2>4 DEF Leads
<1> QED
  BY <1>1, <1>3, <1>4, <1>6, WalkFollows DEF r, L

(* The walk of the loop that frees the nodes. *)
LEMMA RemainsWalk ==
  ASSUME NEW h, NEW n, NEW s, Remains(h, n, s)
  PROVE  Walk(NextsIn(h), n, Null) = s
<1>1. /\ s \in Seq(Cells) /\ IsInjective(s) /\ Occupied(h) = Elements(s)
      /\ n = IF Len(s) = 0 THEN Null ELSE s[1]
      /\ \A i \in 1 .. Len(s) : h[s[i]].next = IF i = Len(s) THEN Null ELSE s[i + 1]
  BY DEF Remains
<1>2. /\ DOMAIN s = 1 .. Len(s) /\ \A i \in 1 .. Len(s) : s[i] \in Cells
  BY <1>1, LenProperties, ElementOfSeq
<1>3. Null \notin Elements(s)
  BY <1>2, CellsAssumption DEF Elements
<1>4. \A i \in 1 .. Len(s) : NextsIn(h)[s[i]] = h[s[i]].next
  BY <1>1, <1>2 DEF NextsIn, Elements
<1> QED
  BY <1>1, <1>3, <1>4, WalkFollows DEF Leads

(* What the list of a state is, and that of the next one. *)
Content(h, s) == [i \in 1 .. Len(s) |-> h[s[i]].data]

LEMMA CircleIsList ==
  ASSUME NEW s, Circle(cells, clist, s)
  PROVE  /\ Forward = s
         /\ Backward = [i \in 1 .. Len(s) |-> s[Len(s) + 1 - i]]
         /\ clist_size = Len(s) /\ Used = Elements(s) \cup {clist}
         /\ clist_head = At(s, clist, 1) /\ clist_tail = At(s, clist, Len(s))
         /\ Ready => Queue = Content(cells, s)
<1>1. Used = Occupied(cells) /\ Nexts = NextsIn(cells) /\ Prevs = PrevsIn(cells)
  BY DEF Used, Occupied, Nexts, Prevs, NextsIn, PrevsIn
<1>2. Forward = s /\ Backward = [i \in 1 .. Len(s) |-> s[Len(s) + 1 - i]]
  BY <1>1, CircleWalks DEF Forward, Backward, clist_head, clist_tail
<1>3. DOMAIN s = 1 .. Len(s)
  BY LenProperties DEF Circle
<1>4. Ready => Queue = Content(cells, s)
  BY <1>2, <1>3 DEF Queue, Content
<1> QED
  BY <1>1, <1>2, <1>4, CircleWalks DEF Circle, clist_size, clist_head, clist_tail

LEMMA CircleIsNextList ==
  ASSUME NEW s, Circle(cells', clist', s), Ready'
  PROVE  Queue' = Content(cells', s)
<1>1. Used' = Occupied(cells') /\ Nexts' = NextsIn(cells')
  BY DEF Used, Occupied, Nexts, NextsIn
<1>2. Forward' = s
  BY <1>1, CircleWalks DEF Forward, clist_head
<1>3. DOMAIN s = 1 .. Len(s)
  BY LenProperties DEF Circle
<1> QED
  BY <1>2, <1>3 DEF Queue, Content

-----------------------------------------------------------------------------
(* What assigning one word of a heap, filling a cell and freeing one do.   *)

WithPrev(h, n, x) == [h EXCEPT ![n].prev = x]

WithNext(h, n, x) == [h EXCEPT ![n].next = x]

WithData(h, n, x) == [h EXCEPT ![n].data = x]

WithCell(h, n, x) == [h EXCEPT ![n] = x]

LEMMA SetPrev ==
  ASSUME NEW h, IsHeap(h), NEW n \in Occupied(h), NEW x \in Cells,
         NEW g, g = WithPrev(h, n, x)
  PROVE  /\ IsHeap(g) /\ Occupied(g) = Occupied(h)
         /\ g[n].prev = x /\ g[n].next = h[n].next /\ g[n].data = h[n].data
         /\ \A m \in Cells : m # n => g[m] = h[m]
<1>1. h[n] = [prev |-> h[n].prev, next |-> h[n].next, data |-> h[n].data] /\ n \in Cells
  BY OccupiedIsNode
<1>2. h[n] \in ListNodes
  BY OccupiedIsNode
<1>3. g[n] = [prev |-> x, next |-> h[n].next, data |-> h[n].data]
  BY <1>1 DEF IsHeap, WithPrev
<1>4. g[n] \in ListNodes
  BY <1>2, <1>3 DEF ListNodes
<1>5. \A m \in Cells : m # n => g[m] = h[m]
  BY DEF IsHeap, WithPrev
<1>6. IsHeap(g)
  BY <1>4, <1>5 DEF IsHeap, WithPrev
<1>7. Occupied(g) = Occupied(h)
  BY <1>4, <1>5, NoNodeAssumption DEF Occupied
<1> QED
  BY <1>3, <1>5, <1>6, <1>7

LEMMA SetNext ==
  ASSUME NEW h, IsHeap(h), NEW n \in Occupied(h), NEW x \in Cells \cup {Null},
         NEW g, g = WithNext(h, n, x)
  PROVE  /\ IsHeap(g) /\ Occupied(g) = Occupied(h)
         /\ g[n].next = x /\ g[n].prev = h[n].prev /\ g[n].data = h[n].data
         /\ \A m \in Cells : m # n => g[m] = h[m]
<1>1. h[n] = [prev |-> h[n].prev, next |-> h[n].next, data |-> h[n].data] /\ n \in Cells
  BY OccupiedIsNode
<1>2. h[n] \in ListNodes
  BY OccupiedIsNode
<1>3. g[n] = [prev |-> h[n].prev, next |-> x, data |-> h[n].data]
  BY <1>1 DEF IsHeap, WithNext
<1>4. g[n] \in ListNodes
  BY <1>2, <1>3 DEF ListNodes
<1>5. \A m \in Cells : m # n => g[m] = h[m]
  BY DEF IsHeap, WithNext
<1>6. IsHeap(g)
  BY <1>4, <1>5 DEF IsHeap, WithNext
<1>7. Occupied(g) = Occupied(h)
  BY <1>4, <1>5, NoNodeAssumption DEF Occupied
<1> QED
  BY <1>3, <1>5, <1>6, <1>7

LEMMA SetData ==
  ASSUME NEW h, IsHeap(h), NEW n \in Occupied(h), NEW x \in Payloads \cup Nat,
         NEW g, g = WithData(h, n, x)
  PROVE  /\ IsHeap(g) /\ Occupied(g) = Occupied(h)
         /\ g[n].data = x /\ g[n].prev = h[n].prev /\ g[n].next = h[n].next
         /\ \A m \in Cells : m # n => g[m] = h[m]
<1>1. h[n] = [prev |-> h[n].prev, next |-> h[n].next, data |-> h[n].data] /\ n \in Cells
  BY OccupiedIsNode
<1>2. h[n] \in ListNodes
  BY OccupiedIsNode
<1>3. g[n] = [prev |-> h[n].prev, next |-> h[n].next, data |-> x]
  BY <1>1 DEF IsHeap, WithData
<1>4. g[n] \in ListNodes
  BY <1>2, <1>3 DEF ListNodes
<1>5. \A m \in Cells : m # n => g[m] = h[m]
  BY DEF IsHeap, WithData
<1>6. IsHeap(g)
  BY <1>4, <1>5 DEF IsHeap, WithData
<1>7. Occupied(g) = Occupied(h)
  BY <1>4, <1>5, NoNodeAssumption DEF Occupied
<1> QED
  BY <1>3, <1>5, <1>6, <1>7

LEMMA FillCell ==
  ASSUME NEW h, IsHeap(h), NEW n \in Cells, NEW x \in ListNodes,
         NEW g, g = WithCell(h, n, x)
  PROVE  /\ IsHeap(g) /\ Occupied(g) = Occupied(h) \cup {n}
         /\ g[n] = x
         /\ \A m \in Cells : m # n => g[m] = h[m]
<1>1. g[n] = x /\ \A m \in Cells : m # n => g[m] = h[m]
  BY DEF IsHeap, WithCell
<1>2. IsHeap(g)
  BY <1>1 DEF IsHeap, WithCell
<1>3. Occupied(g) = Occupied(h) \cup {n}
  BY <1>1, NoNodeAssumption DEF Occupied
<1> QED
  BY <1>1, <1>2, <1>3

LEMMA FreeCell ==
  ASSUME NEW h, IsHeap(h), NEW n \in Cells,
         NEW g, g = WithCell(h, n, NoNode)
  PROVE  /\ IsHeap(g) /\ Occupied(g) = Occupied(h) \ {n}
         /\ \A m \in Cells : m # n => g[m] = h[m]
<1>1. g[n] = NoNode /\ \A m \in Cells : m # n => g[m] = h[m]
  BY DEF IsHeap, WithCell
<1>2. IsHeap(g)
  BY <1>1 DEF IsHeap, WithCell
<1>3. Occupied(g) = Occupied(h) \ {n}
  BY <1>1 DEF Occupied
<1> QED
  BY <1>1, <1>2, <1>3

-----------------------------------------------------------------------------
(* A new list is a circle of one node. *)
LEMMA NewCircle ==
  ASSUME NEW h, IsHeap(h), Occupied(h) = {}, NEW c \in Cells
  PROVE  Circle([h EXCEPT ![c] = [prev |-> c, next |-> c, data |-> 0]], c, <<>>)
<1> DEFINE x == [prev |-> c, next |-> c, data |-> 0]
           g == [h EXCEPT ![c] = x]
           s == <<>>
<1>1. x \in ListNodes /\ x.prev = c /\ x.next = c /\ x.data = 0
  BY DEF ListNodes
<1>2. g = WithCell(h, c, x)
  BY DEF WithCell
<1> HIDE DEF x, g
<1>3. IsHeap(g) /\ Occupied(g) = {c} /\ g[c] = x
  <2>1. IsHeap(g) /\ Occupied(g) = Occupied(h) \cup {c} /\ g[c] = x
    BY <1>1, <1>2, FillCell
  <2> QED
    BY <2>1
<1>4. s \in Seq(Cells) /\ Len(s) = 0 /\ IsInjective(s) /\ Elements(s) = {}
  BY DEF IsInjective, Elements
<1> HIDE DEF s
<1>5. \A i \in Int : At(s, c, i) = c
  BY <1>4 DEF At
<1>6. \A i \in 0 .. Len(s) : g[At(s, c, i)].next = At(s, c, i + 1) /\ g[At(s, c, i + 1)].prev = At(s, c, i)
  <2>1. g[c].next = c /\ g[c].prev = c
    BY <1>1, <1>3
  <2> TAKE i \in 0 .. Len(s)
  <2>2. i \in Int /\ i + 1 \in Int
    BY <1>4
  <2> QED
    BY <1>5, <2>1, <2>2
<1>7. /\ c \notin Elements(s) /\ Occupied(g) = Elements(s) \cup {c}
      /\ g[c].data = Len(s) /\ \A i \in 1 .. Len(s) : g[s[i]].data \in Payloads
  BY <1>1, <1>3, <1>4
<1>8. Circle(g, c, s)
  BY <1>3, <1>4, <1>6, <1>7 DEF Circle
<1> QED
  BY <1>8 DEF s, g, x

(* The heaps that clist_push_back and clist_pop_front leave. *)
Pushed(h, c, e, v, last) == [Linked(h, e, v, last) EXCEPT ![c].data = @ + 1]

Popped(h, c, n) == [Unlinked(h, n) EXCEPT ![n] = NoNode, ![c].data = @ - 1]

(* Linking node e behind the last node puts it at the end of the sequence. *)
LEMMA PushCircle ==
  ASSUME NEW h, NEW c, NEW s, Circle(h, c, s), NEW e \in Cells, e \notin Occupied(h),
         NEW v \in Payloads
  PROVE  LET g == Pushed(h, c, e, v, At(s, c, Len(s)))
         IN  /\ Circle(g, c, Append(s, e))
             /\ g[e].data = v
             /\ \A i \in 1 .. Len(s) : g[s[i]].data = h[s[i]].data
<1> DEFINE L == Len(s)
           last == At(s, c, L)
           x == [prev |-> last, next |-> h[last].next, data |-> v]
           h1 == [h EXCEPT ![e] = x]
           h2 == [h1 EXCEPT ![h1[last].next].prev = e]
           h3 == [h2 EXCEPT ![last].next = e]
           g == [h3 EXCEPT ![c].data = @ + 1]
           a == Append(s, e)
<1>1. /\ IsHeap(h) /\ c \in Cells /\ s \in Seq(Cells) /\ IsInjective(s) /\ c \notin Elements(s)
      /\ Occupied(h) = Elements(s) \cup {c}
      /\ \A i \in 0 .. L : /\ h[At(s, c, i)].next = At(s, c, i + 1)
                           /\ h[At(s, c, i + 1)].prev = At(s, c, i)
      /\ h[c].data = L
      /\ \A i \in 1 .. L : h[s[i]].data \in Payloads
  BY DEF Circle
<1>2. /\ L \in Nat /\ DOMAIN s = 1 .. L
      /\ At(s, c, 0) = c /\ At(s, c, L + 1) = c
      /\ \A i \in 1 .. L : /\ At(s, c, i) = s[i] /\ s[i] \in Cells
                           /\ s[i] \in Elements(s) /\ s[i] # c
      /\ \A i \in 1 .. L, j \in 1 .. L : s[i] = s[j] => i = j
      /\ \A i \in Int : At(s, c, i) \in Elements(s) \cup {c}
  BY <1>1, AtParts
<1>3. /\ Len(a) = L + 1 /\ a \in Seq(Cells) /\ DOMAIN a = 1 .. L + 1
      /\ \A i \in 1 .. L : a[i] = s[i]
      /\ a[L + 1] = e
  BY <1>1, AppendProperties, LenProperties
<1>4. /\ Elements(a) = Elements(s) \cup {e} /\ IsInjective(a)
      /\ e \notin Elements(s) /\ e # c
  BY <1>1, AppendKeepsInjective
<1> HIDE DEF L, a
<1>5. /\ last \in Occupied(h) /\ last \in Cells /\ last # e
      /\ h[last].next = c
  BY <1>1, <1>2, <1>4 DEF Occupied
<1> HIDE DEF last
<1>6. x \in ListNodes /\ x.prev = last /\ x.next = c /\ x.data = v
  BY <1>1, <1>5 DEF ListNodes
<1> HIDE DEF x
<1>7. /\ IsHeap(h1) /\ Occupied(h1) = Occupied(h) \cup {e} /\ h1[e] = x
      /\ \A m \in Cells : m # e => h1[m] = h[m]
  <2>1. h1 = WithCell(h, e, x)
    BY DEF WithCell
  <2> HIDE DEF h1
  <2> QED
    BY <1>1, <1>6, <2>1, FillCell
<1> HIDE DEF h1
<1>8. h1[last].next = c /\ c \in Occupied(h1)
  BY <1>1, <1>5, <1>7
<1>9. /\ IsHeap(h2) /\ Occupied(h2) = Occupied(h1)
      /\ h2[c].prev = e /\ h2[c].next = h1[c].next /\ h2[c].data = h1[c].data
      /\ \A m \in Cells : m # c => h2[m] = h1[m]
  <2>1. h2 = WithPrev(h1, c, e)
    BY <1>8 DEF WithPrev
  <2> HIDE DEF h2
  <2> QED
    BY <1>7, <1>8, <2>1, SetPrev
<1> HIDE DEF h2
<1>10. /\ IsHeap(h3) /\ Occupied(h3) = Occupied(h2)
       /\ h3[last].next = e /\ h3[last].prev = h2[last].prev /\ h3[last].data = h2[last].data
       /\ \A m \in Cells : m # last => h3[m] = h2[m]
  <2>1. last \in Occupied(h2) /\ e \in Cells \cup {Null}
    BY <1>5, <1>7, <1>9
  <2>2. h3 = WithNext(h2, last, e)
    BY DEF WithNext
  <2> HIDE DEF h3
  <2> QED
    BY <1>9, <2>1, <2>2, SetNext
<1>11. g = WithData(h3, c, h3[c].data + 1)
  BY DEF WithData
<1> HIDE DEF g, h3
<1>12. h3[c].data = L /\ L + 1 \in Nat
  <2>1. h2[c].data = L
    BY <1>1, <1>4, <1>7, <1>9
  <2> QED
    BY <1>1, <1>2, <1>10, <2>1
<1>13. /\ IsHeap(g) /\ Occupied(g) = Occupied(h3)
       /\ g[c].data = L + 1 /\ g[c].prev = h3[c].prev /\ g[c].next = h3[c].next
       /\ \A m \in Cells : m # c => g[m] = h3[m]
  <2>1. c \in Occupied(h3)
    BY <1>8, <1>9, <1>10
  <2>2. g = WithData(h3, c, L + 1) /\ L + 1 \in Payloads \cup Nat
    BY <1>11, <1>12
  <2> QED
    BY <1>10, <2>1, <2>2, SetData
<1>14. \A m \in Cells : m # e =>
         /\ g[m].next = IF m = last THEN e ELSE h[m].next
         /\ g[m].prev = IF m = c THEN e ELSE h[m].prev
         /\ m # c => g[m].data = h[m].data
  BY <1>4, <1>5, <1>7, <1>9, <1>10, <1>13
<1>15. g[e].next = c /\ g[e].prev = last /\ g[e].data = v
  BY <1>4, <1>5, <1>6, <1>7, <1>9, <1>10, <1>13
<1>16. Occupied(g) = Elements(a) \cup {c}
  BY <1>1, <1>4, <1>7, <1>9, <1>10, <1>13
<1>17. /\ \A i \in 0 .. L : At(a, c, i) = At(s, c, i)
       /\ At(a, c, L + 1) = e /\ At(a, c, L + 2) = c
  BY <1>2, <1>3 DEF At, L
<1>18. ASSUME NEW i \in 0 .. L + 1
       PROVE  g[At(a, c, i)].next = At(a, c, i + 1) /\ g[At(a, c, i + 1)].prev = At(a, c, i)
  <2>1. CASE i < L
    <3>1. i \in 0 .. L /\ i + 1 \in 0 .. L /\ i + 1 \in 1 .. L
      BY <1>2, <2>1
    <3> DEFINE m == At(s, c, i)
               n == At(s, c, i + 1)
    <3>2. m \in Cells /\ n \in Cells /\ m # e /\ n # e /\ n # c /\ m # last
      <4>1. m \in Cells /\ n \in Cells /\ m # e /\ n # e /\ n # c
        BY <1>1, <1>2, <1>4, <3>1
      <4>2. L \in 1 .. L /\ last = s[L] /\ s[L] # c
        BY <1>2, <2>1, <3>1 DEF last
      <4>3. i = 0 \/ i \in 1 .. L
        BY <3>1
      <4>4. m # last
        BY <1>2, <2>1, <4>2, <4>3
      <4> QED
        BY <4>1, <4>4
    <3>3. h[m].next = n /\ h[n].prev = m
      BY <1>1, <3>1
    <3> QED
      BY <1>14, <1>17, <3>1, <3>2, <3>3
  <2>2. CASE i = L
    <3>1. At(a, c, i) = last /\ At(a, c, i + 1) = e
      BY <1>2, <1>17, <2>2 DEF last
    <3> QED
      BY <1>5, <1>14, <1>15, <3>1
  <2>3. CASE i = L + 1
    <3>1. At(a, c, i) = e /\ At(a, c, i + 1) = c
      BY <1>2, <1>17, <2>3
    <3> QED
      BY <1>1, <1>4, <1>14, <1>15, <3>1
  <2> QED
    BY <1>2, <2>1, <2>2, <2>3
<1>19. \A i \in 1 .. L : g[s[i]].data = h[s[i]].data
  BY <1>2, <1>4, <1>14
<1>20. ASSUME NEW i \in 1 .. L + 1 PROVE g[a[i]].data \in Payloads
  <2>1. CASE i \in 1 .. L
    BY <1>1, <1>3, <1>19, <2>1
  <2>2. CASE i = L + 1
    BY <1>3, <1>15, <2>2
  <2> QED
    BY <1>2, <2>1, <2>2
<1>21. c \notin Elements(a)
  BY <1>1, <1>4
<1>22. Circle(g, c, a)
  BY <1>1, <1>3, <1>4, <1>13, <1>16, <1>18, <1>20, <1>21 DEF Circle
<1> QED
  BY <1>15, <1>19, <1>22 DEF a, L, g, h3, h2, h1, x, last, Linked, Pushed

(* Unlinking and freeing the first node takes it off the sequence. *)
LEMMA PopCircle ==
  ASSUME NEW h, NEW c, NEW s, Circle(h, c, s), Len(s) > 0
  PROVE  LET n == At(s, c, 1)
             g == Popped(h, c, n)
         IN  /\ n = Head(s)
             /\ Circle(g, c, Tail(s))
             /\ \A i \in 1 .. Len(s) - 1 : g[Tail(s)[i]].data = h[s[i + 1]].data
<1> DEFINE L == Len(s)
           n == At(s, c, 1)
           q == At(s, c, 2)
           t == Tail(s)
           h1 == [h EXCEPT ![h[n].prev].next = h[n].next]
           h2 == [h1 EXCEPT ![h1[n].next].prev = h1[n].prev]
           h3 == [h2 EXCEPT ![n] = NoNode]
           g == [h3 EXCEPT ![c].data = @ - 1]
<1>1. /\ IsHeap(h) /\ c \in Cells /\ s \in Seq(Cells) /\ IsInjective(s) /\ c \notin Elements(s)
      /\ Occupied(h) = Elements(s) \cup {c}
      /\ \A i \in 0 .. L : /\ h[At(s, c, i)].next = At(s, c, i + 1)
                           /\ h[At(s, c, i + 1)].prev = At(s, c, i)
      /\ h[c].data = L
      /\ \A i \in 1 .. L : h[s[i]].data \in Payloads
  BY DEF Circle
<1>2. /\ L \in Nat /\ L > 0 /\ DOMAIN s = 1 .. L
      /\ At(s, c, 0) = c /\ At(s, c, L + 1) = c
      /\ \A i \in 1 .. L : /\ At(s, c, i) = s[i] /\ s[i] \in Cells
                           /\ s[i] \in Elements(s) /\ s[i] # c
      /\ \A i \in 1 .. L, j \in 1 .. L : s[i] = s[j] => i = j
      /\ \A i \in Int : At(s, c, i) \in Elements(s) \cup {c}
  BY <1>1, AtParts
<1>3. s # <<>>
  BY <1>1, <1>2, EmptySeq DEF L
<1>4. /\ t \in Seq(Cells) /\ Len(t) = L - 1 /\ Head(s) = s[1]
      /\ \A i \in 1 .. L - 1 : t[i] = s[i + 1]
  BY <1>1, <1>3, HeadTailProperties
<1>5. /\ IsInjective(t) /\ Elements(t) = Elements(s) \ {Head(s)} /\ Head(s) \in Elements(s)
  BY <1>1, <1>3, TailKeepsInjective
<1> HIDE DEF L, t
<1>6. n = Head(s) /\ n \in Occupied(h) /\ n \in Cells /\ n # c
  <2>1. 1 \in 1 .. L
    BY <1>2
  <2> QED
    BY <1>1, <1>2, <1>4, <2>1
<1>7. h[n].prev = c /\ h[n].next = q
  <2>1. 0 \in 0 .. L /\ 1 \in 0 .. L /\ 0 + 1 = 1 /\ 1 + 1 = 2
    BY <1>2
  <2> QED
    BY <1>1, <1>2, <2>1
<1>8. q \in Occupied(h) /\ q \in Cells /\ q # n
  <2>1. q \in Occupied(h)
    BY <1>1, <1>2
  <2>2. q # n
    <3>1. CASE L = 1
      BY <1>2, <1>6, <3>1
    <3>2. CASE L # 1
      <4>1. 1 \in 1 .. L /\ 2 \in 1 .. L
        BY <1>2, <3>2
      <4> QED
        BY <1>2, <4>1
    <3> QED
      BY <3>1, <3>2
  <2> QED
    BY <2>1, <2>2 DEF Occupied
<1> HIDE DEF n, q
<1>9. /\ IsHeap(h1) /\ Occupied(h1) = Occupied(h)
      /\ h1[c].next = q /\ h1[c].prev = h[c].prev /\ h1[c].data = h[c].data
      /\ \A m \in Cells : m # c => h1[m] = h[m]
  <2>1. h1 = WithNext(h, c, q)
    BY <1>7 DEF WithNext
  <2>2. c \in Occupied(h) /\ q \in Cells \cup {Null}
    BY <1>1, <1>8
  <2> HIDE DEF h1
  <2> QED
    BY <1>1, <2>1, <2>2, SetNext
<1> HIDE DEF h1
<1>10. h1[n].prev = c /\ h1[n].next = q
  BY <1>6, <1>7, <1>9
<1>11. /\ IsHeap(h2) /\ Occupied(h2) = Occupied(h)
       /\ h2[q].prev = c /\ h2[q].next = h1[q].next /\ h2[q].data = h1[q].data
       /\ \A m \in Cells : m # q => h2[m] = h1[m]
  <2>1. h2 = WithPrev(h1, q, c)
    BY <1>10 DEF WithPrev
  <2>2. IsHeap(h1) /\ q \in Occupied(h1) /\ c \in Cells
    BY <1>1, <1>8, <1>9
  <2> HIDE DEF h2
  <2>3. /\ IsHeap(h2) /\ Occupied(h2) = Occupied(h1)
        /\ h2[q].prev = c /\ h2[q].next = h1[q].next /\ h2[q].data = h1[q].data
        /\ \A m \in Cells : m # q => h2[m] = h1[m]
    BY <2>1, <2>2, SetPrev
  <2> QED
    BY <1>9, <2>3
<1> HIDE DEF h2
<1>12. /\ IsHeap(h3) /\ Occupied(h3) = Occupied(h) \ {n}
       /\ \A m \in Cells : m # n => h3[m] = h2[m]
  <2>1. h3 = WithCell(h2, n, NoNode)
    BY DEF WithCell
  <2> HIDE DEF h3
  <2> QED
    BY <1>6, <1>11, <2>1, FreeCell
<1>13. g = WithData(h3, c, h3[c].data - 1)
  BY DEF WithData
<1> HIDE DEF h3, g
<1>14. h3[c].data = L /\ L - 1 \in Nat
  <2>1. h2[c].data = L
    BY <1>1, <1>9, <1>11
  <2> QED
    BY <1>1, <1>2, <1>6, <1>12, <2>1
<1>15. /\ IsHeap(g) /\ Occupied(g) = Occupied(h) \ {n}
       /\ g[c].data = L - 1 /\ g[c].prev = h3[c].prev /\ g[c].next = h3[c].next
       /\ \A m \in Cells : m # c => g[m] = h3[m]
  <2>1. c \in Occupied(h3)
    BY <1>1, <1>6, <1>12
  <2>2. g = WithData(h3, c, L - 1) /\ L - 1 \in Payloads \cup Nat
    BY <1>13, <1>14
  <2> QED
    BY <1>12, <2>1, <2>2, SetData
<1>16. \A m \in Cells : m # n =>
         /\ g[m].next = IF m = c THEN q ELSE h[m].next
         /\ g[m].prev = IF m = q THEN c ELSE h[m].prev
         /\ m # c => g[m].data = h[m].data
  BY <1>8, <1>9, <1>11, <1>12, <1>15
<1>17. Occupied(g) = Elements(t) \cup {c} /\ c \notin Elements(t)
  BY <1>1, <1>5, <1>6, <1>15
<1>18. At(t, c, 0) = c /\ \A i \in 1 .. L : At(t, c, i) = At(s, c, i + 1)
  <2>1. At(t, c, 0) = c
    BY <1>4 DEF At
  <2>2. ASSUME NEW i \in 1 .. L PROVE At(t, c, i) = At(s, c, i + 1)
    <3>1. CASE i = L
      <4>1. At(t, c, i) = c
        BY <1>4, <1>2, <3>1 DEF At
      <4> QED
        BY <1>2, <3>1, <4>1
    <3>2. CASE i # L
      <4>1. i \in 1 .. L - 1 /\ i + 1 \in 1 .. L
        BY <1>2, <3>2
      <4> QED
        BY <1>2, <1>4, <4>1 DEF At
    <3> QED
      BY <3>1, <3>2
  <2> QED
    BY <2>1, <2>2
<1>19. ASSUME NEW i \in 0 .. L - 1
       PROVE  g[At(t, c, i)].next = At(t, c, i + 1) /\ g[At(t, c, i + 1)].prev = At(t, c, i)
  <2>1. CASE i = 0
    <3>1. At(t, c, i) = c /\ At(t, c, i + 1) = q
      <4>1. 1 \in 1 .. L /\ i + 1 = 1 /\ 1 + 1 = 2
        BY <1>2, <2>1
      <4> QED
        BY <1>18, <2>1, <4>1 DEF q
    <3> QED
      BY <1>1, <1>6, <1>8, <1>16, <3>1
  <2>2. CASE i # 0
    <3> DEFINE m == At(s, c, i + 1)
               p == At(s, c, i + 2)
    <3>1. /\ i \in 1 .. L /\ i + 1 \in 1 .. L /\ i + 1 \in 0 .. L /\ (i + 1) + 1 = i + 2
          /\ 1 \in 1 .. L /\ 2 \in 1 .. L /\ i + 2 \in Int /\ i + 2 # 2 /\ i + 1 # 1 /\ i + 2 # 1
          /\ i + 2 \in 1 .. L \/ i + 2 = L + 1
      BY <1>2, <2>2
    <3>2. At(t, c, i) = m /\ At(t, c, i + 1) = p
      BY <1>18, <3>1
    <3>3. h[m].next = p /\ h[p].prev = m
      BY <1>1, <3>1
    <3>4. m = s[i + 1] /\ m \in Cells /\ m # c /\ m # n
      BY <1>2, <3>1 DEF n
    <3>5. p \in Cells /\ p # q /\ p # n
      <4>1. n = s[1] /\ q = s[2] /\ n # c /\ q # c
        BY <1>2, <3>1 DEF n, q
      <4>2. CASE i + 2 \in 1 .. L
        BY <1>2, <3>1, <4>1, <4>2
      <4>3. CASE i + 2 = L + 1
        BY <1>1, <1>2, <4>1, <4>3
      <4> QED
        BY <3>1, <4>2, <4>3
    <3> HIDE DEF m, p
    <3> QED
      BY <1>16, <3>2, <3>3, <3>4, <3>5
  <2> QED
    BY <2>1, <2>2
<1>20. \A i \in 1 .. L - 1 : g[t[i]].data = h[s[i + 1]].data
  <2> TAKE i \in 1 .. L - 1
  <2>1. i + 1 \in 1 .. L /\ 1 \in 1 .. L /\ i + 1 # 1
    BY <1>2
  <2>2. t[i] = s[i + 1] /\ s[i + 1] \in Cells /\ s[i + 1] # c /\ s[i + 1] # n
    BY <1>2, <1>4, <2>1 DEF n
  <2> QED
    BY <1>16, <2>2
<1>21. \A i \in 1 .. L - 1 : g[t[i]].data \in Payloads
  <2> TAKE i \in 1 .. L - 1
  <2>1. i + 1 \in 1 .. L
    BY <1>2
  <2> QED
    BY <1>1, <1>20, <2>1
<1>22. Circle(g, c, t)
  BY <1>1, <1>4, <1>5, <1>15, <1>17, <1>19, <1>21 DEF Circle
<1>23. g = [Unlinked(h, n) EXCEPT ![n] = NoNode, ![c].data = @ - 1]
  <2>1. h2 = Unlinked(h, n)
    BY DEF h2, h1, Unlinked
  <2>2. h3[c] = h2[c]
    BY <1>1, <1>6, <1>12
  <2>3. g = [[h2 EXCEPT ![n] = NoNode] EXCEPT ![c].data = h2[c].data - 1]
    BY <2>2 DEF g, h3
  <2> QED
    BY <2>1, <2>3
<1> QED
  BY <1>6, <1>20, <1>22, <1>23 DEF t, L, n, Popped

(* clist_destroy opens the circle before the list, whose nodes are then a  *)
(* chain that begins with the list itself.                                 *)
LEMMA CutCircle ==
  ASSUME NEW h, NEW c, NEW s, Circle(h, c, s)
  PROVE  Remains(CutOpen(h, c), c, <<c>> \o s)
<1> DEFINE L == Len(s)
           last == At(s, c, L)
           g == CutOpen(h, c)
           t == <<c>> \o s
<1>1. /\ IsHeap(h) /\ c \in Cells /\ s \in Seq(Cells) /\ IsInjective(s) /\ c \notin Elements(s)
      /\ Occupied(h) = Elements(s) \cup {c}
      /\ \A i \in 0 .. L : /\ h[At(s, c, i)].next = At(s, c, i + 1)
                           /\ h[At(s, c, i + 1)].prev = At(s, c, i)
  BY DEF Circle
<1>2. /\ L \in Nat /\ DOMAIN s = 1 .. L
      /\ At(s, c, 0) = c /\ At(s, c, L + 1) = c
      /\ \A i \in 1 .. L : /\ At(s, c, i) = s[i] /\ s[i] \in Cells
                           /\ s[i] \in Elements(s) /\ s[i] # c
      /\ \A i \in 1 .. L, j \in 1 .. L : s[i] = s[j] => i = j
      /\ \A i \in Int : At(s, c, i) \in Elements(s) \cup {c}
  BY <1>1, AtParts
<1>3. /\ t \in Seq(Cells) /\ Len(t) = L + 1 /\ t[1] = c
      /\ \A i \in 1 .. L : t[i + 1] = s[i]
  BY <1>1, ConsParts
<1>4. Elements(t) = Elements(s) \cup {c}
  BY <1>1, ConsParts
<1> HIDE DEF L, t
<1>5. DOMAIN t = 1 .. L + 1
  BY <1>3, LenProperties
<1>6. \A i \in 1 .. L + 1 : t[i] = At(s, c, i - 1)
  <2> TAKE i \in 1 .. L + 1
  <2>1. CASE i = 1
    BY <1>2, <1>3, <2>1
  <2>2. CASE i # 1
    <3>1. i - 1 \in 1 .. L /\ (i - 1) + 1 = i
      BY <1>2, <2>2
    <3>2. t[i] = s[i - 1]
      BY <1>3, <3>1
    <3> QED
      BY <1>2, <3>1, <3>2
  <2> QED
    BY <2>1, <2>2
<1>7. IsInjective(t)
  <2> SUFFICES ASSUME NEW i \in 1 .. L + 1, NEW j \in 1 .. L + 1, t[i] = t[j]
               PROVE  i = j
    BY <1>5 DEF IsInjective
  <2>1. At(s, c, i - 1) = At(s, c, j - 1)
    BY <1>6
  <2>2. i - 1 \in 1 .. L \/ i = 1
    BY <1>2
  <2>3. j - 1 \in 1 .. L \/ j = 1
    BY <1>2
  <2>4. CASE i = 1 /\ j = 1
    BY <2>4
  <2>5. CASE i = 1 /\ j - 1 \in 1 .. L
    BY <1>2, <2>1, <2>5
  <2>6. CASE i - 1 \in 1 .. L /\ j = 1
    BY <1>2, <2>1, <2>6
  <2>7. CASE i - 1 \in 1 .. L /\ j - 1 \in 1 .. L
    <3>1. i - 1 = j - 1
      BY <1>2, <2>1, <2>7
    <3> QED
      BY <3>1
  <2> QED
    BY <2>2, <2>3, <2>4, <2>5, <2>6, <2>7
<1>8. last \in Occupied(h) /\ last \in Cells /\ h[c].prev = last
  <2>1. L \in 0 .. L /\ L \in Int
    BY <1>2
  <2> QED
    BY <1>1, <1>2, <2>1 DEF Occupied
<1>9. last = t[L + 1]
  <2>1. L + 1 \in 1 .. L + 1 /\ (L + 1) - 1 = L
    BY <1>2
  <2> QED
    BY <1>6, <2>1
<1> HIDE DEF last
<1>10. /\ IsHeap(g) /\ Occupied(g) = Occupied(h)
       /\ g[last].next = Null
       /\ \A m \in Cells : m # last => g[m] = h[m]
  <2>1. g = WithNext(h, last, Null)
    BY <1>8 DEF WithNext, CutOpen
  <2>2. IsHeap(h) /\ last \in Occupied(h) /\ Null \in Cells \cup {Null}
    BY <1>1, <1>8
  <2> HIDE DEF g
  <2> QED
    BY <2>1, <2>2, SetNext
<1> HIDE DEF g
<1>11. ASSUME NEW i \in 1 .. L + 1
       PROVE  g[t[i]].next = IF i = L + 1 THEN Null ELSE t[i + 1]
  <2>1. CASE i = L + 1
    BY <1>9, <1>10, <2>1
  <2>2. CASE i # L + 1
    <3>1. i - 1 \in 0 .. L /\ (i - 1) + 1 = i /\ i + 1 \in 1 .. L + 1 /\ (i + 1) - 1 = i
          /\ L + 1 \in 1 .. L + 1
      BY <1>2, <2>2
    <3>2. t[i] # last /\ t[i] \in Cells
      <4>1. t[i] \in Elements(t)
        BY <1>5 DEF Elements
      <4>2. t[i] \in Cells
        BY <1>1, <1>4, <4>1 DEF Occupied
      <4>3. t[i] # t[L + 1]
        BY <1>5, <1>7, <2>2, <3>1 DEF IsInjective
      <4> QED
        BY <1>9, <4>2, <4>3
    <3>3. h[t[i]].next = t[i + 1]
      BY <1>1, <1>6, <3>1
    <3> QED
      BY <1>10, <2>2, <3>2, <3>3
  <2> QED
    BY <2>1, <2>2
<1>12. Len(t) # 0
  BY <1>2, <1>3
<1>13. Remains(g, c, t)
  BY <1>1, <1>3, <1>4, <1>7, <1>10, <1>11, <1>12 DEF Remains
<1> QED
  BY <1>13 DEF g, t

(* The loop frees the first node of the chain. *)
LEMMA FreeFirst ==
  ASSUME NEW h, NEW n, NEW s, Remains(h, n, s), n # Null
  PROVE  /\ n \in Cells
         /\ Remains([h EXCEPT ![n] = NoNode], h[n].next, Tail(s))
<1> DEFINE L == Len(s)
           t == Tail(s)
           g == [h EXCEPT ![n] = NoNode]
<1>1. /\ IsHeap(h) /\ s \in Seq(Cells) /\ IsInjective(s)
      /\ Occupied(h) = Elements(s)
      /\ n = IF L = 0 THEN Null ELSE s[1]
      /\ \A i \in 1 .. L : h[s[i]].next = IF i = L THEN Null ELSE s[i + 1]
  BY DEF Remains
<1>2. /\ L \in Nat /\ L > 0 /\ DOMAIN s = 1 .. L /\ n = s[1] /\ s # <<>>
      /\ \A i \in 1 .. L : s[i] \in Cells
  BY <1>1, LenProperties, ElementOfSeq, EmptySeq
<1>3. /\ t \in Seq(Cells) /\ Len(t) = L - 1 /\ Head(s) = n
      /\ \A i \in 1 .. L - 1 : t[i] = s[i + 1]
  <2>1. t \in Seq(Cells) /\ Len(t) = Len(s) - 1 /\ \A i \in 1 .. Len(t) : t[i] = s[i + 1]
    BY <1>1, <1>2, HeadTailProperties
  <2>2. s \in Seq(Cells)
    BY <1>1
  <2>3. Head(s) = s[1]
    BY <2>2
  <2> QED
    BY <1>2, <2>1, <2>3
<1>4. IsInjective(t) /\ Elements(t) = Elements(s) \ {n}
  BY <1>1, <1>2, <1>3, TailKeepsInjective
<1>5. 1 \in 1 .. L /\ n \in Cells /\ h[n].next = IF 1 = L THEN Null ELSE s[2]
  <2>1. 1 \in 1 .. L /\ 1 + 1 = 2
    BY <1>2
  <2> QED
    BY <1>1, <1>2, <2>1
<1> HIDE DEF L, t
<1>6. IsHeap(g) /\ Occupied(g) = Elements(t) /\ \A m \in Cells : m # n => g[m] = h[m]
  <2>1. g = WithCell(h, n, NoNode)
    BY DEF WithCell
  <2> HIDE DEF g
  <2> QED
    BY <1>1, <1>4, <1>5, <2>1, FreeCell
<1> HIDE DEF g
<1>7. h[n].next = IF Len(t) = 0 THEN Null ELSE t[1]
  <2>1. CASE L = 1
    BY <1>3, <1>5, <2>1
  <2>2. CASE L # 1
    <3>1. 1 \in 1 .. L - 1 /\ 1 + 1 = 2 /\ L - 1 # 0
      BY <1>2, <2>2
    <3> QED
      BY <1>3, <1>5, <2>2, <3>1
  <2> QED
    BY <2>1, <2>2
<1>8. ASSUME NEW i \in 1 .. L - 1
      PROVE  g[t[i]].next = IF i = L - 1 THEN Null ELSE t[i + 1]
  <2>1. i + 1 \in 1 .. L /\ i + 1 # 1 /\ (i + 1 = L <=> i = L - 1)
    BY <1>2
  <2>2. t[i] = s[i + 1] /\ t[i] # n /\ t[i] \in Cells
    BY <1>1, <1>2, <1>3, <1>5, <2>1 DEF IsInjective
  <2>3. g[t[i]].next = IF i + 1 = L THEN Null ELSE s[(i + 1) + 1]
    BY <1>1, <1>6, <2>1, <2>2
  <2>4. i # L - 1 => i + 1 \in 1 .. L - 1
    BY <1>2
  <2> QED
    BY <1>3, <2>1, <2>3, <2>4
<1>9. Remains(g, h[n].next, t)
  BY <1>3, <1>4, <1>6, <1>7, <1>8 DEF Remains
<1> QED
  BY <1>5, <1>9 DEF g, t
-----------------------------------------------------------------------------
(* What clients stored, as the nodes come and go. *)
LEMMA ContentIsSeq ==
  ASSUME NEW h, NEW s \in Seq(Cells), \A i \in 1 .. Len(s) : h[s[i]].data \in Payloads
  PROVE  /\ Len(s) \in Nat
         /\ Content(h, s) \in Seq(Payloads) /\ Len(Content(h, s)) = Len(s)
         /\ \A i \in 1 .. Len(s) : Content(h, s)[i] = h[s[i]].data
<1>1. Len(s) \in Nat
  BY LenProperties
<1> QED
  BY <1>1 DEF Content

LEMMA ContentGrows ==
  ASSUME NEW h, NEW g, NEW s \in Seq(Cells), NEW e \in Cells, NEW v \in Payloads,
         \A i \in 1 .. Len(s) : h[s[i]].data \in Payloads /\ g[s[i]].data = h[s[i]].data,
         g[e].data = v
  PROVE  Content(g, Append(s, e)) = Append(Content(h, s), v)
<1> DEFINE L == Len(s)
           a == Append(s, e)
           q == Content(h, s)
           p == Append(q, v)
           r == Content(g, a)
<1>1. /\ L \in Nat /\ q \in Seq(Payloads) /\ Len(q) = L
      /\ \A i \in 1 .. L : q[i] = h[s[i]].data
  BY ContentIsSeq
<1>2. /\ a \in Seq(Cells) /\ Len(a) = L + 1 /\ a[L + 1] = e
      /\ \A i \in 1 .. L : a[i] = s[i]
  BY AppendProperties
<1> HIDE DEF q
<1>3. /\ p \in Seq(Payloads) /\ Len(p) = L + 1 /\ p[L + 1] = v
      /\ \A i \in 1 .. L : p[i] = q[i]
  BY <1>1, AppendProperties
<1> HIDE DEF L, a, p
<1>4. ASSUME NEW i \in 1 .. L + 1 PROVE g[a[i]].data = p[i]
  <2>1. CASE i = L + 1
    BY <1>2, <1>3, <2>1
  <2>2. CASE i # L + 1
    <3>1. i \in 1 .. L
      BY <1>1, <2>2
    <3> QED
      BY <1>1, <1>2, <1>3, <3>1 DEF L
  <2> QED
    BY <2>1, <2>2
<1>5. \A i \in 1 .. Len(a) : g[a[i]].data \in Payloads
  <2>1. \A i \in 1 .. L + 1 : p[i] \in Payloads
    BY <1>3, ElementOfSeq
  <2> QED
    BY <1>2, <1>4, <2>1
<1>6. /\ r \in Seq(Payloads) /\ Len(r) = L + 1
      /\ \A i \in 1 .. L + 1 : r[i] = g[a[i]].data
  BY <1>2, <1>5, ContentIsSeq
<1> HIDE DEF r
<1>7. r = p
  BY <1>3, <1>4, <1>6, SeqEqual
<1> QED
  BY <1>7 DEF r, p, q, a

LEMMA ContentShrinks ==
  ASSUME NEW h, NEW g, NEW s \in Seq(Cells), Len(s) > 0,
         \A i \in 1 .. Len(s) : h[s[i]].data \in Payloads,
         \A i \in 1 .. Len(s) - 1 : g[Tail(s)[i]].data = h[s[i + 1]].data
  PROVE  /\ Content(h, s) # <<>>
         /\ Content(g, Tail(s)) = Tail(Content(h, s))
         /\ Head(Content(h, s)) = h[Head(s)].data
<1> DEFINE L == Len(s)
           t == Tail(s)
           q == Content(h, s)
           p == Tail(q)
           r == Content(g, t)
<1>1. /\ L \in Nat /\ q \in Seq(Payloads) /\ Len(q) = L
      /\ \A i \in 1 .. L : q[i] = h[s[i]].data
  BY ContentIsSeq
<1>2. s # <<>>
  BY EmptySeq
<1>3. /\ t \in Seq(Cells) /\ Len(t) = L - 1
      /\ \A i \in 1 .. L - 1 : t[i] = s[i + 1]
  BY <1>2, HeadTailProperties
<1>4. Head(s) = s[1]
  OBVIOUS
<1> HIDE DEF q
<1>5. q # <<>>
  BY <1>1, EmptySeq
<1>6. q \in Seq(Payloads)
  BY <1>1
<1>7. /\ p \in Seq(Payloads) /\ Len(p) = Len(q) - 1
      /\ \A i \in 1 .. Len(q) - 1 : p[i] = q[i + 1]
  BY <1>5, <1>6, HeadTailProperties
<1>8. Head(q) = q[1]
  BY <1>6
<1> HIDE DEF L, t, p
<1>9. ASSUME NEW i \in 1 .. L - 1 PROVE g[t[i]].data = p[i]
  <2>1. i + 1 \in 1 .. L
    BY <1>1
  <2>2. g[t[i]].data = h[s[i + 1]].data
    BY DEF L, t
  <2> QED
    BY <1>1, <1>7, <2>1, <2>2
<1>10. \A i \in 1 .. Len(t) : g[t[i]].data \in Payloads
  <2>1. \A i \in 1 .. L - 1 : p[i] \in Payloads
    BY <1>1, <1>7, ElementOfSeq
  <2> QED
    BY <1>3, <1>9, <2>1
<1>11. /\ r \in Seq(Payloads) /\ Len(r) = L - 1
       /\ \A i \in 1 .. L - 1 : r[i] = g[t[i]].data
  BY <1>3, <1>10, ContentIsSeq
<1> HIDE DEF r
<1>12. r = p
  BY <1>1, <1>7, <1>9, <1>11, SeqEqual
<1>13. Head(q) = h[Head(s)].data
  <2>1. 1 \in 1 .. L
    BY <1>1 DEF L
  <2> QED
    BY <1>1, <1>4, <1>8, <2>1
<1> QED
  BY <1>5, <1>12, <1>13 DEF r, p, q, t
-----------------------------------------------------------------------------
(* Every step keeps the invariant, and is a step of the queue or none. *)
ListStep == ListInv' /\ [FifoAs!Next]_(FifoAs!vars)

LEMMA InitList == CListInit => ListInv /\ FifoAs!Init
<1> SUFFICES ASSUME CListInit PROVE ListInv /\ FifoAs!Init
  OBVIOUS
<1> DEFINE s == <<>>
<1>1. cells = [n \in Cells |-> NoNode] /\ clist = Null /\ cursor = Null
  BY DEF CListInit
<1>2. IsHeap(cells) /\ Occupied(cells) = {}
  BY <1>1 DEF IsHeap, Occupied
<1>3. s \in Seq(Cells) /\ Len(s) = 0 /\ DOMAIN s = {}
  OBVIOUS
<1> HIDE DEF s
<1>4. IsInjective(s) /\ Elements(s) = {}
  BY <1>3 DEF IsInjective, Elements
<1>5. Remains(cells, Null, s)
  BY <1>2, <1>3, <1>4 DEF Remains
<1>6. Queue = <<>> /\ Told = FifoAs!Answer("none", 0, Null)
  BY <1>1 DEF CListInit, Queue, Ready, Told, CListAnswer, FifoAs!Answer
<1> QED
  BY <1>1, <1>5, <1>6 DEF ListInv, FifoAs!Init, s

LEMMA CreateStep == ASSUME ListInv, clist_create PROVE ListStep
<1>1. PICK n \in Cells \ Used :
        cells' = [cells EXCEPT ![n] = [prev |-> n, next |-> n, data |-> 0]] /\ clist' = n
  BY DEF clist_create
<1> DEFINE s == <<>>
<1>2. clist = Null /\ cursor = Null /\ Remains(cells, Null, s)
  BY DEF ListInv, clist_create
<1>3. Len(s) = 0 /\ s \in Seq(Cells)
  OBVIOUS
<1> HIDE DEF s
<1>4. IsHeap(cells) /\ Occupied(cells) = {}
  <2>1. DOMAIN s = {}
    BY <1>3, LenProperties
  <2> QED
    BY <1>2, <2>1 DEF Remains, Elements
<1>5. Circle(cells', clist', s)
  BY <1>1, <1>4, NewCircle DEF s
<1>6. clist' # Null /\ cursor' = Null
  BY <1>1, <1>2, CellsAssumption DEF clist_create
<1>7. ListInv'
  BY <1>3, <1>5, <1>6 DEF ListInv
<1>8. Queue' = <<>>
  BY <1>3, <1>5, <1>6, CircleIsNextList DEF Ready, Content
<1>9. Told' = FifoAs!Answer("create", 0, Null)
  BY <1>6 DEF Told, clist_create, CListAnswer, FifoAs!Answer
<1> QED
  BY <1>7, <1>8, <1>9 DEF ListStep, FifoAs!Next, FifoAs!Fresh

LEMMA PushStep == ASSUME ListInv, NEW v \in Payloads, clist_push_back(v) PROVE ListStep
<1>1. Ready /\ clist' = clist /\ cursor' = cursor
  BY DEF clist_push_back
<1>2. PICK s \in Seq(Cells) : Circle(cells, clist, s)
  BY <1>1 DEF ListInv, Ready
<1>3. PICK e \in Cells \ Used :
        cells' = Pushed(cells, clist, e, v, clist_tail)
  BY DEF clist_push_back, Pushed
<1>4. clist_tail = At(s, clist, Len(s)) /\ Queue = Content(cells, s)
  BY <1>1, <1>2, CircleIsList
<1>5. e \in Cells /\ e \notin Occupied(cells)
  BY <1>3 DEF Used, Occupied
<1>6. /\ Circle(cells', clist', Append(s, e))
      /\ cells'[e].data = v
      /\ \A i \in 1 .. Len(s) : cells'[s[i]].data = cells[s[i]].data
  BY <1>1, <1>2, <1>3, <1>4, <1>5, PushCircle
<1>7. Append(s, e) \in Seq(Cells)
  BY <1>5, AppendProperties
<1>8. Ready'
  BY <1>1 DEF Ready
<1>9. ListInv'
  BY <1>6, <1>7, <1>8 DEF ListInv, Ready
<1>10. Queue' = Append(Queue, v)
  <2>1. \A i \in 1 .. Len(s) : cells[s[i]].data \in Payloads
    BY <1>2 DEF Circle
  <2>2. Queue' = Content(cells', Append(s, e))
    BY <1>6, <1>8, CircleIsNextList
  <2> QED
    BY <1>4, <1>5, <1>6, <2>1, <2>2, ContentGrows
<1>11. Told' = FifoAs!Answer("push", 0, Null)
  BY <1>8 DEF Ready, Told, clist_push_back, CListAnswer, FifoAs!Answer
<1> QED
  BY <1>9, <1>10, <1>11 DEF ListStep, FifoAs!Next, FifoAs!Push

LEMMA PopStep == ASSUME ListInv, clist_pop_front PROVE ListStep
<1> DEFINE n == clist_head
<1>1. Ready /\ clist' = clist /\ cursor' = cursor /\ clist_size > 0
  BY DEF clist_pop_front
<1>2. PICK s \in Seq(Cells) : Circle(cells, clist, s)
  BY <1>1 DEF ListInv, Ready
<1>3. /\ clist_size = Len(s) /\ n = At(s, clist, 1)
      /\ Queue = Content(cells, s)
  BY <1>1, <1>2, CircleIsList
<1>4. /\ cells' = Popped(cells, clist, n)
      /\ clist_ret' = CListAnswer("pull", 0, cells[n].data)
  BY DEF clist_pop_front, Popped
<1> HIDE DEF n
<1>5. Len(s) > 0 /\ s # <<>>
  BY <1>1, <1>3, EmptySeq
<1>6. /\ n = Head(s)
      /\ Circle(cells', clist', Tail(s))
      /\ \A i \in 1 .. Len(s) - 1 : cells'[Tail(s)[i]].data = cells[s[i + 1]].data
  BY <1>1, <1>2, <1>3, <1>4, <1>5, PopCircle
<1>7. Tail(s) \in Seq(Cells)
  BY <1>5, HeadTailProperties
<1>8. Ready'
  BY <1>1 DEF Ready
<1>9. ListInv'
  BY <1>6, <1>7, <1>8 DEF ListInv, Ready
<1>10. Queue # <<>> /\ Queue' = Tail(Queue) /\ Head(Queue) = cells[n].data
  <2>1. \A i \in 1 .. Len(s) : cells[s[i]].data \in Payloads
    BY <1>2 DEF Circle
  <2>2. Queue' = Content(cells', Tail(s))
    BY <1>6, <1>8, CircleIsNextList
  <2> QED
    BY <1>3, <1>5, <1>6, <2>1, <2>2, ContentShrinks
<1>11. Told' = FifoAs!Answer("pull", 0, Head(Queue))
  BY <1>4, <1>8, <1>10 DEF Ready, Told, CListAnswer, FifoAs!Answer
<1> QED
  BY <1>9, <1>10, <1>11 DEF ListStep, FifoAs!Next, FifoAs!Pull

LEMMA DestroyStep == ASSUME ListInv, clist_destroy PROVE ListStep
<1>1. /\ Ready /\ clist' = clist /\ cursor' = clist
      /\ cells' = CutOpen(cells, clist)
  BY DEF clist_destroy
<1>2. PICK s \in Seq(Cells) : Circle(cells, clist, s)
  BY <1>1 DEF ListInv, Ready
<1>3. Remains(cells', cursor', <<clist>> \o s)
  BY <1>1, <1>2, CutCircle
<1>4. <<clist>> \o s \in Seq(Cells)
  BY <1>2, <1>3 DEF Remains
<1>5. clist' # Null /\ cursor' # Null
  BY <1>1 DEF Ready
<1>6. ListInv'
  BY <1>3, <1>4, <1>5 DEF ListInv
<1>7. Queue' = <<>> /\ Told' = FifoAs!Answer("delete", 0, Null)
  BY <1>5 DEF Queue, Ready, Told, CListAnswer, FifoAs!Answer
<1> QED
  BY <1>6, <1>7 DEF ListStep, FifoAs!Next, FifoAs!Fresh

LEMMA FreeStep == ASSUME ListInv, DestroyNode PROVE ListStep
<1>1. /\ cursor # Null /\ clist # Null
      /\ cells' = [cells EXCEPT ![cursor] = NoNode]
      /\ cursor' = cells[cursor].next
  BY DEF DestroyNode, ListInv
<1>2. PICK s \in Seq(Cells) : Remains(cells, cursor, s)
  BY <1>1 DEF ListInv
<1>3. Remains(cells', cursor', Tail(s))
  BY <1>1, <1>2, FreeFirst
<1> DEFINE t == Tail(s)
           none == <<>>
<1>4. t \in Seq(Cells)
  BY <1>3 DEF Remains
<1> HIDE DEF t
<1>5. Queue = <<>> /\ Told = CListAnswer("delete", 0, Null)
  BY <1>1 DEF Queue, Ready, Told
<1>6. CASE cursor' = Null
  <2>1. clist' = Null /\ clist_ret' = CListAnswer("delete", 0, Null)
    BY <1>1, <1>6 DEF DestroyNode
  <2>2. t = none
    <3>1. Len(t) \in Nat /\ \A i \in 1 .. Len(t) : t[i] \in Cells
      BY <1>4, LenProperties, ElementOfSeq
    <3>2. cursor' = IF Len(t) = 0 THEN Null ELSE t[1]
      BY <1>3 DEF Remains, t
    <3>3. Len(t) = 0
      <4> SUFFICES ASSUME Len(t) # 0 PROVE FALSE
        OBVIOUS
      <4>1. 1 \in 1 .. Len(t)
        BY <3>1
      <4> QED
        BY <1>6, <3>1, <3>2, <4>1, CellsAssumption
    <3> QED
      BY <1>4, <3>3, EmptySeq
  <2>3. ListInv'
    BY <1>3, <1>6, <2>1, <2>2 DEF ListInv, t
  <2>4. Queue' = <<>> /\ Told' = CListAnswer("delete", 0, Null)
    BY <1>6, <2>1 DEF Queue, Ready, Told
  <2> QED
    BY <1>5, <2>3, <2>4 DEF ListStep, FifoAs!vars
<1>7. CASE cursor' # Null
  <2>1. clist' = clist
    BY <1>1, <1>7 DEF DestroyNode
  <2>2. ListInv'
    BY <1>1, <1>3, <1>4, <1>7, <2>1 DEF ListInv, t
  <2>3. Queue' = <<>> /\ Told' = CListAnswer("delete", 0, Null)
    BY <1>7 DEF Queue, Ready, Told, CListAnswer
  <2> QED
    BY <1>5, <2>2, <2>3 DEF ListStep, FifoAs!vars
<1> QED
  BY <1>6, <1>7

LEMMA NextKeepsList == ListInv /\ [CListNext]_clist_vars => ListStep
<1> SUFFICES ASSUME ListInv, [CListNext]_clist_vars PROVE ListStep
  OBVIOUS
<1>1. CASE clist_create
  BY <1>1, CreateStep
<1>2. CASE \E v \in Payloads : clist_push_back(v)
  BY <1>2, PushStep
<1>3. CASE clist_pop_front
  BY <1>3, PopStep
<1>4. CASE clist_destroy
  BY <1>4, DestroyStep
<1>5. CASE DestroyNode
  BY <1>5, FreeStep
<1>6. CASE UNCHANGED clist_vars
  <2>1. ListInv'
    BY <1>6 DEF ListInv, clist_vars
  <2>2. UNCHANGED FifoAs!vars
    <3>1. Ready' = Ready /\ Used' = Used
      BY <1>6 DEF Ready, Used, clist_vars
    <3>2. Forward' = Forward
      BY <1>6, <3>1 DEF Forward, Nexts, clist_head, clist_vars
    <3>3. Queue' = Queue
      BY <1>6, <3>1, <3>2 DEF Queue, clist_vars
    <3>4. Told' = Told
      BY <1>6 DEF Told, CListAnswer, clist_vars
    <3> QED
      BY <3>3, <3>4 DEF FifoAs!vars
  <2> QED
    BY <2>1, <2>2 DEF ListStep
<1> QED
  BY <1>1, <1>2, <1>3, <1>4, <1>5, <1>6 DEF CListNext
-----------------------------------------------------------------------------
THEOREM ListInvariant == CListSpec => []ListInv
<1>1. ListInv /\ [CListNext]_clist_vars => ListInv'
  BY NextKeepsList DEF ListStep
<1> QED
  BY <1>1, InitList, PTL DEF CListSpec

(* Following next from the list visits as many nodes as the list counts,   *)
(* and following prev visits the same in the opposite order, after every   *)
(* clist_push_back and clist_pop_front.                                    *)
THEOREM CListBothWays == CListSpec => []BothWays
<1>1. ListInv => BothWays
  <2> SUFFICES ASSUME ListInv, Ready PROVE BothWays
    BY DEF BothWays
  <2>1. PICK s \in Seq(Cells) : Circle(cells, clist, s)
    BY DEF ListInv, Ready
  <2>2. /\ Forward = s /\ clist_size = Len(s)
        /\ Backward = [i \in 1 .. Len(s) |-> s[Len(s) + 1 - i]]
    BY <2>1, CircleIsList
  <2>3. Len(s) \in Nat /\ DOMAIN s = 1 .. Len(s) /\ \A i \in 1 .. Len(s) : s[i] \in Cells
    BY LenProperties, ElementOfSeq
  <2>4. \A i \in 1 .. Len(s) : Len(s) + 1 - i \in 1 .. Len(s)
    BY <2>3
  <2>5. Len(Backward) = Len(s)
    BY <2>2, <2>3
  <2>6. ASSUME NEW i \in 1 .. Len(s) PROVE Backward[Len(s) + 1 - i] = s[i]
    <3>1. Len(s) + 1 - (Len(s) + 1 - i) = i
      BY <2>3
    <3> QED
      BY <2>2, <2>4, <3>1
  <2> QED
    BY <2>2, <2>3, <2>5, <2>6 DEF BothWays
<1> QED
  BY <1>1, ListInvariant, PTL

(* No node is ever lost: each one allocated is on the list, or ahead of    *)
(* the loop of clist_destroy, which frees each node once and stops.        *)
THEOREM CListNothingLost == CListSpec => []NothingLost
<1>1. ListInv => NothingLost
  <2> SUFFICES ASSUME ListInv PROVE NothingLost
    OBVIOUS
  <2> DEFINE none == <<>>
             one == <<clist>>
             walk == Walk(Nexts, cursor, Null)
             reached == CASE clist = Null -> none
                          [] Ready        -> one \o Forward
                          [] OTHER        -> walk
  <2>1. NothingLost <=> Used = Elements(reached)
    BY DEF NothingLost, Elements
  <2>2. CASE clist = Null
    <3>1. Remains(cells, Null, none)
      BY <2>2 DEF ListInv
    <3>2. Used = Elements(none)
      BY <3>1 DEF Remains, Used, Occupied
    <3>3. reached = none
      <4>1. ~ Ready
        BY <2>2 DEF Ready
      <4> HIDE DEF none, one, walk
      <4> QED
        BY <2>2, <4>1
    <3> HIDE DEF reached, none
    <3> QED
      BY <2>1, <3>2, <3>3
  <2>3. CASE Ready
    <3>1. PICK s \in Seq(Cells) : Circle(cells, clist, s)
      BY <2>3 DEF ListInv, Ready
    <3>2. Forward = s /\ Used = Elements(s) \cup {clist}
      BY <3>1, CircleIsList
    <3>3. reached = one \o s
      BY <2>3, <3>2 DEF Ready
    <3>4. Elements(one \o s) = Elements(s) \cup {clist}
      BY <3>1, ConsParts DEF Circle
    <3> HIDE DEF reached, none, one
    <3> QED
      BY <2>1, <3>2, <3>3, <3>4
  <2>4. CASE clist # Null /\ ~ Ready
    <3>1. cursor # Null
      BY <2>4 DEF Ready
    <3>2. PICK s \in Seq(Cells) : Remains(cells, cursor, s)
      BY <2>4, <3>1 DEF ListInv
    <3>3. Used = Occupied(cells) /\ Nexts = NextsIn(cells)
      BY DEF Used, Occupied, Nexts, NextsIn
    <3>4. walk = s /\ Used = Elements(s)
      BY <3>2, <3>3, RemainsWalk DEF Remains
    <3> HIDE DEF walk
    <3>5. reached = walk
      BY <2>4
    <3> HIDE DEF reached, none, one
    <3> QED
      BY <2>1, <3>4, <3>5
  <2> QED
    BY <2>2, <2>3, <2>4
<1> QED
  BY <1>1, ListInvariant, PTL

(* What clients push at the back they get from the front, once each and in *)
(* order; a list that is being destroyed is empty for them from the start. *)
THEOREM CListIsQueue == CListSpec => IsQueue
<1>1. CListInit => ListInv /\ FifoAs!Init
  BY InitList
<1>2. ListInv /\ [CListNext]_clist_vars => ListInv' /\ [FifoAs!Next]_(FifoAs!vars)
  BY NextKeepsList DEF ListStep
<1> QED
  BY <1>1, <1>2, PTL DEF CListSpec, IsQueue, FifoAs!Spec
=============================================================================

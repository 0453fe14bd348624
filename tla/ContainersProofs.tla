---------------------------- MODULE ContainersProofs ----------------------------
(***************************************************************************)
(* Theorems about four parts of Containers, each by itself.  binary_search *)
(* finds the first equal element, or the place of a missing one, in every  *)
(* sorted array of integers; the words of a bitmap implement a set of      *)
(* positions, for every size, every set of positions that is used and      *)
(* every sequence of calls; a trie implements a dictionary, for every      *)
(* base, number of levels and set of keys, and its iterator and its nodes  *)
(* are right; a binary indexed tree makes the sums of the elements before  *)
(* each index and finds by them, for every size, width of a word and       *)
(* sequence of calls.                                                      *)
(* A trie is described by a view: for each node its level and a key by     *)
(* which it is reached, and the dictionary that the trie holds.            *)
(***************************************************************************)
EXTENDS BSearch, Bitmap, ITrie, TreeArray, DataLemmas

-----------------------------------------------------------------------------
(* utils/bsearch. *)

(* What the steps keep: the types, the order of the array, the bracket and *)
(* the answer.                                                             *)
BSearchInv ==
  /\ BSearchTypeOK
  /\ Sorted(arr, len)
  /\ Bracketed
  /\ FindsPlace

(* The middle lies strictly between the two ends.                          *)
LEMMA MidBetween ==
  ASSUME BSearchTypeOK, head + 1 < tail
  PROVE  Mid \in head + 1 .. tail - 1 /\ Mid \in 0 .. len - 1
BY MaxLenAssumption DEF BSearchTypeOK, Mid

LEMMA InitInv == BSearchInit => BSearchInv
<1> SUFFICES ASSUME BSearchInit PROVE BSearchInv
  OBVIOUS
<1>1. len = 0 /\ target = 0 /\ head = -1 /\ tail = 0 /\ answer = -1
  BY DEF BSearchInit
<1>a. DOMAIN arr = {}
  BY DEF BSearchInit
<1>2. 0 .. len - 1 = {} /\ 0 .. head = {} /\ tail .. len - 1 = {} /\ 0 .. 0 - 1 = {}
  BY <1>1
<1>3. BSearchTypeOK
  <2>1. searching \in BOOLEAN
    BY DEF BSearchInit
  <2>2. len \in 0 .. MaxLen /\ head \in -1 .. len - 1 /\ tail \in 0 .. len /\ answer \in Int
    BY <1>1, MaxLenAssumption
  <2> QED
    BY <1>1, <1>a, <1>2, <2>1, <2>2 DEF BSearchTypeOK
<1>4. Bracketed
  BY <1>1, <1>2 DEF Bracketed
<1>5. Sorted(arr, len)
  BY <1>2 DEF Sorted
<1>6. FindsPlace
  <2>1. IsPlace(0)
    BY <1>1, <1>2 DEF IsPlace
  <2>2. ~ Holds
    BY <1>2 DEF Holds
  <2>3. answer \in Int /\ answer < 0
    BY <1>1
  <2>4. -1 - answer = 0
    BY <1>1, <2>3
  <2> QED
    BY <2>1, <2>2, <2>3, <2>4 DEF FindsPlace
<1> QED
  BY <1>3, <1>4, <1>5, <1>6 DEF BSearchInv

LEMMA CallInv ==
  ASSUME BSearchInv,
         NEW n \in 0 .. MaxLen, NEW x \in Values, NEW a \in [0 .. n - 1 -> Values],
         Sorted(a, n), binary_search(n, a, x)
  PROVE  BSearchInv'
<1>1. n \in Nat /\ x \in Int /\ DOMAIN a = 0 .. n - 1 /\ \A i \in 0 .. n - 1 : a[i] \in Int
  <2>1. n \in Nat
    BY MaxLenAssumption
  <2>2. x \in Int
    BY ValuesAssumption
  <2>3. DOMAIN a = 0 .. n - 1
    OBVIOUS
  <2>4. \A i \in 0 .. n - 1 : a[i] \in Values
    OBVIOUS
  <2> QED
    BY <2>1, <2>2, <2>3, <2>4, ValuesAssumption
<1>2. len' = n /\ arr' = a /\ target' = x /\ head' = -1 /\ tail' = n /\ answer' = answer
      /\ searching' = TRUE
  BY DEF binary_search
<1>3. BSearchTypeOK'
  BY <1>1, <1>2 DEF BSearchInv, BSearchTypeOK
<1>4. Sorted(arr, len)'
  BY <1>2 DEF Sorted
<1>5. Bracketed'
  BY <1>1, <1>2 DEF Bracketed
<1>6. FindsPlace'
  BY <1>2 DEF FindsPlace
<1> QED
  BY <1>3, <1>4, <1>5, <1>6 DEF BSearchInv

LEMMA NarrowInv == BSearchInv /\ Narrow => BSearchInv'
<1> SUFFICES ASSUME BSearchInv, Narrow PROVE BSearchInv'
  OBVIOUS
<1>1. Mid \in head + 1 .. tail - 1 /\ Mid \in 0 .. len - 1
  BY MidBetween DEF BSearchInv, Narrow
<1>2. len \in 0 .. MaxLen /\ len \in Nat /\ target \in Int /\ head \in Int /\ tail \in 0 .. len
      /\ \A i \in 0 .. len - 1 : arr[i] \in Int
  BY MaxLenAssumption DEF BSearchInv, BSearchTypeOK
<1>3. len' = len /\ arr' = arr /\ target' = target /\ answer' = answer /\ searching' = searching
  BY DEF Narrow
<1>4. Sorted(arr, len)' /\ FindsPlace'
  BY <1>3 DEF BSearchInv, Narrow, Sorted, FindsPlace
<1>5. BSearchTypeOK' /\ Bracketed'
  <2>1. CASE Below(Mid)
    <3>1. head' = Mid /\ tail' = tail
      BY <2>1 DEF Narrow
    <3>2. arr[Mid] < target
      BY <1>1, <1>2, <2>1 DEF Below, cmp
    <3>3. \A i \in 0 .. Mid : arr[i] < target
      <4> SUFFICES ASSUME NEW i \in 0 .. Mid PROVE arr[i] < target
        OBVIOUS
      <4>1. i \in 0 .. len - 1 /\ i <= Mid
        BY <1>1, <1>2
      <4>2. arr[i] <= arr[Mid]
        BY <1>1, <4>1 DEF BSearchInv, Sorted
      <4> QED
        BY <1>1, <1>2, <3>2, <4>1, <4>2
    <3>4. BSearchTypeOK'
      BY <1>1, <1>2, <1>3, <3>1 DEF BSearchInv, BSearchTypeOK
    <3> QED
      BY <1>1, <1>2, <1>3, <3>1, <3>3, <3>4 DEF BSearchInv, Bracketed
  <2>2. CASE ~ Below(Mid)
    <3>1. head' = head /\ tail' = Mid
      BY <2>2 DEF Narrow
    <3>2. arr[Mid] >= target
      BY <1>1, <1>2, <2>2 DEF Below, cmp
    <3>3. \A i \in Mid .. len - 1 : arr[i] >= target
      <4> SUFFICES ASSUME NEW i \in Mid .. len - 1 PROVE arr[i] >= target
        OBVIOUS
      <4>1. i \in 0 .. len - 1 /\ Mid <= i
        BY <1>1, <1>2
      <4>2. arr[Mid] <= arr[i]
        BY <1>1, <4>1 DEF BSearchInv, Sorted
      <4> QED
        BY <1>1, <1>2, <3>2, <4>1, <4>2
    <3>4. BSearchTypeOK'
      BY <1>1, <1>2, <1>3, <3>1 DEF BSearchInv, BSearchTypeOK
    <3> QED
      BY <1>1, <1>2, <1>3, <3>1, <3>3, <3>4 DEF BSearchInv, Bracketed
  <2> QED
    BY <2>1, <2>2
<1> QED
  BY <1>4, <1>5 DEF BSearchInv

LEMMA AnswerInv == BSearchInv /\ AnswerSearch => BSearchInv'
<1> SUFFICES ASSUME BSearchInv, AnswerSearch PROVE BSearchInv'
  OBVIOUS
<1>1. len \in Nat /\ target \in Int /\ tail \in 0 .. len /\ head \in Int /\ head + 1 = tail
      /\ \A i \in 0 .. len - 1 : arr[i] \in Int
  BY MaxLenAssumption DEF BSearchInv, BSearchTypeOK, Bracketed, AnswerSearch
<1>2. len' = len /\ arr' = arr /\ target' = target /\ head' = head /\ tail' = tail
      /\ answer' = IF Missing THEN -1 - tail ELSE tail
  BY DEF AnswerSearch
<1>3. BSearchTypeOK' /\ Sorted(arr, len)' /\ Bracketed'
  <2>1. searching' \in BOOLEAN
    BY DEF AnswerSearch
  <2>2. answer' \in Int
    BY <1>1, <1>2
  <2>3. BSearchTypeOK'
    BY <1>2, <2>1, <2>2 DEF BSearchInv, BSearchTypeOK
  <2> QED
    BY <1>2, <2>3 DEF BSearchInv, Sorted, Bracketed
<1>4. IsPlace(tail)
  <2>1. 0 .. tail - 1 = 0 .. head
    BY <1>1
  <2> QED
    BY <1>1, <2>1 DEF BSearchInv, Bracketed, IsPlace
<1>5. Missing <=> ~ Holds
  <2>1. CASE tail = len
    <3>1. \A i \in 0 .. len - 1 : arr[i] < target
      BY <1>1, <1>4, <2>1 DEF IsPlace
    <3> QED
      BY <1>1, <2>1, <3>1 DEF Missing, Holds
  <2>2. CASE tail # len
    <3>1. tail \in 0 .. len - 1 /\ arr[tail] >= target
      BY <1>1, <1>4, <2>2 DEF IsPlace
    <3>2. Holds => arr[tail] = target
      <4> SUFFICES ASSUME NEW i \in 0 .. len - 1, arr[i] = target PROVE arr[tail] = target
        BY DEF Holds
      <4>1. i >= tail
        BY <1>1, <1>4 DEF IsPlace
      <4>2. arr[tail] <= arr[i]
        BY <3>1, <4>1 DEF BSearchInv, Sorted
      <4> QED
        BY <1>1, <3>1, <4>2
    <3>3. Missing <=> arr[tail] # target
      BY <1>1, <2>2, <3>1 DEF Missing, cmp
    <3> QED
      BY <3>1, <3>2, <3>3 DEF Holds
  <2> QED
    BY <2>1, <2>2
<1>6. FindsPlace'
  <2>1. Holds' = Holds /\ IsPlace(tail)'
    BY <1>2, <1>4 DEF Holds, IsPlace
  <2>2. (answer' >= 0 <=> Holds) /\ (IF answer' >= 0 THEN answer' ELSE -1 - answer') = tail'
    BY <1>1, <1>2, <1>5
  <2> QED
    BY <2>1, <2>2 DEF FindsPlace, IsPlace
<1> QED
  BY <1>3, <1>6 DEF BSearchInv

LEMMA UnchangedInv == BSearchInv /\ UNCHANGED bsearch_vars => BSearchInv'
BY DEF BSearchInv, bsearch_vars, BSearchTypeOK, Sorted, Bracketed, FindsPlace, IsPlace, Holds

LEMMA NextInv == BSearchInv /\ [BSearchNext]_bsearch_vars => BSearchInv'
<1> SUFFICES ASSUME BSearchInv, [BSearchNext]_bsearch_vars PROVE BSearchInv'
  OBVIOUS
<1>1. ASSUME NEW n \in 0 .. MaxLen, NEW x \in Values,
             NEW a \in {b \in [0 .. n - 1 -> Values] : Sorted(b, n)}, binary_search(n, a, x)
      PROVE  BSearchInv'
  BY <1>1, CallInv
<1>2. CASE BSearchLoop
  BY <1>2, NarrowInv, AnswerInv DEF BSearchLoop
<1> QED
  BY <1>1, <1>2, UnchangedInv DEF BSearchNext

(* binary_search and its loop keep the invariant. *)
THEOREM SearchInvariant == BSearchSpec => []BSearchInv
BY InitInv, NextInv, PTL DEF BSearchSpec

(* The loop reads only inside the array. *)
THEOREM SearchTypes == BSearchSpec => []BSearchTypeOK
<1>1. BSearchInv => BSearchTypeOK
  BY DEF BSearchInv
<1> QED
  BY <1>1, SearchInvariant, PTL

(* binary_search answers the first equal element or the place of one. *)
THEOREM SearchFindsPlace == BSearchSpec => []FindsPlace
<1>1. BSearchInv => FindsPlace
  BY DEF BSearchInv
<1> QED
  BY <1>1, SearchInvariant, PTL

(* binary_search_insert_pos is right about every answer but 0, which is    *)
(* where the run InsertPos finds it wrong.                                 *)
THEOREM SearchInsertPos ==
  BSearchSpec => [](~searching /\ answer # 0 => IsPlace(insert_pos(answer)))
<1>1. BSearchInv => (~searching /\ answer # 0 => IsPlace(insert_pos(answer)))
  <2> SUFFICES ASSUME BSearchInv, ~searching, answer # 0 PROVE IsPlace(insert_pos(answer))
    OBVIOUS
  <2>1. answer \in Int
    BY DEF BSearchInv, BSearchTypeOK
  <2>2. IsPlace(IF answer >= 0 THEN answer ELSE -1 - answer)
    BY DEF BSearchInv, FindsPlace
  <2>3. insert_pos(answer) = IF answer >= 0 THEN answer ELSE -1 - answer
    BY <2>1 DEF insert_pos
  <2> QED
    BY <2>2, <2>3
<1> QED
  BY <1>1, SearchInvariant, PTL

(* Every iteration leaves less to look at: the loop cannot run for ever. *)
THEOREM SearchGetsShorter == BSearchSpec => SearchShrinks
<1>1. BSearchInv /\ [BSearchNext]_bsearch_vars
      => [searching /\ searching' => tail' - head' < tail - head]_bsearch_vars
  <2> SUFFICES ASSUME BSearchInv, BSearchNext, searching, searching'
               PROVE  tail' - head' < tail - head
    BY DEF bsearch_vars
  <2>1. Narrow
    BY DEF BSearchNext, BSearchLoop, binary_search, AnswerSearch
  <2>2. Mid \in head + 1 .. tail - 1 /\ head \in Int /\ tail \in Int
    BY <2>1, MidBetween DEF BSearchInv, BSearchTypeOK, Narrow
  <2> QED
    BY <2>1, <2>2 DEF Narrow
<1> QED
  BY <1>1, SearchInvariant, PTL DEF BSearchSpec, SearchShrinks

-----------------------------------------------------------------------------
(* container/bitmap. *)

LEMMA NumWordsNat == ASSUME NEW n \in Nat PROVE NumWords(n) \in Nat
BY DEF NumWords

(* A position is a word and a bit of it, and back.                         *)
LEMMA Split ==
  ASSUME NEW p \in Nat
  PROVE  /\ p \div 32 \in Nat /\ p % 32 \in Word
         /\ p = 32 * (p \div 32) + (p % 32)
BY DEF Word

LEMMA SamePlace ==
  ASSUME NEW p \in Nat, NEW q \in Nat, p \div 32 = q \div 32, p % 32 = q % 32
  PROVE  p = q
BY Split

LEMMA Join ==
  ASSUME NEW i \in Nat, NEW b \in Word
  PROVE  (32 * i + b) \div 32 = i /\ (32 * i + b) % 32 = b
BY DEF Word

LEMMA HasIsBelowRoom ==
  ASSUME BitmapTypeOK, NEW p \in Nat
  PROVE  Has(p) <=> p < Room
<1> DEFINE n == NumWords(bm_size)
<1>1. n \in Nat /\ DOMAIN words = 0 .. n - 1 /\ Room = 32 * n
  BY NumWordsNat DEF BitmapTypeOK, Room
<1> HIDE DEF n
<1>2. p \div 32 < n <=> p < 32 * n
  BY <1>1
<1> QED
  BY <1>1, <1>2, Split DEF Has

LEMMA RoomNat == BitmapTypeOK => Room \in Nat
BY NumWordsNat DEF BitmapTypeOK, Room

-----------------------------------------------------------------------------
(* Powers of two and the least one that is no less than a number. *)
LEMMA Pow2Steps ==
  /\ Pow2 \in [Nat -> Nat \ {0}]
  /\ Pow2[0] = 1 /\ \A k \in Nat : Pow2[k + 1] = 2 * Pow2[k]
<1> DEFINE S == Nat \ {0}
           first == 1
           double == [x \in S |-> 2 * x]
           Body(g) == [k \in Nat |-> IF k = 0 THEN 1 ELSE 2 * g[k - 1]]
<1>1. first \in S /\ double \in [S -> S]
  OBVIOUS
<1>2. PICK f \in [Nat -> S] : f[0] = first /\ \A k \in Nat : f[k + 1] = double[f[k]]
  <2> HIDE DEF S, double, first
  <2> QED
    BY <1>1, Iteration
<1>3. f = Body(f)
  <2> SUFFICES ASSUME NEW k \in Nat PROVE f[k] = IF k = 0 THEN 1 ELSE 2 * f[k - 1]
    BY <1>2
  <2>1. CASE k # 0
    <3>1. k - 1 \in Nat /\ (k - 1) + 1 = k
      BY <2>1
    <3>2. f[(k - 1) + 1] = 2 * f[k - 1]
      BY <1>2, <3>1
    <3> QED
      BY <2>1, <3>1, <3>2
  <2> QED
    BY <1>2, <2>1
<1>4. Pow2 = Body(Pow2)
  <2>1. Pow2 = CHOOSE g : g = Body(g)
    BY DEF Pow2
  <2> HIDE DEF Body
  <2> QED
    BY <1>3, <2>1
<1>5. \A k \in Nat : Pow2[k] = IF k = 0 THEN 1 ELSE 2 * Pow2[k - 1]
  BY <1>4
<1>6. \A k \in Nat : Pow2[k + 1] = 2 * Pow2[k]
  <2> TAKE k \in Nat
  <2>1. k + 1 \in Nat /\ k + 1 # 0 /\ (k + 1) - 1 = k
    OBVIOUS
  <2> QED
    BY <1>5, <2>1
<1>7. \A k \in Nat : Pow2[k] \in S
  <2> DEFINE T == {k \in Nat : Pow2[k] \in S}
  <2>1. 0 \in T
    BY <1>5
  <2>2. ASSUME NEW k \in Nat, k \in T PROVE k + 1 \in T
    BY <1>6, <2>2
  <2>3. Nat \subseteq T
    <3> HIDE DEF T
    <3> QED
      BY <2>1, <2>2, NatSetInduction
  <2> QED
    BY <2>3
<1>8. Pow2 = [k \in Nat |-> Pow2[k]]
  BY <1>4
<1> QED
  BY <1>5, <1>6, <1>7, <1>8

LEMMA Pow2Grows ==
  ASSUME NEW j \in Nat, NEW k \in Nat, j <= k
  PROVE  Pow2[j] <= Pow2[k]
<1> DEFINE T == {d \in Nat : Pow2[j] <= Pow2[j + d]}
<1>1. 0 \in T
  BY Pow2Steps
<1>2. ASSUME NEW d \in Nat, d \in T PROVE d + 1 \in T
  <2>1. Pow2[(j + d) + 1] = 2 * Pow2[j + d] /\ Pow2[j + d] \in Nat /\ Pow2[j] \in Nat
    BY Pow2Steps
  <2>2. (j + d) + 1 = j + (d + 1)
    OBVIOUS
  <2> QED
    BY <1>2, <2>1, <2>2
<1>3. Nat \subseteq T
  <2> HIDE DEF T
  <2> QED
    BY <1>1, <1>2, NatSetInduction
<1>4. k - j \in Nat /\ j + (k - j) = k
  OBVIOUS
<1> QED
  BY <1>3, <1>4

LEMMA Pow2Small ==
  /\ Pow2[1] = 2 /\ Pow2[2] = 4 /\ Pow2[3] = 8 /\ Pow2[4] = 16 /\ Pow2[5] = 32
<1>1. 0 + 1 = 1 /\ 1 + 1 = 2 /\ 2 + 1 = 3 /\ 3 + 1 = 4 /\ 4 + 1 = 5
  OBVIOUS
<1>2. Pow2[1] = 2
  BY <1>1, Pow2Steps
<1>3. Pow2[2] = 4
  BY <1>1, <1>2, Pow2Steps
<1>4. Pow2[3] = 8
  BY <1>1, <1>3, Pow2Steps
<1>5. Pow2[4] = 16
  BY <1>1, <1>4, Pow2Steps
<1>6. Pow2[5] = 32
  BY <1>1, <1>5, Pow2Steps
<1> QED
  BY <1>2, <1>3, <1>4, <1>5, <1>6

(* From 32 on they fill whole words. *)
LEMMA Pow2Words ==
  ASSUME NEW k \in Nat, k >= 5
  PROVE  32 * NumWords(Pow2[k]) = Pow2[k]
<1> DEFINE T == {d \in Nat : \E m \in Nat : Pow2[5 + d] = 32 * m}
<1>1. 0 \in T
  <2>1. Pow2[5 + 0] = 32 * 1
    BY Pow2Small
  <2> QED
    BY <2>1
<1>2. ASSUME NEW d \in Nat, d \in T PROVE d + 1 \in T
  <2>1. PICK m \in Nat : Pow2[5 + d] = 32 * m
    BY <1>2
  <2>2. 5 + d \in Nat /\ (5 + d) + 1 = 5 + (d + 1)
    OBVIOUS
  <2>3. Pow2[5 + (d + 1)] = 32 * (2 * m)
    BY <2>1, <2>2, Pow2Steps
  <2>4. \E n \in Nat : Pow2[5 + (d + 1)] = 32 * n
    <3>1. 2 * m \in Nat
      OBVIOUS
    <3> HIDE DEF T
    <3> QED
      BY <2>3, <3>1, Zenon
  <2>5. d + 1 \in Nat
    OBVIOUS
  <2> QED
    BY <2>4, <2>5, Zenon
<1>3. Nat \subseteq T
  <2> HIDE DEF T
  <2> QED
    BY <1>1, <1>2, NatSetInduction
<1>4. k - 5 \in Nat /\ 5 + (k - 5) = k
  OBVIOUS
<1>5. PICK m \in Nat : Pow2[k] = 32 * m
  BY <1>3, <1>4
<1> QED
  BY <1>5 DEF NumWords

LEMMA WideParts ==
  /\ Wide \in Nat /\ Wide \div 2 = Pow2[UintBits - 1] /\ Wide = 2 * Pow2[UintBits - 1]
  /\ Wide \div 2 >= 32 /\ Wide > 32
<1>1. UintBits - 1 \in Nat /\ (UintBits - 1) + 1 = UintBits /\ 5 <= UintBits - 1 /\ 5 \in Nat
  BY UintBitsAssumption
<1>2. Pow2[UintBits] = 2 * Pow2[UintBits - 1] /\ Pow2[UintBits - 1] \in Nat
  BY <1>1, Pow2Steps
<1>3. Pow2[UintBits - 1] >= 32
  BY <1>1, Pow2Grows, Pow2Small
<1> QED
  BY <1>2, <1>3 DEF Wide

(* A number that is not above Wide has a next power. *)
LEMMA NextPower ==
  ASSUME NEW v \in Nat, v # 0, v <= Wide
  PROVE  \E k \in 0 .. UintBits :
           /\ Pow2[k] >= v /\ \A j \in 0 .. UintBits : Pow2[j] >= v => Pow2[k] <= Pow2[j]
           /\ next_pow_u32(v) = Pow2[k] % Wide
<1> DEFINE Is(p) == p \in PowersOfTwo /\ p >= v /\ \A q \in PowersOfTwo : q >= v => p <= q
           p == CHOOSE x : Is(x)
<1>1. \E x : Is(x)
  <2> SUFFICES ASSUME \A x : ~ Is(x) PROVE FALSE
    OBVIOUS
  <2> DEFINE T == {k \in Nat : k <= UintBits => Pow2[k] < v}
  <2>1. ASSUME NEW k \in Nat, \A j \in 0 .. k - 1 : j <= UintBits => Pow2[j] < v
        PROVE  k <= UintBits => Pow2[k] < v
    <3> SUFFICES ASSUME k <= UintBits, ~ (Pow2[k] < v) PROVE FALSE
      OBVIOUS
    <3>1. k \in 0 .. UintBits /\ Pow2[k] \in Nat /\ Pow2[k] >= v
      BY UintBitsAssumption, Pow2Steps
    <3>2. ASSUME NEW j \in 0 .. UintBits, Pow2[j] >= v PROVE Pow2[k] <= Pow2[j]
      <4>1. j \in Nat /\ Pow2[j] \in Nat
        BY UintBitsAssumption, Pow2Steps
      <4>2. ~ (j \in 0 .. k - 1)
        BY <2>1, <3>2, <4>1, UintBitsAssumption
      <4>3. k <= j
        BY <4>1, <4>2
      <4> QED
        BY <4>1, <4>3, Pow2Grows
    <3>3. Is(Pow2[k])
      BY <3>1, <3>2 DEF PowersOfTwo
    <3> QED
      BY <3>3
  <2> DEFINE U == {k \in Nat : \A j \in 0 .. k - 1 : j <= UintBits => Pow2[j] < v}
  <2>2. 0 \in U
    OBVIOUS
  <2>3. ASSUME NEW k \in Nat, k \in U PROVE k + 1 \in U
    <3>1. \A j \in 0 .. (k + 1) - 1 : j \in 0 .. k - 1 \/ j = k
      OBVIOUS
    <3>2. \A j \in 0 .. k - 1 : j <= UintBits => Pow2[j] < v
      BY <2>3
    <3>3. k <= UintBits => Pow2[k] < v
      BY <2>1, <3>2
    <3> QED
      BY <3>1, <3>2, <3>3
  <2>4. Nat \subseteq U
    <3> HIDE DEF U
    <3> QED
      BY <2>2, <2>3, NatSetInduction
  <2>5. UintBits + 1 \in U /\ UintBits \in 0 .. (UintBits + 1) - 1
    BY <2>4, UintBitsAssumption
  <2>6. Pow2[UintBits] < v
    BY <2>5, UintBitsAssumption
  <2> QED
    BY <2>6, WideParts DEF Wide
<1>2. Is(p)
  <2> HIDE DEF Is
  <2> QED
    BY <1>1
<1>3. next_pow_u32(v) = p % Wide
  <2>1. p = CHOOSE x \in PowersOfTwo : x >= v /\ \A q \in PowersOfTwo : q >= v => x <= q
    OBVIOUS
  <2> QED
    BY <2>1 DEF next_pow_u32
<1> HIDE DEF p
<1>4. PICK k \in 0 .. UintBits : p = Pow2[k]
  BY <1>2 DEF PowersOfTwo
<1> QED
  BY <1>2, <1>3, <1>4 DEF PowersOfTwo

LEMMA MapSizeNat == ASSUME NEW size \in Nat PROVE MapSize(size) \in Nat
<1> DEFINE w == IF size <= 32 THEN 32 ELSE size
           v == w % Wide
<1>1. w \in Nat /\ Wide \in Nat \ {0}
  BY WideParts
<1> HIDE DEF w
<1>2. v \in 0 .. Wide - 1
  BY <1>1
<1>3. MapSize(size) = next_pow_u32(v)
  BY DEF MapSize, w
<1> HIDE DEF v
<1>4. CASE v = 0
  BY <1>3, <1>4 DEF next_pow_u32
<1>5. CASE v # 0
  <2>1. v \in Nat /\ v <= Wide
    BY <1>1, <1>2
  <2>2. PICK k \in 0 .. UintBits : next_pow_u32(v) = Pow2[k] % Wide
    BY <1>5, <2>1, NextPower
  <2>3. Pow2[k] \in Nat
    BY Pow2Steps, UintBitsAssumption
  <2> QED
    BY <1>1, <1>3, <2>2, <2>3
<1> QED
  BY <1>4, <1>5

-----------------------------------------------------------------------------
LEMMA InitTypes == BitmapInit => BitmapTypeOK
BY DEF BitmapInit, BitmapTypeOK, NumWords

(* The array keeps its length when some of its words change to words.      *)
LEMMA WordsChange ==
  ASSUME BitmapTypeOK, bm_size' = bm_size, DOMAIN words' = DOMAIN words,
         \A i \in DOMAIN words : words'[i] \subseteq Word
  PROVE  BitmapTypeOK'
BY DEF BitmapTypeOK

LEMMA NextTypes == BitmapTypeOK /\ [BitmapNext]_bitmap_vars => BitmapTypeOK'
<1> SUFFICES ASSUME BitmapTypeOK, [BitmapNext]_bitmap_vars PROVE BitmapTypeOK'
  OBVIOUS
<1>1. ASSUME NEW size \in BitmapSizes, bitmap_create(size) PROVE BitmapTypeOK'
  <2>1. bm_size' \in Nat
    BY <1>1, BitmapSizesAssumption, MapSizeNat DEF bitmap_create
  <2>2. words' = [i \in 0 .. NumWords(bm_size') - 1 |-> {}]
    BY <1>1 DEF bitmap_create
  <2> QED
    BY <2>1, <2>2 DEF BitmapTypeOK
<1>2. ASSUME NEW pos \in Positions, bitmap_set(pos) PROVE BitmapTypeOK'
  <2>1. pos % 32 \in Word
    BY Split, PositionsAssumption
  <2>2. bm_size' = bm_size /\ words' = [words EXCEPT ![pos \div 32] = @ \cup {pos % 32}]
    BY <1>2 DEF bitmap_set
  <2> QED
    BY <2>1, <2>2, WordsChange DEF BitmapTypeOK
<1>3. ASSUME NEW pos \in Nat, words' = Cleared(pos), bm_size' = bm_size PROVE BitmapTypeOK'
  BY <1>3, WordsChange DEF BitmapTypeOK, Cleared
<1>4. ASSUME NEW w \in SUBSET Word, words' = FillWords(w), bm_size' = bm_size PROVE BitmapTypeOK'
  BY <1>4, WordsChange DEF BitmapTypeOK, FillWords
<1>5. ASSUME bm_size' = bm_size, words' = words PROVE BitmapTypeOK'
  BY <1>5 DEF BitmapTypeOK
<1>6. ASSUME NEW pos \in Positions, bitmap_unset(pos) \/ bitmap_get(pos) PROVE BitmapTypeOK'
  BY <1>3, <1>5, <1>6, PositionsAssumption DEF bitmap_unset, bitmap_get
<1>7. CASE bitmap_set_all \/ bitmap_unset_all
  BY <1>4, <1>7 DEF bitmap_set_all, bitmap_unset_all
<1>8. CASE bitmap_pop
  BY <1>3, <1>5, <1>8 DEF bitmap_pop, PopPastEnd, PopFound, Word
<1>9. CASE UNCHANGED bitmap_vars
  BY <1>5, <1>9 DEF bitmap_vars
<1> QED
  BY <1>1, <1>2, <1>6, <1>7, <1>8, <1>9 DEF BitmapNext

(* The array has the words of its size whatever the calls. *)
THEOREM BitmapTypes == BitmapSpec => []BitmapTypeOK
BY InitTypes, NextTypes, PTL DEF BitmapSpec

-----------------------------------------------------------------------------
(* What the changes of the words do to the set of positions.               *)

LEMMA WordsOfBits ==
  ASSUME BitmapTypeOK, NEW p \in Nat
  PROVE  p \in Bits <=> Has(p) /\ IsSet(p)
BY HasIsBelowRoom, RoomNat DEF Bits

LEMMA BitsBelowRoom ==
  ASSUME BitmapTypeOK, NEW p \in Bits
  PROVE  p \in Nat /\ p < Room
BY RoomNat DEF Bits

LEMMA SetAdds ==
  ASSUME BitmapTypeOK, NEW pos \in Positions, bitmap_set(pos)
  PROVE  pos < Room /\ Bits' = Bits \cup {pos} /\ Room' = Room
<1>1. pos \in Nat /\ pos % 32 \in Word /\ Has(pos)
  BY PositionsAssumption, Split DEF bitmap_set
<1>2. bm_size' = bm_size /\ words' = [words EXCEPT ![pos \div 32] = @ \cup {pos % 32}]
  BY DEF bitmap_set
<1>3. Room' = Room /\ pos < Room
  BY <1>1, <1>2, HasIsBelowRoom DEF Room
<1>4. ASSUME NEW q \in Nat, Has(q)
      PROVE  IsSet(q)' <=> IsSet(q) \/ q = pos
  BY <1>1, <1>2, <1>4, SamePlace DEF IsSet, Has
<1>5. Bits' = {q \in 0 .. Room - 1 : IsSet(q)'}
  BY <1>3 DEF Bits
<1>6. ASSUME NEW q \in 0 .. Room - 1 PROVE IsSet(q)' <=> IsSet(q) \/ q = pos
  BY <1>4, <1>6, HasIsBelowRoom, RoomNat
<1> QED
  BY <1>1, <1>3, <1>5, <1>6, RoomNat DEF Bits

LEMMA ClearTakesOut ==
  ASSUME BitmapTypeOK, NEW pos \in Nat, Has(pos), words' = Cleared(pos), bm_size' = bm_size
  PROVE  pos < Room /\ Bits' = Bits \ {pos} /\ Room' = Room
<1>1. Room' = Room /\ pos < Room
  BY HasIsBelowRoom DEF Room
<1>2. ASSUME NEW q \in 0 .. Room - 1
      PROVE  IsSet(q)' <=> IsSet(q) /\ q # pos
  <2>1. q \in Nat /\ Has(q)
    BY <1>2, HasIsBelowRoom, RoomNat
  <2> QED
    BY <2>1, SamePlace DEF IsSet, Has, Cleared
<1>3. Bits' = {q \in 0 .. Room - 1 : IsSet(q)'}
  BY <1>1 DEF Bits
<1> QED
  BY <1>1, <1>2, <1>3 DEF Bits

LEMMA FillSets ==
  ASSUME BitmapTypeOK, NEW w \in {Word, {}}, words' = FillWords(w), bm_size' = bm_size
  PROVE  Bits' = (IF w = {} THEN {} ELSE 0 .. Room - 1) /\ Room' = Room
<1>1. Room' = Room
  BY DEF Room
<1>2. ASSUME NEW q \in 0 .. Room - 1
      PROVE  IsSet(q)' <=> w # {}
  <2>1. q \in Nat /\ Has(q) /\ q % 32 \in Word
    BY <1>2, HasIsBelowRoom, RoomNat, Split
  <2>2. words'[q \div 32] = w
    BY <2>1, NumWordsNat DEF Has, FillWords, BitmapTypeOK
  <2> QED
    BY <2>1, <2>2 DEF IsSet
<1>3. Bits' = {q \in 0 .. Room - 1 : IsSet(q)'}
  BY <1>1 DEF Bits
<1> QED
  BY <1>1, <1>2, <1>3

LEMMA SameBits ==
  ASSUME words' = words, bm_size' = bm_size
  PROVE  Bits' = Bits /\ Room' = Room
BY DEF Bits, Room, IsSet

LEMMA NewIsEmpty ==
  ASSUME BitmapTypeOK', NEW n, words' = [i \in 0 .. n - 1 |-> {}], n = NumWords(bm_size')
  PROVE  Bits' = {} /\ Room' \in Nat
<1>1. Room' \in Nat
  BY NumWordsNat DEF BitmapTypeOK, Room
<1>2. \A i \in DOMAIN words' : words'[i] = {}
  OBVIOUS
<1>3. \A p \in 0 .. Room' - 1 : (p \div 32) \in DOMAIN words'
  <2> DEFINE m == NumWords(bm_size')
  <2>1. m \in Nat /\ Room' = 32 * m /\ DOMAIN words' = 0 .. m - 1
    BY NumWordsNat DEF BitmapTypeOK, Room
  <2> HIDE DEF m
  <2> SUFFICES ASSUME NEW p \in 0 .. Room' - 1 PROVE p \div 32 \in 0 .. m - 1
    BY <2>1
  <2> QED
    BY <2>1
<1> QED
  BY <1>1, <1>2, <1>3 DEF Bits, IsSet

-----------------------------------------------------------------------------
(* Initial states and steps of the bitmap are initial states and steps of  *)
(* the set.                                                                *)

LEMMA SetInit == BitmapInit => BitsAs!Init
<1> SUFFICES ASSUME BitmapInit PROVE BitsAs!Init
  OBVIOUS
<1>1. Room = 0
  BY DEF BitmapInit, Room, NumWords
<1>2. Bits = {}
  BY <1>1 DEF Bits
<1>3. bm_ret = [op |-> "none", at |-> NoPos, val |-> 0]
  BY DEF BitmapInit
<1> QED
  BY <1>1, <1>2, <1>3 DEF BitsAs!Init, BitsAs!Answer, BitsAs!NoPos, NoPos

LEMMA IsSetMember ==
  ASSUME BitmapTypeOK, NEW pos \in Positions, Has(pos)
  PROVE  pos < Room /\ (IsSet(pos) <=> pos \in Bits)
BY HasIsBelowRoom, WordsOfBits, PositionsAssumption

LEMMA StepCreate ==
  ASSUME BitmapTypeOK, NEW size \in BitmapSizes, bitmap_create(size)
  PROVE  BitsAs!Create
<1>1. BitmapTypeOK'
  BY NextTypes DEF BitmapNext
<1>2. words' = [i \in 0 .. NumWords(bm_size') - 1 |-> {}]
  BY DEF bitmap_create
<1>3. Bits' = {} /\ Room' \in Nat
  BY <1>1, <1>2, NewIsEmpty
<1>4. bm_ret' = [op |-> "create", at |-> NoPos, val |-> 0]
  BY DEF bitmap_create, Answered
<1> QED
  BY <1>3, <1>4 DEF BitsAs!Create, BitsAs!Answer, BitsAs!NoPos, NoPos

LEMMA StepSet ==
  ASSUME BitmapTypeOK, NEW pos \in Positions, bitmap_set(pos)
  PROVE  BitsAs!Add(pos)
<1>1. pos < Room /\ Bits' = Bits \cup {pos} /\ Room' = Room
  BY SetAdds
<1>2. bm_ret' = [op |-> "set", at |-> pos, val |-> IF pos \notin Bits THEN 1 ELSE 0]
  BY IsSetMember DEF bitmap_set, Answered, Bool
<1> QED
  BY <1>1, <1>2 DEF BitsAs!Add, BitsAs!Answer, BitsAs!NoPos, NoPos, BitsAs!Bool

LEMMA StepUnset ==
  ASSUME BitmapTypeOK, NEW pos \in Positions, bitmap_unset(pos)
  PROVE  BitsAs!TakeOut(pos)
<1>1. pos < Room /\ Bits' = Bits \ {pos} /\ Room' = Room
  BY ClearTakesOut, PositionsAssumption DEF bitmap_unset
<1>2. bm_ret' = [op |-> "unset", at |-> pos, val |-> IF pos \in Bits THEN 1 ELSE 0]
  BY IsSetMember DEF bitmap_unset, Answered, Bool
<1> QED
  BY <1>1, <1>2 DEF BitsAs!TakeOut, BitsAs!Answer, BitsAs!NoPos, NoPos, BitsAs!Bool

LEMMA StepGet ==
  ASSUME BitmapTypeOK, NEW pos \in Positions, bitmap_get(pos)
  PROVE  BitsAs!Get(pos)
<1>1. Bits' = Bits /\ Room' = Room
  BY SameBits DEF bitmap_get
<1>2. pos < Room /\ bm_ret' = [op |-> "get", at |-> pos, val |-> IF pos \in Bits THEN 1 ELSE 0]
  BY IsSetMember DEF bitmap_get, Answered, Bool
<1> QED
  BY <1>1, <1>2 DEF BitsAs!Get, BitsAs!Answer, BitsAs!NoPos, NoPos, BitsAs!Bool

LEMMA StepSetAll ==
  ASSUME BitmapTypeOK, bitmap_set_all PROVE BitsAs!AddAll
<1>1. Word # {} /\ Word \in {Word, {}}
  BY DEF Word
<1>2. Bits' = 0 .. Room - 1 /\ Room' = Room
  BY <1>1, FillSets DEF bitmap_set_all
<1>3. bm_ret' = [op |-> "set_all", at |-> NoPos, val |-> 0]
  BY DEF bitmap_set_all, Answered
<1> QED
  BY <1>2, <1>3 DEF BitsAs!AddAll, BitsAs!Answer, BitsAs!NoPos, NoPos

LEMMA StepUnsetAll ==
  ASSUME BitmapTypeOK, bitmap_unset_all PROVE BitsAs!TakeOutAll
<1>1. Bits' = {} /\ Room' = Room
  BY FillSets DEF bitmap_unset_all
<1>2. bm_ret' = [op |-> "unset_all", at |-> NoPos, val |-> 0]
  BY DEF bitmap_unset_all, Answered
<1> QED
  BY <1>1, <1>2 DEF BitsAs!TakeOutAll, BitsAs!Answer, BitsAs!NoPos, NoPos

(* The first word has the bit: it is the least position of the set.        *)
LEMMA StepPopFirst ==
  ASSUME BitmapTypeOK, NEW pos \in Word, PopFound(0, pos), 0 \in DOMAIN words
  PROVE  pos \in Bits /\ BitsAs!PopLeast(pos)
<1>1. pos \in Nat /\ pos \div 32 = 0 /\ pos % 32 = pos /\ pos < 32
  BY DEF Word
<1>2. Has(pos) /\ IsSet(pos)
  BY <1>1 DEF Has, IsSet, PopFound, IsFirstOne
<1>3. pos \in Bits
  BY <1>1, <1>2, WordsOfBits
<1>4. Bits' = Bits \ {pos} /\ Room' = Room
  BY <1>1, <1>2, ClearTakesOut DEF PopFound
<1>5. ASSUME NEW q \in Bits PROVE pos <= q
  <2>1. q \in Nat /\ IsSet(q)
    BY BitsBelowRoom DEF Bits
  <2>2. CASE q < 32
    <3>1. q \div 32 = 0 /\ q % 32 = q
      BY <2>1, <2>2
    <3> QED
      BY <2>1, <3>1 DEF IsSet, PopFound, IsFirstOne
  <2>3. CASE q >= 32
    BY <1>1, <2>1, <2>3
  <2> QED
    BY <2>1, <2>2, <2>3
<1>6. bm_ret' = [op |-> "pop", at |-> NoPos, val |-> pos]
  BY DEF PopFound, Answered
<1> QED
  BY <1>1, <1>3, <1>4, <1>5, <1>6 DEF BitsAs!PopLeast, BitsAs!Answer, BitsAs!NoPos, NoPos

(* The first word is empty: nothing changes.                               *)
LEMMA StepPopNothing ==
  ASSUME BitmapTypeOK, Bits' = Bits, Room' = Room,
         \A i \in DOMAIN words : i = 0 => words[i] = {},
         NEW pos \in -1 .. 31, bm_ret' = [op |-> "pop", at |-> NoPos, val |-> pos]
  PROVE  BitsAs!PopNothing
<1>2. ASSUME NEW q \in Bits PROVE q >= 32
  <2>1. q \in Nat /\ IsSet(q) /\ Has(q)
    BY BitsBelowRoom, HasIsBelowRoom DEF Bits
  <2>2. CASE q < 32
    <3>1. q \div 32 = 0
      BY <2>1, <2>2
    <3> QED
      BY <2>1, <3>1 DEF IsSet, Has
  <2> QED
    BY <2>1, <2>2
<1> QED
  BY <1>2 DEF BitsAs!PopNothing, BitsAs!Answer, BitsAs!NoPos, NoPos

LEMMA StepPopLater ==
  ASSUME BitmapTypeOK, NEW i \in DOMAIN words, i # 0, NEW pos \in Word, PopFound(i, pos)
  PROVE  BitsAs!PopNothing
<1>1. NumWords(bm_size) \in Nat /\ DOMAIN words = 0 .. NumWords(bm_size) - 1
  BY NumWordsNat DEF BitmapTypeOK
<1>2. i \in Nat /\ 0 < i /\ 0 \in DOMAIN words
  BY <1>1
<1>3. words[0] = {}
  BY <1>2 DEF PopFound
<1>4. pos \in Nat /\ pos \div 32 = 0 /\ pos \in -1 .. 31
  BY DEF Word
<1>5. Bits' = Bits \ {pos} /\ Room' = Room
  BY <1>2, <1>4, ClearTakesOut DEF PopFound, Has
<1>6. pos \notin Bits
  BY <1>3, <1>4, WordsOfBits DEF IsSet
<1>7. Bits' = Bits
  BY <1>5, <1>6
<1> QED
  BY <1>3, <1>4, <1>5, <1>7, StepPopNothing DEF PopFound, Answered

LEMMA StepPop ==
  ASSUME BitmapTypeOK, bitmap_pop
  PROVE  BitsAs!PopNothing \/ \E p \in Bits : BitsAs!PopLeast(p)
<1>1. CASE PopPastEnd
  BY <1>1, SameBits, StepPopNothing DEF PopPastEnd, Answered
<1>2. ASSUME NEW i \in DOMAIN words, NEW pos \in Word, PopFound(i, pos)
      PROVE  BitsAs!PopNothing \/ \E p \in Bits : BitsAs!PopLeast(p)
  BY <1>2, StepPopFirst, StepPopLater
<1> QED
  BY <1>1, <1>2 DEF bitmap_pop

LEMMA SetNext ==
  BitmapTypeOK /\ [BitmapNext]_bitmap_vars => [BitsAs!Next]_(BitsAs!vars)
<1> SUFFICES ASSUME BitmapTypeOK, [BitmapNext]_bitmap_vars
             PROVE  [BitsAs!Next]_(BitsAs!vars)
  OBVIOUS
<1>1. CASE BitmapNext
  <2>1. ASSUME NEW pos \in Positions, bitmap_set(pos) \/ bitmap_unset(pos) \/ bitmap_get(pos)
        PROVE  BitsAs!Next
    BY <2>1, StepSet, StepUnset, StepGet DEF BitsAs!Next
  <2>2. ASSUME NEW size \in BitmapSizes, bitmap_create(size) PROVE BitsAs!Next
    BY <2>2, StepCreate DEF BitsAs!Next
  <2>3. CASE bitmap_set_all \/ bitmap_unset_all \/ bitmap_pop
    BY <2>3, StepSetAll, StepUnsetAll, StepPop DEF BitsAs!Next
  <2> QED
    BY <1>1, <2>1, <2>2, <2>3 DEF BitmapNext
<1>2. CASE UNCHANGED bitmap_vars
  BY <1>2, SameBits DEF bitmap_vars, BitsAs!vars
<1> QED
  BY <1>1, <1>2

(* A bitmap is a set of positions: every call answers and does what the    *)
(* abstract set does, and a pop that finds its bit in a later word than    *)
(* the first changes nothing.                                              *)
THEOREM BitmapIsBitSet == BitmapSpec => IsBitSet
<1>1. BitmapInit => BitsAs!Init
  BY SetInit
<1>2. BitmapTypeOK /\ [BitmapNext]_bitmap_vars => [BitsAs!Next]_(BitsAs!vars)
  BY SetNext
<1> QED
  BY <1>1, <1>2, BitmapTypes, PTL DEF BitmapSpec, IsBitSet, BitsAs!Spec

-----------------------------------------------------------------------------
LEMMA SizeHasRoom ==
  ASSUME NEW size \in Nat
  PROVE  /\ size <= Wide \div 2 => size <= 32 * NumWords(MapSize(size))
         /\ size \in (Wide \div 2) + 1 .. Wide => MapSize(size) = 0
<1> DEFINE w == IF size <= 32 THEN 32 ELSE size
           H == Pow2[UintBits - 1]
<1>1. H \in Nat /\ Wide \div 2 = H /\ Wide = 2 * H /\ H >= 32 /\ UintBits - 1 \in 0 .. UintBits
  BY WideParts, UintBitsAssumption, Pow2Steps
<1> HIDE DEF H
<1>2. MapSize(size) = next_pow_u32(w % Wide) /\ w \in Nat /\ w >= size /\ w >= 32
  BY DEF MapSize
<1>3. ASSUME size <= H PROVE size <= 32 * NumWords(MapSize(size))
  <2>1. w <= H /\ w % Wide = w /\ w # 0 /\ w <= Wide
    BY <1>1, <1>2, <1>3
  <2> HIDE DEF w
  <2>2. PICK k \in 0 .. UintBits :
          /\ Pow2[k] >= w /\ \A j \in 0 .. UintBits : Pow2[j] >= w => Pow2[k] <= Pow2[j]
          /\ next_pow_u32(w) = Pow2[k] % Wide
    BY <1>2, <2>1, NextPower
  <2>3. k \in Nat /\ Pow2[k] \in Nat
    BY UintBitsAssumption, Pow2Steps
  <2>4. Pow2[k] <= H
    BY <1>1, <1>2, <2>1, <2>2 DEF H
  <2>5. Pow2[k] % Wide = Pow2[k]
    BY <1>1, <2>3, <2>4
  <2>6. k >= 5
    <3> SUFFICES ASSUME k < 5 PROVE FALSE
      BY <2>3
    <3>1. k <= 4 /\ 4 \in Nat
      BY <2>3
    <3>2. Pow2[k] <= 16
      BY <2>3, <3>1, Pow2Grows, Pow2Small
    <3> QED
      BY <1>2, <2>2, <2>3, <3>2
  <2>7. 32 * NumWords(Pow2[k]) = Pow2[k]
    BY <2>3, <2>6, Pow2Words
  <2>8. MapSize(size) = Pow2[k]
    BY <1>2, <2>1, <2>2, <2>5
  <2> QED
    BY <1>2, <2>2, <2>3, <2>7, <2>8
<1>4. ASSUME size \in H + 1 .. Wide PROVE MapSize(size) = 0
  <2>1. w = size
    BY <1>1, <1>4
  <2>2. CASE size = Wide
    <3>1. w % Wide = 0
      BY <1>1, <2>1, <2>2
    <3> QED
      BY <1>2, <3>1 DEF next_pow_u32
  <2>3. CASE size # Wide
    <3>1. w % Wide = w /\ w # 0 /\ w <= Wide /\ w > H
      BY <1>1, <1>4, <2>1, <2>3
    <3> HIDE DEF w
    <3>2. PICK k \in 0 .. UintBits : Pow2[k] >= w /\ next_pow_u32(w) = Pow2[k] % Wide
      BY <1>2, <3>1, NextPower
    <3>3. k \in Nat /\ Pow2[k] \in Nat
      BY UintBitsAssumption, Pow2Steps
    <3>4. k = UintBits
      <4> SUFFICES ASSUME k <= UintBits - 1 PROVE FALSE
        BY <3>3, UintBitsAssumption
      <4>1. Pow2[k] <= H
        BY <1>1, <3>3, Pow2Grows DEF H
      <4> QED
        BY <1>1, <1>2, <3>1, <3>2, <3>3, <4>1
    <3>5. Pow2[k] % Wide = 0
      BY <1>1, <3>4 DEF Wide
    <3> QED
      BY <1>2, <3>1, <3>2, <3>5
  <2> QED
    BY <2>2, <2>3
<1> QED
  BY <1>1, <1>3, <1>4

(* bitmap_create makes room for every position asked for, up to half of    *)
(* what a uint32_t counts, and above that it makes a bitmap of no bit.     *)
THEOREM BitmapHasRoom == BitmapSpec => []HasRoom
<1>1. BitmapInit => HasRoom
  BY WideParts DEF BitmapInit, HasRoom, NumWords
<1>2. HasRoom /\ [BitmapNext]_bitmap_vars => HasRoom'
  <2> SUFFICES ASSUME HasRoom, [BitmapNext]_bitmap_vars PROVE HasRoom'
    OBVIOUS
  <2>1. ASSUME NEW size \in BitmapSizes, bitmap_create(size) PROVE HasRoom'
    <3>1. bm_size' = MapSize(size) /\ asked' = size /\ size \in Nat
      BY <2>1, BitmapSizesAssumption DEF bitmap_create
    <3> QED
      BY <3>1, SizeHasRoom DEF HasRoom
  <2>2. ASSUME UNCHANGED <<bm_size, asked>> PROVE HasRoom'
    BY <2>2 DEF HasRoom
  <2> QED
    BY <2>1, <2>2 DEF BitmapNext, bitmap_vars, bitmap_set, bitmap_unset, bitmap_get,
                      bitmap_set_all, bitmap_unset_all, bitmap_pop, PopFound, PopPastEnd
<1> QED
  BY <1>1, <1>2, PTL DEF BitmapSpec

-----------------------------------------------------------------------------
(* container/itrie. *)

(* k and m have the digits below d in common. *)
Agree(k, m, d) == \A j \in 0 .. d - 1 : get_idx(k, j) = get_idx(m, j)

(* What the nodes are: each has a level, and the keys that come by it agree *)
(* with key_of on the digits of the levels above.                           *)
Cells == [tag : {"none", "val", "sub"}, key : Nat, val : TrieVals \cup Nat \cup {None}]

Node == [Digits -> Cells]

Leveled(ns, lev, key_of) ==
  /\ ns \in Seq(Node) /\ ns # <<>>
  /\ lev \in [DOMAIN ns -> 0 .. MaxLevel - 1] /\ key_of \in [DOMAIN ns -> Nat]
  /\ \A n \in DOMAIN ns : lev[n] = 0 <=> n = 1

(* A cell that points at a node leads one level down. *)
LeadsDown(ns, lev, key_of) ==
  \A n \in DOMAIN ns : \A i \in Digits :
    LET c == ns[n][i].val
    IN  ns[n][i].tag = "sub" =>
          /\ c \in DOMAIN ns /\ lev[c] = lev[n] + 1
          /\ Agree(key_of[c], key_of[n], lev[n]) /\ get_idx(key_of[c], lev[n]) = i

(* A node is where the cells on the way to it lead, and no other is there. *)
OnePlace(ns, lev, key_of) ==
  \A n \in DOMAIN ns : \A m \in DOMAIN ns :
    /\ lev[n] = lev[m] /\ Agree(key_of[m], key_of[n], lev[n]) => n = m
    /\ lev[n] < lev[m] /\ Agree(key_of[m], key_of[n], lev[n]) =>
         ns[n][get_idx(key_of[m], lev[n])].tag = "sub"

(* Every node but the root has a cell that points at it. *)
Pointed(ns) ==
  \A m \in DOMAIN ns \ {1} : \E n \in DOMAIN ns : \E i \in Digits :
    ns[n][i].tag = "sub" /\ ns[n][i].val = m

(* The cell where key k is, if it is in the trie, with value v. *)
KeptAt(ns, lev, n, i, k, v) ==
  ns[n][i].tag = "val" /\ ns[n][i].key = Rest(k, lev[n] + 1) /\ ns[n][i].val = v

(* The trie holds the keys and values of dict. *)
HoldsAll(ns, lev, key_of, dict) ==
  /\ DOMAIN dict \subseteq TrieKeys /\ dict \in [DOMAIN dict -> TrieVals]
  /\ \A n \in DOMAIN ns : \A k \in DOMAIN dict :
       LET i == get_idx(k, lev[n])
       IN  Agree(k, key_of[n], lev[n]) /\ ns[n][i].tag # "sub" => KeptAt(ns, lev, n, i, k, dict[k])
  /\ \A n \in DOMAIN ns : \A i \in Digits :
       ns[n][i].tag = "val" =>
         \E k \in DOMAIN dict :
           /\ Agree(k, key_of[n], lev[n]) /\ get_idx(k, lev[n]) = i
           /\ KeptAt(ns, lev, n, i, k, dict[k])

(* Two keys that have been in the trie come by every node but the root. *)
Needed(ns, lev, key_of, keys) ==
  \A n \in DOMAIN ns \ {1} : \E k \in keys : \E m \in keys :
    k # m /\ Agree(k, key_of[n], lev[n]) /\ Agree(m, key_of[n], lev[n])

(* All that together: a view of the nodes, and the dictionary it shows.    *)
IsTrie(ns, lev, key_of, dict) ==
  /\ Leveled(ns, lev, key_of) /\ LeadsDown(ns, lev, key_of) /\ OnePlace(ns, lev, key_of)
  /\ Pointed(ns) /\ HoldsAll(ns, lev, key_of, dict)

(* The numbers of MaxLevel digits. *)
Whole == {k \in Nat : Rest(k, MaxLevel) = 0}

(* Shifting a key: what is left and the digit that goes are the key. *)
LEMMA RestParts ==
  ASSUME NEW k \in Nat
  PROVE  /\ Rest(k, 0) = k
         /\ \A d \in Nat : /\ Rest(k, d) \in Nat /\ get_idx(k, d) \in Digits
                           /\ Rest(k, d + 1) = Rest(k, d) \div Base
                           /\ Rest(k, d) = get_idx(k, d) + Base * Rest(k, d + 1)
<1> DEFINE step == [x \in Nat |-> x \div Base]
           Shifted(f) == f = [j \in Nat |-> IF j = 0 THEN k ELSE f[j - 1] \div Base]
           shifted == CHOOSE f : Shifted(f)
<1>1. \A x \in Nat : /\ x \div Base \in Nat /\ x % Base \in 0 .. Base - 1
                     /\ x = (x % Base) + Base * (x \div Base)
  BY BaseAssumption
<1>2. step \in [Nat -> Nat]
  BY <1>1
<1>3. PICK f \in [Nat -> Nat] : f[0] = k /\ \A j \in Nat : f[j + 1] = step[f[j]]
  <2> DEFINE S     == Nat
             first == k
  <2>1. first \in S /\ step \in [S -> S]
    BY <1>2
  <2> HIDE DEF step, Shifted, shifted, S, first
  <2>2. \E f \in [Nat -> S] : f[0] = first /\ \A j \in Nat : f[j + 1] = step[f[j]]
    BY <2>1, Iteration
  <2> QED
    BY <2>2 DEF S, first
<1>4. \A j \in Nat : f[j] = IF j = 0 THEN k ELSE f[j - 1] \div Base
  <2> TAKE j \in Nat
  <2>1. CASE j = 0
    BY <1>3, <2>1
  <2>2. CASE j # 0
    <3>1. j - 1 \in Nat /\ j = (j - 1) + 1
      BY <2>2
    <3>2. f[j] = step[f[j - 1]] /\ f[j - 1] \in Nat
      BY <1>3, <3>1
    <3> QED
      BY <2>2, <3>2
  <2> QED
    BY <2>1, <2>2
<1>5. Shifted(f)
  BY <1>3, <1>4
<1>6. Shifted(shifted)
  <2> HIDE DEF Shifted
  <2> QED
    BY <1>5
<1>7. \A d : Rest(k, d) = shifted[d]
  BY DEF Rest
<1>8. shifted[0] = k /\ \A d \in Nat : shifted[d + 1] = shifted[d] \div Base
  <2> HIDE DEF shifted
  <2>1. \A d \in Nat : shifted[d] = IF d = 0 THEN k ELSE shifted[d - 1] \div Base
    BY <1>6
  <2>2. \A d \in Nat : d + 1 \in Nat /\ d + 1 # 0 /\ (d + 1) - 1 = d
    OBVIOUS
  <2> QED
    BY <2>1, <2>2
<1> HIDE DEF shifted
<1>9. \A d \in Nat : shifted[d] \in Nat
  <2> DEFINE T == {d \in Nat : shifted[d] \in Nat}
  <2>1. 0 \in T
    BY <1>8
  <2>2. \A n \in Nat : n \in T => n + 1 \in T
    BY <1>1, <1>8
  <2> HIDE DEF T
  <2>3. Nat \subseteq T
    BY <2>1, <2>2, NatSetInduction
  <2> QED
    BY <2>3 DEF T
<1>10. \A d \in Nat : /\ Rest(k, d) \in Nat /\ Rest(k, d + 1) = Rest(k, d) \div Base
  BY <1>7, <1>8, <1>9
<1>11. ASSUME NEW d \in Nat
       PROVE  get_idx(k, d) \in Digits /\ Rest(k, d) = get_idx(k, d) + Base * Rest(k, d + 1)
  <2>1. PICK x \in Nat : x = Rest(k, d)
    BY <1>10
  <2>2. Rest(k, d + 1) = x \div Base
    BY <1>10, <2>1
  <2> QED
    BY <1>1, <2>1, <2>2 DEF get_idx, Digits
<1> QED
  BY <1>7, <1>8, <1>10, <1>11

(* Shifting what was shifted. *)
LEMMA RestTwice ==
  ASSUME NEW k \in Nat, NEW d \in Nat
  PROVE  /\ \A j \in Nat : Rest(Rest(k, d), j) = Rest(k, d + j)
         /\ \A j \in Nat : get_idx(Rest(k, d), j) = get_idx(k, d + j)
<1>1. PICK m \in Nat : m = Rest(k, d)
  BY RestParts
<1> DEFINE T == {j \in Nat : Rest(m, j) = Rest(k, d + j)}
<1>2. 0 \in T
  <2>1. Rest(m, 0) = m /\ d + 0 = d
    BY RestParts
  <2> QED
    BY <1>1, <2>1
<1>3. \A j \in Nat : j \in T => j + 1 \in T
  <2> SUFFICES ASSUME NEW j \in Nat, j \in T
               PROVE  j + 1 \in T
    OBVIOUS
  <2>1. d + j \in Nat /\ d + (j + 1) = (d + j) + 1
    OBVIOUS
  <2>2. Rest(m, j + 1) = Rest(m, j) \div Base
    BY RestParts
  <2>3. Rest(k, (d + j) + 1) = Rest(k, d + j) \div Base
    BY <2>1, RestParts
  <2> QED
    BY <2>1, <2>2, <2>3
<1> HIDE DEF T
<1>4. Nat \subseteq T
  BY <1>2, <1>3, NatSetInduction
<1>5. \A j \in Nat : Rest(m, j) = Rest(k, d + j)
  BY <1>4 DEF T
<1> QED
  BY <1>1, <1>5 DEF get_idx

(* Numbers with the same digits from d on as far as e, and the same rest *)
(* behind them, have the same rest behind d.                             *)
LEMMA RestJoin ==
  ASSUME NEW k \in Nat, NEW m \in Nat, NEW d \in Nat, NEW e \in Nat,
         \A j \in d .. e - 1 : get_idx(k, j) = get_idx(m, j), Rest(k, e) = Rest(m, e), d <= e
  PROVE  Rest(k, d) = Rest(m, d)
<1> DEFINE T == {x \in Nat : e - x >= d => Rest(k, e - x) = Rest(m, e - x)}
<1>1. 0 \in T
  BY e - 0 = e
<1>2. \A x \in Nat : x \in T => x + 1 \in T
  <2> SUFFICES ASSUME NEW x \in Nat, x \in T, e - (x + 1) >= d
               PROVE  Rest(k, e - (x + 1)) = Rest(m, e - (x + 1))
    OBVIOUS
  <2>1. PICK j \in d .. e - 1 : j = e - (x + 1) /\ j + 1 = e - x /\ j \in Nat
    OBVIOUS
  <2>2. Rest(k, j + 1) = Rest(m, j + 1)
    BY <2>1
  <2>3. get_idx(k, j) = get_idx(m, j)
    BY <2>1
  <2>4. Rest(k, j) = get_idx(k, j) + Base * Rest(k, j + 1)
        /\ Rest(m, j) = get_idx(m, j) + Base * Rest(m, j + 1)
    BY <2>1, RestParts
  <2> QED
    BY <2>1, <2>2, <2>3, <2>4
<1> HIDE DEF T
<1>3. Nat \subseteq T
  BY <1>1, <1>2, NatSetInduction
<1>4. e - d \in T
  BY <1>3
<1> QED
  BY <1>4 DEF T

(* The first digit in which two numbers of e digits differ. *)
LEMMA SharedParts ==
  ASSUME NEW k \in Nat, NEW m \in Nat, NEW e \in 0 .. MaxLevel, Rest(k, e) = 0, Rest(m, e) = 0, k # m
  PROVE  /\ Shared(k, m) \in 0 .. e - 1
         /\ get_idx(k, Shared(k, m)) # get_idx(m, Shared(k, m))
         /\ Agree(k, m, Shared(k, m))
<1> DEFINE D == {j \in 0 .. MaxLevel : get_idx(k, j) # get_idx(m, j)}
<1>1. MaxLevel \in Nat /\ e \in Nat
  BY MaxLevelAssumption
<1>2. PICK x \in D : x \in 0 .. e - 1
  <2>1. ~ \A j \in 0 .. e - 1 : get_idx(k, j) = get_idx(m, j)
    <3>1. ASSUME \A j \in 0 .. e - 1 : get_idx(k, j) = get_idx(m, j)
          PROVE  FALSE
      <4>1. Rest(k, 0) = Rest(m, 0)
        BY <1>1, <3>1, RestJoin
      <4> QED
        BY <4>1, RestParts
    <3> QED
      BY <3>1
  <2> QED
    BY <1>1, <2>1
<1>3. PICK s \in D : \A y \in D : s <= y
  <2> DEFINE T == {n \in Nat : n \in D}
  <2>1. T \subseteq Nat /\ T # {}
    BY <1>2
  <2>2. PICK s \in T : \A y \in T : s <= y
    <3> HIDE DEF T
    <3> DEFINE U == {n \in Nat : \A y \in T : n <= y}
    <3>1. 0 \in U
      BY <2>1
    <3>2. ASSUME \A n \in U : n \notin T
          PROVE  FALSE
      <4>1. \A n \in Nat : n \in U => n + 1 \in U
        <5> SUFFICES ASSUME NEW n \in U, NEW y \in T
                     PROVE  n + 1 <= y
          OBVIOUS
        <5>1. n <= y /\ n # y /\ y \in Nat
          BY <2>1, <3>2
        <5> QED
          BY <5>1
      <4> HIDE DEF U
      <4>2. Nat \subseteq U
        BY <3>1, <4>1, NatSetInduction
      <4>3. PICK y \in T : y \in Nat
        BY <2>1
      <4>4. y + 1 \in U
        BY <4>2, <4>3
      <4> QED
        BY <4>3, <4>4 DEF U
    <3> QED
      BY <3>2
  <2> QED
    BY <2>2
<1>4. Shared(k, m) = CHOOSE z \in D : \A y \in D : z <= y
  BY DEF Shared, Min
<1> HIDE DEF D
<1>5. Shared(k, m) \in D /\ \A y \in D : Shared(k, m) <= y
  BY <1>3, <1>4
<1>6. Shared(k, m) \in 0 .. MaxLevel /\ get_idx(k, Shared(k, m)) # get_idx(m, Shared(k, m))
  BY <1>5 DEF D
<1>7. Shared(k, m) <= x
  BY <1>2, <1>5
<1>8. ASSUME NEW j \in 0 .. Shared(k, m) - 1
      PROVE  get_idx(k, j) = get_idx(m, j)
  <2>1. j \in 0 .. MaxLevel /\ ~ (Shared(k, m) <= j)
    BY <1>1, <1>6, <1>8
  <2>2. j \notin D
    BY <1>5, <2>1
  <2> QED
    BY <2>1, <2>2 DEF D
<1> QED
  BY <1>1, <1>2, <1>6, <1>7, <1>8 DEF Agree

(* Numbers of MaxLevel digits that have them all in common are the same. *)
LEMMA WholeKeys ==
  ASSUME NEW k \in Whole, NEW m \in Whole, NEW d \in 0 .. MaxLevel, Agree(k, m, d),
         Rest(k, d) = Rest(m, d)
  PROVE  k = m
<1>1. k \in Nat /\ m \in Nat /\ d \in Nat /\ 0 <= d
  BY MaxLevelAssumption DEF Whole
<1>2. \A j \in 0 .. d - 1 : get_idx(k, j) = get_idx(m, j)
  BY DEF Agree
<1>3. Rest(k, 0) = Rest(m, 0)
  BY <1>1, <1>2, RestJoin
<1> QED
  BY <1>1, <1>3, RestParts

(* Having digits in common, one digit more, and fewer digits. *)
LEMMA AgreeParts ==
  ASSUME NEW k, NEW m, NEW d \in Nat
  PROVE  /\ Agree(k, m, 0) /\ Agree(k, k, d) /\ (Agree(k, m, d) <=> Agree(m, k, d))
         /\ \A x : Agree(k, m, d) /\ Agree(m, x, d) => Agree(k, x, d)
         /\ \A e \in 0 .. d : Agree(k, m, d) => Agree(k, m, e)
         /\ \A e \in 0 .. d - 1 : Agree(k, m, d) => get_idx(k, e) = get_idx(m, e)
         /\ Agree(k, m, d) /\ get_idx(k, d) = get_idx(m, d) <=> Agree(k, m, d + 1)
<1>1. Agree(k, m, d) /\ get_idx(k, d) = get_idx(m, d) <=> Agree(k, m, d + 1)
  <2>1. 0 .. (d + 1) - 1 = (0 .. d - 1) \cup {d}
    OBVIOUS
  <2> QED
    BY <2>1 DEF Agree
<1> QED
  BY <1>1 DEF Agree

(* The keys of dict that come by node n, and those that come by its cell i. *)
By(lev, key_of, dict, n) == {k \in DOMAIN dict : Agree(k, key_of[n], lev[n])}

ByCell(lev, key_of, dict, n, i) ==
  {k \in DOMAIN dict : Agree(k, key_of[n], lev[n]) /\ get_idx(k, lev[n]) = i}

(* What Entries finds below node n. *)
Found(lev, dict, n, keys) == {<<Rest(k, lev[n]), dict[k]>> : k \in keys}

(* The types of what a trie is made of. *)
LEMMA TrieParts ==
  ASSUME NEW ns, NEW lev, NEW key_of, NEW dict, IsTrie(ns, lev, key_of, dict)
  PROVE  /\ 1 \in DOMAIN ns /\ DOMAIN ns = 1 .. Len(ns) /\ Len(ns) \in Nat /\ lev[1] = 0
         /\ \A n \in DOMAIN ns :
              /\ lev[n] \in Nat /\ lev[n] < MaxLevel /\ lev[n] \in 0 .. MaxLevel - 1 /\ key_of[n] \in Nat
              /\ ns[n] \in Node
              /\ \A i \in Digits : /\ ns[n][i] \in Cells
                                   /\ ns[n][i].tag \in {"none", "val", "sub"}
         /\ \A k \in DOMAIN dict : k \in TrieKeys /\ k \in Whole /\ k \in Nat /\ dict[k] \in TrieVals
         /\ MaxLevel \in Nat /\ Base \in Nat
<1>1. ns \in Seq(Node) /\ ns # <<>> /\ lev \in [DOMAIN ns -> 0 .. MaxLevel - 1]
      /\ key_of \in [DOMAIN ns -> Nat]
  BY DEF IsTrie, Leveled
<1>2. MaxLevel \in Nat /\ Base \in Nat
  BY MaxLevelAssumption, BaseAssumption
<1>3. 1 \in DOMAIN ns /\ DOMAIN ns = 1 .. Len(ns) /\ Len(ns) \in Nat
      /\ \A n \in DOMAIN ns : ns[n] \in Node
  BY <1>1
<1>4. \A n \in DOMAIN ns : \A i \in Digits : ns[n][i] \in Cells
  BY <1>3 DEF Node
<1>5. \A c \in Cells : c.tag \in {"none", "val", "sub"}
  BY DEF Cells
<1>6. \A k \in DOMAIN dict : k \in TrieKeys /\ k \in Whole /\ k \in Nat /\ dict[k] \in TrieVals
  BY TrieKeysAssumption DEF IsTrie, HoldsAll, Whole
<1>7. lev[1] = 0
  BY <1>3 DEF IsTrie, Leveled
<1> QED
  BY <1>1, <1>2, <1>3, <1>4, <1>5, <1>6, <1>7

(* A cell that holds a value is the cell of one key. *)
LEMMA KeptKey ==
  ASSUME NEW ns, NEW lev, NEW key_of, NEW dict, IsTrie(ns, lev, key_of, dict),
         NEW n \in DOMAIN ns, NEW i \in Digits, ns[n][i].tag = "val"
  PROVE  \E k \in DOMAIN dict :
           /\ ByCell(lev, key_of, dict, n, i) = {k}
           /\ ns[n][i].key = Rest(k, lev[n] + 1) /\ ns[n][i].val = dict[k]
<1>1. PICK k \in DOMAIN dict : /\ Agree(k, key_of[n], lev[n]) /\ get_idx(k, lev[n]) = i
                               /\ KeptAt(ns, lev, n, i, k, dict[k])
  BY DEF IsTrie, HoldsAll
<1>2. \A m \in ByCell(lev, key_of, dict, n, i) : m = k
  <2> SUFFICES ASSUME NEW m \in DOMAIN dict, Agree(m, key_of[n], lev[n]), get_idx(m, lev[n]) = i
               PROVE  m = k
    BY DEF ByCell
  <2>1. KeptAt(ns, lev, n, i, m, dict[m])
    BY <1>1 DEF IsTrie, HoldsAll
  <2>2. Rest(m, lev[n] + 1) = Rest(k, lev[n] + 1)
    BY <1>1, <2>1 DEF KeptAt
  <2>3. lev[n] \in Nat /\ lev[n] + 1 \in 0 .. MaxLevel /\ k \in Whole /\ m \in Whole
    BY TrieParts
  <2>4. Agree(k, m, lev[n])
    BY <1>1, <2>3, AgreeParts
  <2>5. Agree(k, m, lev[n] + 1)
    BY <1>1, <2>3, <2>4, AgreeParts
  <2> QED
    BY <2>2, <2>3, <2>5, WholeKeys
<1> QED
  BY <1>1, <1>2 DEF ByCell, KeptAt

(* What a cell shows are the keys that come by it, if that is so for the *)
(* node that it points at.                                               *)
LEMMA FromCellIs ==
  ASSUME NEW ns, NEW lev, NEW key_of, NEW dict, IsTrie(ns, lev, key_of, dict),
         NEW below, NEW n \in DOMAIN ns, NEW i \in Digits,
         ns[n][i].tag = "sub" =>
           LET c == ns[n][i].val IN below[c] = Found(lev, dict, c, By(lev, key_of, dict, c))
  PROVE  FromCell(ns[n][i], i, below[ns[n][i].val])
           = Found(lev, dict, n, ByCell(lev, key_of, dict, n, i))
<1>1. PICK c : c = ns[n][i]
  OBVIOUS
<1>2. PICK l \in Nat : l = lev[n] /\ l < MaxLevel /\ key_of[n] \in Nat
  BY TrieParts
<1>3. c.tag \in {"none", "val", "sub"}
  BY <1>1, TrieParts
<1>4. \A k \in DOMAIN dict : Rest(k, l) = get_idx(k, l) + Base * Rest(k, l + 1)
  BY <1>2, TrieParts, RestParts
<1>5. CASE c.tag = "none"
  <2>1. FromCell(ns[n][i], i, below[ns[n][i].val]) = {}
    BY <1>1, <1>5 DEF FromCell
  <2>2. ByCell(lev, key_of, dict, n, i) = {}
    <3>1. ASSUME NEW k \in ByCell(lev, key_of, dict, n, i)
          PROVE  FALSE
      <4>1. KeptAt(ns, lev, n, i, k, dict[k])
        BY <1>1, <1>5 DEF IsTrie, HoldsAll, ByCell
      <4> QED
        BY <1>1, <1>5, <4>1 DEF KeptAt
    <3> QED
      BY <3>1
  <2> QED
    BY <2>1, <2>2 DEF Found
<1>6. CASE c.tag = "val"
  <2>1. PICK k \in DOMAIN dict : /\ ByCell(lev, key_of, dict, n, i) = {k}
                                 /\ c.key = Rest(k, l + 1) /\ c.val = dict[k]
    BY <1>1, <1>2, <1>6, KeptKey
  <2>2. FromCell(ns[n][i], i, below[ns[n][i].val]) = {<<i + (Base * c.key), c.val>>}
    BY <1>1, <1>6 DEF FromCell
  <2>3. get_idx(k, l) = i
    BY <1>2, <2>1 DEF ByCell
  <2>4. i + (Base * c.key) = Rest(k, l)
    BY <1>4, <2>1, <2>3
  <2> QED
    BY <1>2, <2>1, <2>2, <2>4 DEF Found
<1>7. CASE c.tag = "sub"
  <2>1. PICK m : m = c.val
    OBVIOUS
  <2>2. /\ m \in DOMAIN ns /\ lev[m] = l + 1 /\ key_of[m] \in Nat
        /\ Agree(key_of[m], key_of[n], l) /\ get_idx(key_of[m], l) = i
    BY <1>1, <1>2, <1>7, <2>1, TrieParts DEF IsTrie, LeadsDown
  <2>3. FromCell(ns[n][i], i, below[ns[n][i].val]) = {<<i + (Base * e[1]), e[2]>> : e \in below[m]}
    BY <1>1, <1>7, <2>1 DEF FromCell
  <2>4. below[m] = {<<Rest(k, l + 1), dict[k]>> : k \in By(lev, key_of, dict, m)}
    BY <1>1, <1>7, <2>1, <2>2 DEF Found
  <2>5. By(lev, key_of, dict, m) = ByCell(lev, key_of, dict, n, i)
    <3>1. \A k \in DOMAIN dict : Agree(k, key_of[m], l + 1) <=> Agree(k, key_of[n], l)
          /\ get_idx(k, l) = i
      <4> TAKE k \in DOMAIN dict
      <4>1. Agree(k, key_of[m], l + 1) <=> Agree(k, key_of[m], l) /\ get_idx(k, l) = i
        BY <2>2, AgreeParts
      <4>2. Agree(k, key_of[m], l) <=> Agree(k, key_of[n], l)
        BY <2>2, AgreeParts
      <4> QED
        BY <4>1, <4>2
    <3> QED
      BY <1>2, <2>2, <3>1 DEF By, ByCell
  <2>6. \A k \in ByCell(lev, key_of, dict, n, i) : Rest(k, l) = i + (Base * Rest(k, l + 1))
    BY <1>2, <1>4 DEF ByCell
  <2>7. PICK K : K = ByCell(lev, key_of, dict, n, i)
    OBVIOUS
  <2>8. below[m] = {<<Rest(k, l + 1), dict[k]>> : k \in K}
    BY <2>4, <2>5, <2>7
  <2>9. \A k \in K : <<Rest(k, l + 1), dict[k]>>[1] = Rest(k, l + 1)
                     /\ <<Rest(k, l + 1), dict[k]>>[2] = dict[k]
    OBVIOUS
  <2>10. {<<i + (Base * e[1]), e[2]>> : e \in below[m]}
           = {<<i + (Base * Rest(k, l + 1)), dict[k]>> : k \in K}
    <3> DEFINE pair(k) == <<Rest(k, l + 1), dict[k]>>
    <3>1. \A k \in K : /\ pair(k)[1] = Rest(k, l + 1) /\ pair(k)[2] = dict[k] /\ pair(k) \in below[m]
      BY <2>8
    <3>2. \A e \in below[m] : \E k \in K : e = pair(k)
      BY <2>8
    <3> HIDE DEF pair
    <3>3. \A e \in below[m] : \E k \in K : e[1] = Rest(k, l + 1) /\ e[2] = dict[k]
      BY <3>1, <3>2
    <3>4. \A k \in K : \E e \in below[m] : e[1] = Rest(k, l + 1) /\ e[2] = dict[k]
      BY <3>1
    <3> DEFINE B       == below[m]
               plus(x) == i + (Base * x)
               rest(k) == Rest(k, l + 1)
    <3>5. /\ \A e \in B : \E k \in K : e[1] = rest(k) /\ e[2] = dict[k]
          /\ \A k \in K : \E e \in B : e[1] = rest(k) /\ e[2] = dict[k]
      BY <3>3, <3>4
    <3> HIDE DEF B, plus, rest
    <3>6. {<<plus(e[1]), e[2]>> : e \in B} = {<<plus(rest(k)), dict[k]>> : k \in K}
      <4>1. \A e \in B : \E k \in K : <<plus(e[1]), e[2]>> = <<plus(rest(k)), dict[k]>>
        BY <3>5
      <4>2. \A k \in K : \E e \in B : <<plus(e[1]), e[2]>> = <<plus(rest(k)), dict[k]>>
        BY <3>5
      <4> QED
        BY <4>1, <4>2
    <3> QED
      BY <3>6 DEF B, plus, rest
  <2>11. {<<i + (Base * Rest(k, l + 1)), dict[k]>> : k \in K} = {<<Rest(k, l), dict[k]>> : k \in K}
    BY <2>6, <2>7
  <2> QED
    BY <1>2, <2>3, <2>7, <2>10, <2>11 DEF Found
<1> QED
  BY <1>3, <1>5, <1>6, <1>7

(* What the cells of a node show together are the keys that come by the  *)
(* node.                                                                 *)
LEMMA FromCells ==
  ASSUME NEW ns, NEW lev, NEW key_of, NEW dict, IsTrie(ns, lev, key_of, dict),
         NEW below, NEW n \in DOMAIN ns,
         \A i \in Digits : ns[n][i].tag = "sub" =>
           LET c == ns[n][i].val IN below[c] = Found(lev, dict, c, By(lev, key_of, dict, c))
  PROVE  UNION {FromCell(ns[n][i], i, below[ns[n][i].val]) : i \in Digits}
           = Found(lev, dict, n, By(lev, key_of, dict, n))
<1>1. \A i \in Digits : FromCell(ns[n][i], i, below[ns[n][i].val])
        = Found(lev, dict, n, ByCell(lev, key_of, dict, n, i))
  BY FromCellIs
<1>2. \A k \in DOMAIN dict : get_idx(k, lev[n]) \in Digits
  BY TrieParts, RestParts
<1>3. By(lev, key_of, dict, n) = UNION {ByCell(lev, key_of, dict, n, i) : i \in Digits}
  BY <1>2 DEF By, ByCell
<1>4. UNION {Found(lev, dict, n, ByCell(lev, key_of, dict, n, i)) : i \in Digits}
        = Found(lev, dict, n, UNION {ByCell(lev, key_of, dict, n, i) : i \in Digits})
  BY DEF Found
<1>5. {FromCell(ns[n][i], i, below[ns[n][i].val]) : i \in Digits}
        = {Found(lev, dict, n, ByCell(lev, key_of, dict, n, i)) : i \in Digits}
  BY <1>1
<1> QED
  BY <1>3, <1>4, <1>5

(* The keys and values in the cells of a trie are those of the           *)
(* dictionary: by induction on the number of levels below a node.        *)
LEMMA EntriesAre ==
  ASSUME NEW ns, NEW lev, NEW key_of, NEW dict, IsTrie(ns, lev, key_of, dict)
  PROVE  Entries(ns) = {<<k, dict[k]>> : k \in DOMAIN dict}
<1> DEFINE W == [n \in DOMAIN ns |-> Found(lev, dict, n, By(lev, key_of, dict, n))]
           Body(f) == [n \in DOMAIN ns |-> UNION {FromCell(ns[n][i], i, f[ns[n][i].val]) : i \in Digits}]
           below == CHOOSE f : f = Body(f)
<1>1. \A n \in DOMAIN ns : \A i \in Digits : ns[n][i].tag = "sub" => ns[n][i].val \in DOMAIN ns
  BY DEF IsTrie, LeadsDown
<1>2. W = Body(W)
  <2>1. \A n \in DOMAIN ns : W[n] = Found(lev, dict, n, By(lev, key_of, dict, n))
    OBVIOUS
  <2> HIDE DEF W
  <2>2. \A n \in DOMAIN ns : UNION {FromCell(ns[n][i], i, W[ns[n][i].val]) : i \in Digits}
          = Found(lev, dict, n, By(lev, key_of, dict, n))
    BY <1>1, <2>1, FromCells
  <2> QED
    BY <2>2 DEF W
<1>3. below = Body(below)
  <2> HIDE DEF W, Body
  <2> QED
    BY <1>2
<1>4. Entries(ns) = below[1]
  <2>1. ns # <<>>
    BY DEF IsTrie, Leveled
  <2> QED
    BY <2>1 DEF Entries, Body
<1> HIDE DEF below
<1>5. \A n \in DOMAIN ns : below[n] = UNION {FromCell(ns[n][i], i, below[ns[n][i].val]) : i \in Digits}
  BY <1>3
<1> DEFINE T == {d \in Nat : \A n \in DOMAIN ns :
                   lev[n] + d >= MaxLevel => below[n] = Found(lev, dict, n, By(lev, key_of, dict, n))}
<1>6. 0 \in T
  BY TrieParts
<1>7. \A d \in Nat : d \in T => d + 1 \in T
  <2> SUFFICES ASSUME NEW d \in Nat, d \in T, NEW n \in DOMAIN ns, lev[n] + (d + 1) >= MaxLevel
               PROVE  below[n] = Found(lev, dict, n, By(lev, key_of, dict, n))
    OBVIOUS
  <2>1. ASSUME NEW i \in Digits, ns[n][i].tag = "sub", NEW c, c = ns[n][i].val
        PROVE  below[c] = Found(lev, dict, c, By(lev, key_of, dict, c))
    <3>1. c \in DOMAIN ns /\ lev[c] = lev[n] + 1
      BY <2>1 DEF IsTrie, LeadsDown
    <3>2. lev[c] + d >= MaxLevel
      BY <3>1, TrieParts
    <3> QED
      BY <3>1, <3>2
  <2> HIDE DEF T
  <2>2. UNION {FromCell(ns[n][i], i, below[ns[n][i].val]) : i \in Digits}
          = Found(lev, dict, n, By(lev, key_of, dict, n))
    BY <2>1, FromCells
  <2> QED
    BY <1>5, <2>2
<1> HIDE DEF T
<1>8. Nat \subseteq T
  BY <1>6, <1>7, NatSetInduction
<1>9. below[1] = Found(lev, dict, 1, By(lev, key_of, dict, 1))
  <2>1. MaxLevel \in T /\ 1 \in DOMAIN ns /\ lev[1] + MaxLevel >= MaxLevel
    BY <1>8, TrieParts
  <2> QED
    BY <2>1 DEF T
<1>10. \A k \in DOMAIN dict : Rest(k, lev[1]) = k /\ Agree(k, key_of[1], lev[1])
  <2>1. lev[1] = 0 /\ \A k \in DOMAIN dict : k \in Nat
    BY TrieParts
  <2>2. \A k \in DOMAIN dict : Rest(k, 0) = k
    BY <2>1, RestParts
  <2>3. \A k \in DOMAIN dict : Agree(k, key_of[1], 0)
    BY DEF Agree
  <2> QED
    BY <2>1, <2>2, <2>3
<1>11. By(lev, key_of, dict, 1) = DOMAIN dict
  BY <1>10 DEF By
<1> QED
  BY <1>4, <1>9, <1>10, <1>11 DEF Found

(* So the dictionary that a trie shows is the one that the view holds. *)
LEMMA ContentIs ==
  ASSUME NEW ns, NEW lev, NEW key_of, NEW dict, IsTrie(ns, lev, key_of, dict)
  PROVE  Content(ns) = dict
<1>1. PICK E : E = Entries(ns)
  OBVIOUS
<1>2. E = {<<k, dict[k]>> : k \in DOMAIN dict}
  BY <1>1, EntriesAre
<1>3. \A k : <<k, dict[k]>>[1] = k /\ <<k, dict[k]>>[2] = dict[k]
  OBVIOUS
<1>4. {e[1] : e \in E} = DOMAIN dict
  BY <1>2, <1>3
<1>5. \A k \in DOMAIN dict : (CHOOSE e \in E : e[1] = k)[2] = dict[k]
  <2> TAKE k \in DOMAIN dict
  <2>1. <<k, dict[k]>> \in E /\ <<k, dict[k]>>[1] = k /\ \A e \in E : e[1] = k => e = <<k, dict[k]>>
    BY <1>2, <1>3
  <2>2. (CHOOSE e \in E : e[1] = k) = <<k, dict[k]>>
    BY <2>1
  <2> QED
    BY <1>3, <2>2
<1>6. dict = [k \in DOMAIN dict |-> dict[k]]
  BY DEF IsTrie, HoldsAll
<1>7. Content(ns) = [k \in {e[1] : e \in E} |-> (CHOOSE e \in E : e[1] = k)[2]]
  BY <1>1 DEF Content
<1> QED
  BY <1>4, <1>5, <1>6, <1>7

(* A path as far as it has got: its indexes are digits of the key, and its *)
(* last cell is one that the key comes by.                                 *)
Steps == [ptr : DOMAIN nodes, idx : Digits]

IsTrail(lev, key_of, path, key) ==
  /\ path \in Seq(Steps) /\ Len(path) \in Nat \ {0}
  /\ \A j \in 1 .. Len(path) : path[j].idx = get_idx(key, j - 1)
  /\ lev[path[Len(path)].ptr] = Len(path) - 1
  /\ Agree(key, key_of[path[Len(path)].ptr], Len(path) - 1)

(* An iteration of the descent goes one level down or stays at its end. *)
LEMMA DescentParts ==
  ASSUME NEW lev, NEW key_of, NEW dict, IsTrie(nodes, lev, key_of, dict), NEW key \in Nat,
         NEW path, IsTrail(lev, key_of, path, key)
  PROVE  /\ IsTrail(lev, key_of, Descended(path, key), key)
         /\ IF CellAt(Last(path)).tag = "sub"
            THEN Len(Descended(path, key)) = Len(path) + 1
            ELSE Descended(path, key) = path
<1>1. PICK d \in Nat \ {0} : d = Len(path)
  BY DEF IsTrail
<1>2. PICK n, i : n = path[d].ptr /\ i = path[d].idx
  OBVIOUS
<1>3. path \in Seq(Steps) /\ path[d] \in Steps /\ Last(path) = path[d]
  BY <1>1 DEF IsTrail, Last
<1>4. /\ n \in DOMAIN nodes /\ i \in Digits /\ lev[n] = d - 1 /\ Agree(key, key_of[n], d - 1)
      /\ i = get_idx(key, d - 1) /\ CellAt(Last(path)) = nodes[n][i] /\ key_of[n] \in Nat
  BY <1>1, <1>2, <1>3, TrieParts DEF IsTrail, Steps, CellAt
<1>5. CASE nodes[n][i].tag # "sub"
  BY <1>4, <1>5 DEF Descended
<1>6. CASE nodes[n][i].tag = "sub"
  <2>1. PICK c : c = nodes[n][i].val
    OBVIOUS
  <2>2. /\ c \in DOMAIN nodes /\ lev[c] = d /\ key_of[c] \in Nat
        /\ Agree(key_of[c], key_of[n], d - 1) /\ get_idx(key_of[c], d - 1) = i
    <3>1. /\ c \in DOMAIN nodes /\ lev[c] = (d - 1) + 1
          /\ Agree(key_of[c], key_of[n], d - 1) /\ get_idx(key_of[c], d - 1) = i
      BY <1>4, <1>6, <2>1 DEF IsTrie, LeadsDown
    <3> QED
      BY <3>1, TrieParts
  <2>3. Agree(key, key_of[c], d)
    <3>1. d - 1 \in Nat /\ (d - 1) + 1 = d
      OBVIOUS
    <3>2. Agree(key, key_of[c], d - 1)
      BY <1>4, <2>2, <3>1, AgreeParts
    <3>3. Agree(key, key_of[c], (d - 1) + 1)
      BY <1>4, <2>2, <3>1, <3>2, AgreeParts
    <3> QED
      BY <3>1, <3>3
  <2>4. PICK e : e = [ptr |-> c, idx |-> get_idx(key, d)]
    OBVIOUS
  <2>5. e \in Steps /\ e.ptr = c /\ e.idx = get_idx(key, d)
    BY <2>2, <2>4, RestParts DEF Steps
  <2>6. Descended(path, key) = Append(path, e)
    BY <1>1, <1>4, <1>6, <2>1, <2>4 DEF Descended
  <2>7. PICK p : p = Append(path, e)
    OBVIOUS
  <2>8. /\ p \in Seq(Steps) /\ Len(p) = d + 1 /\ p[d + 1] = e
        /\ \A j \in 1 .. d : p[j] = path[j]
    BY <1>1, <1>3, <2>5, <2>7
  <2>9. \A j \in 1 .. d + 1 : p[j].idx = get_idx(key, j - 1)
    <3> TAKE j \in 1 .. d + 1
    <3>1. CASE j = d + 1
      BY <2>5, <2>8, <3>1
    <3>2. CASE j # d + 1
      <4>1. j \in 1 .. d
        BY <3>2
      <4>2. path[j].idx = get_idx(key, j - 1)
        BY <1>1, <4>1 DEF IsTrail
      <4> QED
        BY <2>8, <4>1, <4>2
    <3> QED
      BY <3>1, <3>2
  <2>10. Len(p) - 1 = d /\ p[Len(p)].ptr = c /\ Len(p) \in Nat \ {0}
    BY <2>5, <2>8
  <2>11. IsTrail(lev, key_of, p, key)
    BY <2>2, <2>3, <2>8, <2>9, <2>10 DEF IsTrail
  <2> QED
    BY <1>1, <1>4, <1>6, <2>6, <2>7, <2>8, <2>11
<1> QED
  BY <1>5, <1>6

(* What a call finds at the end of its descent: node n and cell i on level *)
(* d - 1, which the key comes by and which does not lead further.          *)
EndsAt(lev, key_of, path, key, d, n, i) ==
  /\ d = Len(path) /\ d \in 1 .. MaxLevel /\ DOMAIN path = 1 .. d
  /\ \A j \in 1 .. d : path[j].idx = get_idx(key, j - 1)
  /\ n = Last(path).ptr /\ i = Last(path).idx
  /\ n \in DOMAIN nodes /\ lev[n] = d - 1 /\ Agree(key, key_of[n], d - 1)
  /\ i \in Digits /\ i = get_idx(key, d - 1)
  /\ CellAt(Last(path)) = nodes[n][i] /\ nodes[n][i].tag # "sub"

(* The descent for a key ends in a cell that the key comes by and that   *)
(* does not lead on: as many iterations as there are levels are enough.  *)
LEMMA PathIs ==
  ASSUME NEW lev, NEW key_of, NEW dict, IsTrie(nodes, lev, key_of, dict), NEW key \in Nat
  PROVE  IsTrail(lev, key_of, Path(key), key) /\ CellAt(Last(Path(key))).tag # "sub"
<1> DEFINE S == {p \in Seq(Steps) : IsTrail(lev, key_of, p, key)}
           first == <<[ptr |-> 1, idx |-> get_idx(key, 0)]>>
           step == [p \in S |-> Descended(p, key)]
           Body(f) == [i \in 0 .. MaxLevel - 1 |-> IF i = 0 THEN first ELSE Descended(f[i - 1], key)]
           down == CHOOSE f : f = Body(f)
<1>1. MaxLevel \in Nat /\ MaxLevel - 1 \in Nat /\ 0 \in 0 .. MaxLevel - 1
  BY MaxLevelAssumption
<1>2. first \in S
  <2>1. PICK e : e = [ptr |-> 1, idx |-> get_idx(key, 0)]
    OBVIOUS
  <2>2. e \in Steps /\ e.ptr = 1 /\ e.idx = get_idx(key, 0) /\ lev[1] = 0 /\ Agree(key, key_of[1], 0)
    BY <2>1, TrieParts, RestParts, AgreeParts DEF Steps
  <2>3. first \in Seq(Steps) /\ Len(first) = 1 /\ first[1] = e
    BY <2>1, <2>2
  <2> HIDE DEF first
  <2>4. \A j \in 1 .. Len(first) : j = 1 /\ j - 1 = 0
    BY <2>3
  <2>5. IsTrail(lev, key_of, first, key)
    BY <2>2, <2>3, <2>4 DEF IsTrail
  <2> QED
    BY <2>3, <2>5
<1>3. \A p \in S : Descended(p, key) \in S
  <2> SUFFICES ASSUME NEW p \in S
               PROVE  Descended(p, key) \in S
    OBVIOUS
  <2>1. IsTrail(lev, key_of, p, key)
    BY DEF S
  <2>2. IsTrail(lev, key_of, Descended(p, key), key)
    BY <2>1, DescentParts
  <2>3. Descended(p, key) \in Seq(Steps)
    BY <2>2 DEF IsTrail
  <2> QED
    BY <2>2, <2>3 DEF S
<1>4. step \in [S -> S] /\ \A p \in S : step[p] = Descended(p, key)
  BY <1>3
<1>5. PICK F \in [Nat -> S] : F[0] = first /\ \A k \in Nat : F[k + 1] = step[F[k]]
  <2>1. first \in S /\ step \in [S -> S]
    BY <1>2, <1>4
  <2> HIDE DEF S, first, step, Body, down
  <2> QED
    BY <2>1, Iteration
<1> HIDE DEF S, first, step
<1>6. \A k \in Nat : F[k] \in S /\ F[k + 1] = Descended(F[k], key)
  BY <1>4, <1>5
<1> DEFINE G == [i \in 0 .. MaxLevel - 1 |-> F[i]]
<1>7. G = Body(G)
  <2>1. \A i \in 0 .. MaxLevel - 1 : G[i] = IF i = 0 THEN first ELSE Descended(G[i - 1], key)
    <3> TAKE i \in 0 .. MaxLevel - 1
    <3>1. CASE i = 0
      BY <1>5, <3>1
    <3>2. CASE i # 0
      <4>1. i - 1 \in 0 .. MaxLevel - 1 /\ i - 1 \in Nat /\ (i - 1) + 1 = i
        BY <1>1, <3>2
      <4>2. F[(i - 1) + 1] = Descended(F[i - 1], key)
        BY <1>6, <4>1
      <4> QED
        BY <3>2, <4>1, <4>2
    <3> QED
      BY <3>1, <3>2
  <2> QED
    BY <2>1
<1>8. down = Body(down)
  <2> HIDE DEF G, Body
  <2> QED
    BY <1>7
<1>9. Path(key) = down[MaxLevel - 1]
  BY DEF Path, first
<1> HIDE DEF down
<1>10. \A i \in 0 .. MaxLevel - 1 : down[i] = IF i = 0 THEN first ELSE Descended(down[i - 1], key)
  BY <1>8
(* After i iterations the path has i + 1 cells, or it has come to its end. *)
<1> DEFINE T == {i \in Nat : i <= MaxLevel - 1 =>
                   /\ down[i] \in S
                   /\ Len(down[i]) = i + 1 \/ CellAt(Last(down[i])).tag # "sub"}
<1>11. 0 \in T
  BY <1>1, <1>2, <1>10 DEF first
<1>12. \A i \in Nat : i \in T => i + 1 \in T
  <2> SUFFICES ASSUME NEW i \in Nat, i \in T, i + 1 <= MaxLevel - 1
               PROVE  /\ down[i + 1] \in S
                      /\ Len(down[i + 1]) = (i + 1) + 1 \/ CellAt(Last(down[i + 1])).tag # "sub"
    OBVIOUS
  <2>1. i <= MaxLevel - 1 /\ i + 1 \in 0 .. MaxLevel - 1 /\ i + 1 # 0 /\ (i + 1) - 1 = i
    BY <1>1
  <2>2. PICK p : p = down[i]
    OBVIOUS
  <2>3. p \in S /\ (Len(p) = i + 1 \/ CellAt(Last(p)).tag # "sub")
    BY <2>1, <2>2
  <2> HIDE DEF T
  <2>4. down[i + 1] = Descended(p, key)
    BY <1>10, <2>1, <2>2
  <2>5. IF CellAt(Last(p)).tag = "sub" THEN Len(Descended(p, key)) = Len(p) + 1
          ELSE Descended(p, key) = p
    BY <2>3, DescentParts DEF S
  <2>6. down[i + 1] \in S
    BY <1>3, <2>3, <2>4
  <2>7. CASE CellAt(Last(p)).tag = "sub"
    <3>1. Len(p) = i + 1
      BY <2>3, <2>7
    <3> QED
      BY <2>4, <2>5, <2>6, <2>7, <3>1
  <2>8. CASE CellAt(Last(p)).tag # "sub"
    BY <2>4, <2>5, <2>6, <2>8
  <2> QED
    BY <2>7, <2>8
<1> HIDE DEF T
<1>13. MaxLevel - 1 \in T
  BY <1>1, <1>11, <1>12, NatSetInduction
<1>14. PICK p : p = Path(key)
  OBVIOUS
<1>15. p \in S /\ (Len(p) = MaxLevel \/ CellAt(Last(p)).tag # "sub")
  BY <1>1, <1>9, <1>13, <1>14 DEF T
<1>16. IsTrail(lev, key_of, p, key)
  BY <1>15 DEF S
<1>17. ASSUME Len(p) = MaxLevel, CellAt(Last(p)).tag = "sub"
       PROVE  FALSE
  <2>1. PICK q : q = Descended(p, key)
    OBVIOUS
  <2>2. IsTrail(lev, key_of, q, key) /\ Len(q) = MaxLevel + 1
    BY <1>16, <1>17, <2>1, DescentParts
  <2>3. q[MaxLevel + 1] \in Steps
    BY <1>1, <2>2 DEF IsTrail
  <2>4. q[MaxLevel + 1].ptr \in DOMAIN nodes /\ lev[q[MaxLevel + 1].ptr] = MaxLevel
    BY <1>1, <2>2, <2>3 DEF IsTrail, Steps
  <2> QED
    BY <2>4, TrieParts
<1> QED
  BY <1>14, <1>15, <1>16, <1>17

(* The same, by what the calls read of the path. *)
LEMMA PathEnds ==
  ASSUME NEW lev, NEW key_of, NEW dict, IsTrie(nodes, lev, key_of, dict), NEW key \in Nat,
         NEW path, path = Path(key)
  PROVE  \E d, n, i : EndsAt(lev, key_of, path, key, d, n, i)
<1>1. IsTrail(lev, key_of, path, key) /\ CellAt(Last(path)).tag # "sub"
  BY PathIs
<1>2. PICK d \in Nat \ {0} : d = Len(path)
  BY <1>1 DEF IsTrail
<1>3. Last(path) = path[d] /\ path[d] \in Steps
  BY <1>1, <1>2 DEF IsTrail, Last
<1>4. PICK n, i : n = path[d].ptr /\ i = path[d].idx
  OBVIOUS
<1>5. /\ n \in DOMAIN nodes /\ i \in Digits /\ lev[n] = d - 1 /\ Agree(key, key_of[n], d - 1)
      /\ i = get_idx(key, d - 1)
  BY <1>1, <1>2, <1>3, <1>4 DEF IsTrail, Steps
<1>6. d \in 1 .. MaxLevel
  BY <1>5, TrieParts
<1>7. CellAt(Last(path)) = nodes[n][i]
  BY <1>3, <1>4 DEF CellAt
<1>8. \A j \in 1 .. d : path[j].idx = get_idx(key, j - 1)
  BY <1>1, <1>2 DEF IsTrail
<1>9. DOMAIN path = 1 .. d
  BY <1>1, <1>2 DEF IsTrail
<1> QED
  BY <1>1, <1>2, <1>3, <1>4, <1>5, <1>6, <1>7, <1>8, <1>9 DEF EndsAt

(* The types of the end of a descent. *)
LEMMA EndParts ==
  ASSUME NEW lev, NEW key_of, NEW dict, IsTrie(nodes, lev, key_of, dict), NEW key \in Whole,
         NEW path, NEW d, NEW n, NEW i, EndsAt(lev, key_of, path, key, d, n, i)
  PROVE  /\ key \in Nat /\ d \in Nat /\ d - 1 \in Nat /\ d \in 0 .. MaxLevel
         /\ (d - 1) + 1 = d /\ lev[n] + 1 = d /\ lev[n] = d - 1
         /\ n \in DOMAIN nodes /\ i \in Digits /\ i = get_idx(key, d - 1) /\ key_of[n] \in Nat
         /\ Agree(key, key_of[n], d - 1) /\ nodes[n][i].tag # "sub"
<1>1. d \in 1 .. MaxLevel /\ MaxLevel \in Nat
  BY TrieParts DEF EndsAt
<1> QED
  BY <1>1, TrieParts DEF EndsAt, Whole

(* Where the descent for a key ends it finds the key if it is there. *)
LEMMA MatchesIs ==
  ASSUME NEW lev, NEW key_of, NEW dict, IsTrie(nodes, lev, key_of, dict), NEW key \in TrieKeys,
         NEW path, NEW d, NEW n, NEW i, EndsAt(lev, key_of, path, key, d, n, i)
  PROVE  /\ Matches(path, key) <=> key \in DOMAIN dict
         /\ Matches(path, key) <=> nodes[n][i].tag = "val" /\ nodes[n][i].key = Rest(key, d)
         /\ key \in DOMAIN dict =>
              nodes[n][i].val = dict[key] /\ ByCell(lev, key_of, dict, n, i) = {key}
<1>1. key \in Whole
  BY TrieKeysAssumption DEF Whole
<1>2. /\ d \in Nat /\ d - 1 \in Nat /\ (d - 1) + 1 = d /\ lev[n] = d - 1 /\ d \in 0 .. MaxLevel
      /\ n \in DOMAIN nodes /\ i \in Digits /\ i = get_idx(key, d - 1) /\ Agree(key, key_of[n], d - 1)
      /\ key_of[n] \in Nat /\ key \in Nat
  BY <1>1, EndParts
<1>3. Matches(path, key) <=> nodes[n][i].tag = "val" /\ nodes[n][i].key = Rest(key, d)
  BY DEF Matches, EndsAt
<1>4. ASSUME nodes[n][i].tag = "val", nodes[n][i].key = Rest(key, d)
      PROVE  key \in DOMAIN dict
  <2>1. PICK k \in DOMAIN dict : /\ ByCell(lev, key_of, dict, n, i) = {k}
                                 /\ nodes[n][i].key = Rest(k, lev[n] + 1)
    BY <1>2, <1>4, KeptKey
  <2>2. Agree(k, key_of[n], d - 1) /\ get_idx(k, d - 1) = i /\ k \in Whole
    BY <1>2, <2>1, TrieParts DEF ByCell
  <2>3. Agree(k, key, d - 1)
    BY <1>2, <2>2, AgreeParts
  <2>4. Agree(k, key, (d - 1) + 1)
    BY <1>2, <2>2, <2>3, AgreeParts
  <2>5. k = key
    BY <1>1, <1>2, <1>4, <2>1, <2>2, <2>4, WholeKeys
  <2> QED
    BY <2>5
<1>5. ASSUME key \in DOMAIN dict
      PROVE  /\ nodes[n][i].tag = "val" /\ nodes[n][i].key = Rest(key, d) /\ nodes[n][i].val = dict[key]
             /\ ByCell(lev, key_of, dict, n, i) = {key}
  <2>1. nodes[n][i].tag # "sub"
    BY DEF EndsAt
  <2>2. KeptAt(nodes, lev, n, i, key, dict[key])
    BY <1>2, <1>5, <2>1 DEF IsTrie, HoldsAll
  <2>3. key \in ByCell(lev, key_of, dict, n, i)
    BY <1>2, <1>5 DEF ByCell
  <2>4. nodes[n][i].tag = "val"
    BY <2>2 DEF KeptAt
  <2>5. \E k \in DOMAIN dict : ByCell(lev, key_of, dict, n, i) = {k}
    BY <1>2, <2>4, KeptKey
  <2> QED
    BY <1>2, <2>2, <2>3, <2>5 DEF KeptAt
<1> QED
  BY <1>3, <1>4, <1>5

(* No other node has a last cell for the key. *)
LEMMA OneEnd ==
  ASSUME NEW lev, NEW key_of, NEW dict, IsTrie(nodes, lev, key_of, dict), NEW key \in Whole,
         NEW path, NEW d, NEW n, NEW i, EndsAt(lev, key_of, path, key, d, n, i),
         NEW m \in DOMAIN nodes, Agree(key, key_of[m], lev[m])
  PROVE  /\ lev[m] = d - 1 => m = n
         /\ lev[m] < d - 1 => nodes[m][get_idx(key, lev[m])].tag = "sub"
         /\ ~(lev[m] > d - 1)
<1>1. /\ d \in Nat /\ d - 1 \in Nat /\ (d - 1) + 1 = d /\ lev[n] = d - 1 /\ d \in 0 .. MaxLevel
      /\ n \in DOMAIN nodes /\ i \in Digits /\ i = get_idx(key, d - 1) /\ Agree(key, key_of[n], d - 1)
      /\ key_of[n] \in Nat /\ key \in Nat
  BY EndParts
<1>2. PICK l \in Nat : l = lev[m] /\ key_of[m] \in Nat
  BY TrieParts
<1>3. nodes[n][i].tag # "sub"
  BY DEF EndsAt
<1>4. CASE l = d - 1
  <2>1. Agree(key_of[n], key_of[m], d - 1)
    BY <1>1, <1>2, <1>4, AgreeParts
  <2>2. lev[m] = lev[n] /\ Agree(key_of[n], key_of[m], lev[m])
    BY <1>1, <1>2, <1>4, <2>1
  <2>3. m = n
    BY <1>1, <2>2 DEF IsTrie, OnePlace
  <2> QED
    BY <1>1, <1>2, <1>4, <2>3
<1>5. CASE l < d - 1
  <2>1. l \in 0 .. d - 1 /\ l \in 0 .. (d - 1) - 1
    BY <1>1, <1>5
  <2>2. Agree(key, key_of[n], l) /\ get_idx(key, l) = get_idx(key_of[n], l)
    BY <1>1, <2>1, AgreeParts
  <2>3. Agree(key_of[n], key_of[m], l)
    BY <1>1, <1>2, <2>2, AgreeParts
  <2>4. nodes[m][get_idx(key_of[n], lev[m])].tag = "sub"
    BY <1>1, <1>2, <1>5, <2>3 DEF IsTrie, OnePlace
  <2> QED
    BY <1>1, <1>2, <1>5, <2>2, <2>4
<1>6. CASE l > d - 1
  <2>1. d - 1 \in 0 .. l /\ d - 1 \in 0 .. l - 1
    BY <1>1, <1>6
  <2>2. Agree(key, key_of[m], d - 1) /\ get_idx(key, d - 1) = get_idx(key_of[m], d - 1)
    BY <1>1, <1>2, <2>1, AgreeParts
  <2>3. Agree(key_of[m], key_of[n], d - 1)
    BY <1>1, <1>2, <2>2, AgreeParts
  <2>4. nodes[n][get_idx(key_of[m], lev[n])].tag = "sub"
    BY <1>1, <1>2, <1>6, <2>3 DEF IsTrie, OnePlace
  <2> QED
    BY <1>1, <1>3, <2>2, <2>4
<1> QED
  BY <1>1, <1>2, <1>4, <1>5, <1>6

(* A write to one cell. *)
Writes(ns, ns2, n, i, c) == ns2 = [ns EXCEPT ![n][i] = c]

(* A write to one cell changes that cell and no other. *)
LEMMA WriteParts ==
  ASSUME NEW ns \in Seq(Node), NEW n \in DOMAIN ns, NEW i \in Digits, NEW c \in Cells,
         NEW ns2, Writes(ns, ns2, n, i, c)
  PROVE  /\ ns2 \in Seq(Node) /\ DOMAIN ns2 = DOMAIN ns /\ Len(ns2) = Len(ns)
         /\ ns2[n][i] = c
         /\ \A m \in DOMAIN ns : \A j \in Digits : m # n \/ j # i => ns2[m][j] = ns[m][j]
<1>1. ns[n] \in [Digits -> Cells]
  BY DEF Node
<1>2. PICK node : node = [ns[n] EXCEPT ![i] = c]
  OBVIOUS
<1>3. node \in Node /\ node[i] = c /\ \A j \in Digits : j # i => node[j] = ns[n][j]
  BY <1>1, <1>2 DEF Node
<1>4. ns2 = [ns EXCEPT ![n] = node]
  BY <1>2 DEF Writes
<1>5. /\ ns2 \in Seq(Node) /\ DOMAIN ns2 = DOMAIN ns /\ Len(ns2) = Len(ns)
      /\ ns2[n] = node /\ \A m \in DOMAIN ns : m # n => ns2[m] = ns[m]
  BY <1>3, <1>4
<1> QED
  BY <1>3, <1>5

(* What is about the nodes' places only. *)
Placed(ns, lev, key_of) ==
  Leveled(ns, lev, key_of) /\ LeadsDown(ns, lev, key_of) /\ OnePlace(ns, lev, key_of) /\ Pointed(ns)

(* A write of a cell that does not lead on, over one that does not,      *)
(* leaves every node in its place.                                       *)
LEMMA WriteKeepsPlaces ==
  ASSUME NEW ns, NEW lev, NEW key_of, Placed(ns, lev, key_of),
         NEW n \in DOMAIN ns, NEW i \in Digits, NEW c \in Cells, c.tag # "sub", ns[n][i].tag # "sub",
         NEW ns2, Writes(ns, ns2, n, i, c)
  PROVE  Placed(ns2, lev, key_of)
<1>1. ns \in Seq(Node) /\ ns # <<>>
  BY DEF Placed, Leveled
<1>2. /\ ns2 \in Seq(Node) /\ DOMAIN ns2 = DOMAIN ns /\ Len(ns2) = Len(ns)
      /\ ns2[n][i] = c
      /\ \A m \in DOMAIN ns : \A j \in Digits : m # n \/ j # i => ns2[m][j] = ns[m][j]
  BY <1>1, WriteParts
<1>3. \A m \in DOMAIN ns : \A j \in Digits :
        /\ ns2[m][j].tag = "sub" <=> ns[m][j].tag = "sub"
        /\ ns2[m][j].tag = "sub" => ns2[m][j].val = ns[m][j].val
  BY <1>2
<1>4. Leveled(ns2, lev, key_of)
  <2>1. ns2 # <<>>
    BY <1>1, <1>2
  <2> QED
    BY <1>2, <2>1 DEF Placed, Leveled
<1>5. LeadsDown(ns2, lev, key_of)
  BY <1>2, <1>3 DEF Placed, LeadsDown
<1>6. OnePlace(ns2, lev, key_of)
  <2>1. \A m \in DOMAIN ns : get_idx(key_of[m], lev[m]) \in Digits
        /\ \A x \in DOMAIN ns : get_idx(key_of[m], lev[x]) \in Digits
    <3>1. \A m \in DOMAIN ns : lev[m] \in Nat /\ key_of[m] \in Nat
      BY DEF Placed, Leveled
    <3> QED
      BY <3>1, RestParts
  <2> QED
    BY <1>2, <1>3, <2>1 DEF Placed, OnePlace
<1>7. Pointed(ns2)
  BY <1>2, <1>3 DEF Placed, Pointed
<1> QED
  BY <1>4, <1>5, <1>6, <1>7 DEF Placed

With(dict, key, v) == [k \in DOMAIN dict \cup {key} |-> IF k = key THEN v ELSE dict[k]]

Without(dict, key) == [k \in DOMAIN dict \ {key} |-> dict[k]]

(* A value put into an empty cell at the end of the descent for its key  *)
(* adds the key.                                                         *)
LEMMA PutKeeps ==
  ASSUME NEW lev, NEW key_of, NEW dict, IsTrie(nodes, lev, key_of, dict), NEW key \in TrieKeys,
         NEW path, NEW d, NEW n, NEW i, EndsAt(lev, key_of, path, key, d, n, i),
         nodes[n][i].tag = "none", NEW v \in TrieVals,
         NEW ns, Writes(nodes, ns, n, i, ValCell(Rest(key, d), v))
  PROVE  /\ IsTrie(ns, lev, key_of, With(dict, key, v)) /\ key \notin DOMAIN dict
         /\ DOMAIN ns = DOMAIN nodes
<1>1. key \in Whole
  BY TrieKeysAssumption DEF Whole
<1>2. /\ d \in Nat /\ d - 1 \in Nat /\ (d - 1) + 1 = d /\ lev[n] = d - 1 /\ lev[n] + 1 = d
      /\ n \in DOMAIN nodes /\ i \in Digits /\ i = get_idx(key, d - 1) /\ Agree(key, key_of[n], d - 1)
      /\ key_of[n] \in Nat /\ key \in Nat /\ nodes[n][i].tag # "sub"
  BY <1>1, EndParts
<1>3. PICK c : c = ValCell(Rest(key, d), v)
  OBVIOUS
<1>4. c \in Cells /\ c.tag = "val" /\ c.key = Rest(key, d) /\ c.val = v
  <2>1. Rest(key, d) \in Nat
    BY <1>2, RestParts
  <2> QED
    BY <1>3, <2>1 DEF ValCell, Cells
<1>5. Placed(nodes, lev, key_of) /\ nodes \in Seq(Node)
  BY DEF IsTrie, Placed, Leveled
<1>6. Writes(nodes, ns, n, i, c)
  BY <1>3
<1>7. Placed(ns, lev, key_of)
  BY <1>2, <1>6, <1>4, <1>5, WriteKeepsPlaces
<1>8. /\ DOMAIN ns = DOMAIN nodes /\ ns[n][i] = c
      /\ \A m \in DOMAIN nodes : \A j \in Digits : m # n \/ j # i => ns[m][j] = nodes[m][j]
  <2>1. nodes \in Seq(Node) /\ n \in DOMAIN nodes /\ i \in Digits /\ c \in Cells
        /\ Writes(nodes, ns, n, i, c)
    BY <1>2, <1>6, <1>4, <1>5
  <2> QED
    BY <2>1, WriteParts
<1>9. key \notin DOMAIN dict
  BY MatchesIs
<1>10. PICK e : e = With(dict, key, v)
  OBVIOUS
<1>11. /\ DOMAIN e = DOMAIN dict \cup {key} /\ e[key] = v /\ \A k \in DOMAIN dict : e[k] = dict[k]
  BY <1>9, <1>10 DEF With
<1>12. DOMAIN e \subseteq TrieKeys /\ e \in [DOMAIN e -> TrieVals]
  <2>1. \A k \in DOMAIN e : e[k] \in TrieVals
    BY <1>11, TrieParts
  <2>2. e = [k \in DOMAIN e |-> e[k]]
    BY <1>10 DEF With
  <2> QED
    BY <1>11, <2>1, <2>2, TrieParts
<1>13. ASSUME NEW m \in DOMAIN ns, NEW k \in DOMAIN e, NEW j, j = get_idx(k, lev[m]),
              Agree(k, key_of[m], lev[m]), ns[m][j].tag # "sub"
       PROVE  KeptAt(ns, lev, m, j, k, e[k])
  <2>1. j \in Digits
    BY <1>8, <1>11, <1>12, <1>13, TrieParts, TrieKeysAssumption, RestParts
  <2>2. CASE k = key
    <3>1. nodes[m][j].tag # "sub"
      BY <1>2, <1>4, <1>8, <1>13, <2>1 DEF EndsAt
    <3>2. lev[m] \in Nat
      BY <1>8, TrieParts
    <3>3. m = n
      BY <1>1, <1>2, <1>8, <1>13, <2>2, <3>1, <3>2, OneEnd
    <3> QED
      BY <1>2, <1>4, <1>8, <1>11, <1>13, <2>2, <3>3 DEF KeptAt
  <2>3. CASE k # key
    <3>1. k \in DOMAIN dict /\ e[k] = dict[k]
      BY <1>11, <2>3
    <3>2. CASE m = n /\ j = i
      <4>1. KeptAt(nodes, lev, n, i, k, dict[k])
        BY <1>2, <1>13, <3>1, <3>2 DEF IsTrie, HoldsAll
      <4> QED
        BY <4>1 DEF KeptAt
    <3>3. CASE m # n \/ j # i
      <4>1. ns[m][j] = nodes[m][j]
        BY <1>8, <2>1, <3>3
      <4>2. KeptAt(nodes, lev, m, j, k, dict[k])
        BY <1>8, <1>13, <3>1, <4>1 DEF IsTrie, HoldsAll
      <4> QED
        BY <3>1, <4>1, <4>2 DEF KeptAt
    <3> QED
      BY <3>2, <3>3
  <2> QED
    BY <2>2, <2>3
<1>14. ASSUME NEW m \in DOMAIN ns, NEW j \in Digits, ns[m][j].tag = "val"
       PROVE  \E k \in DOMAIN e : /\ Agree(k, key_of[m], lev[m]) /\ get_idx(k, lev[m]) = j
                                  /\ KeptAt(ns, lev, m, j, k, e[k])
  <2>1. CASE m = n /\ j = i
    BY <1>2, <1>4, <1>8, <1>11, <2>1 DEF KeptAt
  <2>2. CASE m # n \/ j # i
    <3>1. ns[m][j] = nodes[m][j]
      BY <1>8, <2>2
    <3>2. PICK k \in DOMAIN dict : /\ Agree(k, key_of[m], lev[m]) /\ get_idx(k, lev[m]) = j
                                   /\ KeptAt(nodes, lev, m, j, k, dict[k])
      BY <1>8, <1>14, <3>1 DEF IsTrie, HoldsAll
    <3> QED
      BY <1>11, <3>1, <3>2 DEF KeptAt
  <2> QED
    BY <2>1, <2>2
<1>15. HoldsAll(ns, lev, key_of, e)
  BY <1>12, <1>13, <1>14 DEF HoldsAll
<1> QED
  BY <1>7, <1>8, <1>9, <1>10, <1>15 DEF IsTrie, Placed

(* A cell cleared at the end of the descent for its key takes the key    *)
(* out.                                                                  *)
LEMMA TakeKeeps ==
  ASSUME NEW lev, NEW key_of, NEW dict, IsTrie(nodes, lev, key_of, dict), NEW key \in TrieKeys,
         NEW path, NEW d, NEW n, NEW i, EndsAt(lev, key_of, path, key, d, n, i),
         key \in DOMAIN dict,
         NEW ns, Writes(nodes, ns, n, i, [NoEntry EXCEPT !.val = nodes[n][i].val])
  PROVE  IsTrie(ns, lev, key_of, Without(dict, key)) /\ DOMAIN ns = DOMAIN nodes
<1>1. key \in Whole
  BY TrieKeysAssumption DEF Whole
<1>2. /\ d \in Nat /\ d - 1 \in Nat /\ (d - 1) + 1 = d /\ lev[n] = d - 1 /\ lev[n] + 1 = d
      /\ n \in DOMAIN nodes /\ i \in Digits /\ i = get_idx(key, d - 1) /\ Agree(key, key_of[n], d - 1)
      /\ key_of[n] \in Nat /\ key \in Nat /\ nodes[n][i].tag # "sub"
  BY <1>1, EndParts
<1>3. PICK c : c = [NoEntry EXCEPT !.val = nodes[n][i].val]
  OBVIOUS
<1>4. c \in Cells /\ c.tag = "none"
  <2>1. nodes[n][i].val \in TrieVals
    BY MatchesIs, TrieParts
  <2> QED
    BY <1>3, <2>1 DEF NoEntry, Cells
<1>5. Placed(nodes, lev, key_of) /\ nodes \in Seq(Node)
  BY DEF IsTrie, Placed, Leveled
<1>6. Writes(nodes, ns, n, i, c)
  BY <1>3
<1>7. Placed(ns, lev, key_of)
  BY <1>2, <1>6, <1>4, <1>5, WriteKeepsPlaces
<1>8. /\ DOMAIN ns = DOMAIN nodes /\ ns[n][i] = c
      /\ \A m \in DOMAIN nodes : \A j \in Digits : m # n \/ j # i => ns[m][j] = nodes[m][j]
  <2>1. nodes \in Seq(Node) /\ n \in DOMAIN nodes /\ i \in Digits /\ c \in Cells
        /\ Writes(nodes, ns, n, i, c)
    BY <1>2, <1>6, <1>4, <1>5
  <2> QED
    BY <2>1, WriteParts
<1>9. ByCell(lev, key_of, dict, n, i) = {key}
  BY MatchesIs
<1>10. PICK e : e = Without(dict, key)
  OBVIOUS
<1>11. DOMAIN e = DOMAIN dict \ {key} /\ \A k \in DOMAIN e : e[k] = dict[k]
  BY <1>10 DEF Without
<1>12. DOMAIN e \subseteq TrieKeys /\ e \in [DOMAIN e -> TrieVals]
  <2>1. \A k \in DOMAIN e : e[k] \in TrieVals
    BY <1>11, TrieParts
  <2>2. e = [k \in DOMAIN e |-> e[k]]
    BY <1>10 DEF Without
  <2> QED
    BY <1>11, <2>1, <2>2, TrieParts
<1>13. ASSUME NEW m \in DOMAIN ns, NEW k \in DOMAIN e, NEW j, j = get_idx(k, lev[m]),
              Agree(k, key_of[m], lev[m]), ns[m][j].tag # "sub"
       PROVE  KeptAt(ns, lev, m, j, k, e[k])
  <2>1. j \in Digits /\ k \in DOMAIN dict /\ k # key /\ e[k] = dict[k]
    BY <1>8, <1>11, <1>13, TrieParts, RestParts
  <2>2. m # n \/ j # i
    BY <1>9, <1>13, <2>1 DEF ByCell
  <2>3. ns[m][j] = nodes[m][j]
    BY <1>8, <2>1, <2>2
  <2>4. KeptAt(nodes, lev, m, j, k, dict[k])
    BY <1>8, <1>13, <2>1, <2>3 DEF IsTrie, HoldsAll
  <2> QED
    BY <2>1, <2>3, <2>4 DEF KeptAt
<1>14. ASSUME NEW m \in DOMAIN ns, NEW j \in Digits, ns[m][j].tag = "val"
       PROVE  \E k \in DOMAIN e : /\ Agree(k, key_of[m], lev[m]) /\ get_idx(k, lev[m]) = j
                                  /\ KeptAt(ns, lev, m, j, k, e[k])
  <2>1. m # n \/ j # i
    BY <1>4, <1>8, <1>14
  <2>2. ns[m][j] = nodes[m][j]
    BY <1>8, <2>1
  <2>3. PICK k \in DOMAIN dict : /\ Agree(k, key_of[m], lev[m]) /\ get_idx(k, lev[m]) = j
                                 /\ KeptAt(nodes, lev, m, j, k, dict[k])
    BY <1>8, <1>14, <2>2 DEF IsTrie, HoldsAll
  <2>4. k # key
    <3>1. ASSUME k = key
          PROVE  FALSE
      <4>1. lev[m] \in Nat /\ m \in DOMAIN nodes
        BY <1>8, TrieParts
      <4>2. m = n
        BY <1>1, <1>2, <1>14, <2>2, <2>3, <3>1, <4>1, OneEnd
      <4> QED
        BY <1>2, <2>1, <2>3, <3>1, <4>2
    <3> QED
      BY <3>1
  <2> QED
    BY <1>11, <2>2, <2>3, <2>4 DEF KeptAt
<1>15. HoldsAll(ns, lev, key_of, e)
  BY <1>12, <1>13, <1>14 DEF HoldsAll
<1> QED
  BY <1>7, <1>8, <1>10, <1>15 DEF IsTrie, Placed

(* What a split puts in place of the cell that key k0 was in: nodes on the  *)
(* levels d to d + s, on which key and k0 go the same way as far as the     *)
(* last one.                                                                *)
Splits(ns, lev, key_of, lev2, key2, dict, key, v, d, n, i, k0, s) ==
  LET N == Len(nodes) IN
  /\ k0 \in DOMAIN dict /\ ByCell(lev, key_of, dict, n, i) = {k0} /\ key # k0
  /\ s \in Nat /\ d + s < MaxLevel /\ Agree(k0, key, d + s) /\ get_idx(k0, d + s) # get_idx(key, d + s)
  /\ ns \in Seq(Node) /\ DOMAIN ns = 1 .. N + s + 1
  /\ ns[n][i].tag = "sub" /\ ns[n][i].val = N + 1
  /\ \A m \in 1 .. N : \A x \in Digits : m # n \/ x # i => ns[m][x] = nodes[m][x]
  /\ \A m \in N + 1 .. N + s : \A x \in Digits :
       IF x = get_idx(key, lev2[m]) THEN ns[m][x].tag = "sub" /\ ns[m][x].val = m + 1
       ELSE ns[m][x].tag = "none"
  /\ \A x \in Digits :
       CASE x = get_idx(key, d + s) -> ns[N + s + 1][x] = ValCell(Rest(key, d + s + 1), v)
         [] x = get_idx(k0, d + s) -> ns[N + s + 1][x] = ValCell(Rest(k0, d + s + 1), dict[k0])
         [] OTHER -> ns[N + s + 1][x].tag = "none"
  /\ DOMAIN lev2 = DOMAIN ns /\ DOMAIN key2 = DOMAIN ns
  /\ lev2 = [m \in DOMAIN ns |-> lev2[m]] /\ key2 = [m \in DOMAIN ns |-> key2[m]]
  /\ \A m \in 1 .. N : lev2[m] = lev[m] /\ key2[m] = key_of[m]
  /\ \A m \in N + 1 .. N + s + 1 : lev2[m] = d + (m - N) - 1 /\ key2[m] = key

(* The keys whose cell is split. *)
LEMMA MeetParts ==
  ASSUME NEW lev, NEW key_of, NEW dict, IsTrie(nodes, lev, key_of, dict), NEW key \in TrieKeys,
         NEW path, NEW d, NEW n, NEW i, EndsAt(lev, key_of, path, key, d, n, i),
         nodes[n][i].tag = "val", ~Matches(path, key)
  PROVE  \E k0 \in DOMAIN dict, s \in Nat :
           /\ ByCell(lev, key_of, dict, n, i) = {k0} /\ key # k0
           /\ nodes[n][i].key = Rest(k0, d) /\ nodes[n][i].val = dict[k0]
           /\ s = Shared(Rest(k0, d), Rest(key, d)) /\ d + s < MaxLevel
           /\ Agree(k0, key, d + s) /\ get_idx(k0, d + s) # get_idx(key, d + s)
<1>1. key \in Whole
  BY TrieKeysAssumption DEF Whole
<1>2. /\ d \in Nat /\ d - 1 \in Nat /\ (d - 1) + 1 = d /\ lev[n] = d - 1 /\ lev[n] + 1 = d
      /\ n \in DOMAIN nodes /\ i \in Digits /\ i = get_idx(key, d - 1) /\ Agree(key, key_of[n], d - 1)
      /\ key_of[n] \in Nat /\ key \in Nat /\ d \in 0 .. MaxLevel
  BY <1>1, EndParts
<1>3. PICK k0 \in DOMAIN dict : /\ ByCell(lev, key_of, dict, n, i) = {k0}
                                /\ nodes[n][i].key = Rest(k0, d) /\ nodes[n][i].val = dict[k0]
  BY <1>2, KeptKey
<1>4. key \notin DOMAIN dict
  BY MatchesIs
<1>5. k0 \in Whole /\ k0 \in Nat /\ MaxLevel \in Nat
  BY TrieParts
<1>6. Agree(k0, key, d)
  <2>1. Agree(k0, key_of[n], d - 1) /\ get_idx(k0, d - 1) = i
    BY <1>2, <1>3 DEF ByCell
  <2>2. Agree(k0, key, d - 1)
    BY <1>2, <2>1, AgreeParts
  <2>3. Agree(k0, key, (d - 1) + 1)
    BY <1>2, <2>1, <2>2, AgreeParts
  <2> QED
    BY <1>2, <2>3
<1>7. PICK a \in Nat, b \in Nat : a = Rest(k0, d) /\ b = Rest(key, d)
  BY <1>2, <1>5, RestParts
<1>8. \A x \in Nat : \A j \in Nat :
        Rest(Rest(x, d), j) = Rest(x, d + j) /\ get_idx(Rest(x, d), j) = get_idx(x, d + j)
  <2>1. d \in Nat
    BY <1>2
  <2> TAKE x \in Nat
  <2> QED
    BY <2>1, RestTwice
<1>9. a # b
  BY <1>1, <1>2, <1>3, <1>4, <1>5, <1>6, <1>7, WholeKeys
<1>10. PICK e \in 0 .. MaxLevel : e = MaxLevel - d /\ d + e = MaxLevel /\ e \in Nat
  BY <1>2, <1>5
<1>11. Rest(a, e) = 0 /\ Rest(b, e) = 0
  <2>1. Rest(a, e) = Rest(k0, d + e) /\ Rest(b, e) = Rest(key, d + e)
    BY <1>2, <1>5, <1>7, <1>10, <1>8
  <2> QED
    BY <1>1, <1>5, <1>10, <2>1 DEF Whole
<1>12. PICK s : s = Shared(a, b)
  OBVIOUS
<1>13. s \in 0 .. e - 1 /\ get_idx(a, s) # get_idx(b, s) /\ Agree(a, b, s)
  BY <1>9, <1>11, <1>12, SharedParts
<1>14. s \in Nat /\ d + s < MaxLevel
  BY <1>2, <1>5, <1>10, <1>13
<1>15. \A j \in Nat : get_idx(a, j) = get_idx(k0, d + j) /\ get_idx(b, j) = get_idx(key, d + j)
  BY <1>2, <1>5, <1>7, <1>8
<1>16. ASSUME NEW j \in 0 .. (d + s) - 1
       PROVE  get_idx(k0, j) = get_idx(key, j)
  <2>1. CASE j < d
    <3>1. j \in 0 .. d - 1
      BY <1>2, <1>14, <1>16, <2>1
    <3> QED
      BY <1>6, <3>1 DEF Agree
  <2>2. CASE j >= d
    <3>1. PICK y \in Nat : y = j - d /\ d + y = j /\ y \in 0 .. s - 1
      BY <1>2, <1>14, <1>16, <2>2
    <3>2. get_idx(a, y) = get_idx(b, y)
      BY <1>13, <3>1 DEF Agree
    <3>3. get_idx(a, y) = get_idx(k0, j) /\ get_idx(b, y) = get_idx(key, j)
      BY <1>15, <3>1
    <3> QED
      BY <3>2, <3>3
  <2> QED
    BY <1>2, <1>14, <1>16, <2>1, <2>2
<1>17. Agree(k0, key, d + s)
  BY <1>16 DEF Agree
<1>18. get_idx(k0, d + s) # get_idx(key, d + s)
  BY <1>13, <1>14, <1>15
<1> QED
  BY <1>3, <1>4, <1>7, <1>12, <1>14, <1>17, <1>18

(* The new nodes: s of them lead on, and the two keys part in the last. *)
IsChain(ch, k0, w, key, v, d, s) ==
  /\ ch \in Seq(Node) /\ Len(ch) = s + 1
  /\ \A j \in 1 .. s : \A x \in Digits :
       IF x = get_idx(key, d + j - 1)
       THEN ch[j][x].tag = "sub" /\ ch[j][x].val = Len(nodes) + j + 1
       ELSE ch[j][x].tag = "none"
  /\ \A x \in Digits :
       CASE x = get_idx(key, d + s) -> ch[s + 1][x] = ValCell(Rest(key, d + s + 1), v)
         [] x = get_idx(k0, d + s) -> ch[s + 1][x] = ValCell(Rest(k0, d + s + 1), w)
         [] OTHER -> ch[s + 1][x].tag = "none"

(* What the nodes that Chain makes have in their cells. *)
LEMMA ChainParts ==
  ASSUME NEW k0 \in Nat, NEW key \in Nat, NEW d \in Nat, NEW s \in Nat,
         s = Shared(Rest(k0, d), Rest(key, d)), get_idx(k0, d + s) # get_idx(key, d + s),
         NEW w \in TrieVals, NEW v \in TrieVals, nodes \in Seq(Node),
         NEW ch, ch = Chain(Rest(k0, d), w, Rest(key, d), v)
  PROVE  IsChain(ch, k0, w, key, v, d, s)
<1>1. PICK a, b : a = Rest(k0, d) /\ b = Rest(key, d)
  OBVIOUS
<1>2. a \in Nat /\ b \in Nat /\ s = Shared(a, b)
  BY <1>1, RestParts
<1>3. \A j \in Nat : /\ get_idx(a, j) = get_idx(k0, d + j) /\ get_idx(b, j) = get_idx(key, d + j)
                     /\ Rest(a, j) = Rest(k0, d + j) /\ Rest(b, j) = Rest(key, d + j)
                     /\ get_idx(a, j) \in Digits /\ get_idx(b, j) \in Digits
  <2>1. \A x \in Nat : /\ \A j \in Nat : Rest(Rest(x, d), j) = Rest(x, d + j)
                       /\ \A j \in Nat : get_idx(Rest(x, d), j) = get_idx(x, d + j)
    <3> TAKE x \in Nat
    <3> QED
      BY RestTwice
  <2>2. \A j \in Nat : get_idx(a, j) \in Digits /\ get_idx(b, j) \in Digits
    BY <1>2, RestParts
  <2> QED
    BY <1>1, <2>1, <2>2
<1>4. \A x \in Digits : NewNode[x].tag = "none"
  BY DEF NewNode, NoEntry
<1>5. NewNode \in [Digits -> Cells]
  BY DEF NewNode, NoEntry, Cells
<1>6. \A q : SubCell(q).tag = "sub" /\ SubCell(q).val = q
  BY DEF SubCell
<1>7. \A q \in Nat : SubCell(q) \in Cells
  BY DEF SubCell, Cells
<1>8. \A r \in Nat : ValCell(r, v) \in Cells /\ ValCell(r, w) \in Cells
  BY DEF ValCell, Cells
<1> DEFINE mid(j) == [NewNode EXCEPT ![get_idx(b, j - 1)] = SubCell(Len(nodes) + j + 1)]
           end    == [NewNode EXCEPT ![get_idx(a, s)] = ValCell(Rest(a, s + 1), w),
                                     ![get_idx(b, s)] = ValCell(Rest(b, s + 1), v)]
<1>9. \A j \in 1 .. s : /\ mid(j) \in [Digits -> Cells]
                        /\ \A x \in Digits : IF x = get_idx(b, j - 1)
                                             THEN mid(j)[x] = SubCell(Len(nodes) + j + 1)
                                             ELSE mid(j)[x] = NewNode[x]
  <2> SUFFICES ASSUME NEW j \in 1 .. s
               PROVE  /\ mid(j) \in [Digits -> Cells]
                      /\ \A x \in Digits : IF x = get_idx(b, j - 1)
                                           THEN mid(j)[x] = SubCell(Len(nodes) + j + 1)
                                           ELSE mid(j)[x] = NewNode[x]
    OBVIOUS
  <2>1. PICK y, c : y = get_idx(b, j - 1) /\ c = SubCell(Len(nodes) + j + 1)
    OBVIOUS
  <2>2. j - 1 \in Nat /\ Len(nodes) + j + 1 \in Nat
    OBVIOUS
  <2>3. y \in Digits /\ c \in Cells
    BY <1>3, <1>7, <2>1, <2>2
  <2>4. mid(j) = [NewNode EXCEPT ![y] = c]
    BY <2>1
  <2> HIDE DEF mid
  <2> QED
    BY <1>5, <2>1, <2>3, <2>4
<1>10. /\ end \in [Digits -> Cells]
       /\ \A x \in Digits :
            CASE x = get_idx(b, s) -> end[x] = ValCell(Rest(b, s + 1), v)
              [] x = get_idx(a, s) -> end[x] = ValCell(Rest(a, s + 1), w)
              [] OTHER -> end[x] = NewNode[x]
  <2>1. PICK y, z, cy, cz : /\ y = get_idx(a, s) /\ cy = ValCell(Rest(a, s + 1), w)
                            /\ z = get_idx(b, s) /\ cz = ValCell(Rest(b, s + 1), v)
    OBVIOUS
  <2>2. Rest(a, s + 1) \in Nat /\ Rest(b, s + 1) \in Nat
    <3>1. s + 1 \in Nat
      OBVIOUS
    <3>2. \A q \in Nat : Rest(a, q) \in Nat /\ Rest(b, q) \in Nat
      BY <1>2, RestParts
    <3> QED
      BY <3>1, <3>2
  <2>3. y \in Digits /\ z \in Digits /\ cy \in Cells /\ cz \in Cells
    BY <1>3, <1>8, <2>1, <2>2
  <2>4. end = [NewNode EXCEPT ![y] = cy, ![z] = cz] /\ y # z
    BY <1>3, <2>1
  <2> HIDE DEF end
  <2>5. /\ end \in [Digits -> Cells]
        /\ \A x \in Digits : CASE x = z -> end[x] = cz [] x = y -> end[x] = cy
             [] OTHER -> end[x] = NewNode[x]
    BY <1>5, <2>3, <2>4
  <2> QED
    BY <2>1, <2>5
<1>11. ch = [j \in 1 .. s + 1 |-> IF j <= s THEN mid(j) ELSE end]
  BY <1>1, <1>2 DEF Chain
<1> HIDE DEF mid, end
<1>12. Len(ch) = s + 1 /\ DOMAIN ch = 1 .. s + 1 /\ ch[s + 1] = end /\ \A j \in 1 .. s : ch[j] = mid(j)
  BY <1>11
<1>13. ch \in Seq(Node)
  <2>1. \A j \in 1 .. s + 1 : ch[j] \in Node
    BY <1>9, <1>10, <1>12 DEF Node
  <2>2. ch \in [1 .. s + 1 -> Node]
    BY <1>11, <2>1
  <2> QED
    BY <2>2
<1>14. ASSUME NEW j \in 1 .. s, NEW x \in Digits
       PROVE  IF x = get_idx(key, d + j - 1)
              THEN ch[j][x].tag = "sub" /\ ch[j][x].val = Len(nodes) + j + 1
              ELSE ch[j][x].tag = "none"
  <2>1. j - 1 \in Nat /\ d + (j - 1) = d + j - 1
    OBVIOUS
  <2>2. get_idx(b, j - 1) = get_idx(key, d + j - 1)
    BY <1>3, <2>1
  <2> QED
    BY <1>4, <1>6, <1>9, <1>12, <2>2
<1>15. ASSUME NEW x \in Digits
       PROVE  CASE x = get_idx(key, d + s) -> ch[s + 1][x] = ValCell(Rest(key, d + s + 1), v)
                [] x = get_idx(k0, d + s) -> ch[s + 1][x] = ValCell(Rest(k0, d + s + 1), w)
                [] OTHER -> ch[s + 1][x].tag = "none"
  <2>1. s + 1 \in Nat /\ d + (s + 1) = d + s + 1
    OBVIOUS
  <2>2. /\ get_idx(b, s) = get_idx(key, d + s) /\ get_idx(a, s) = get_idx(k0, d + s)
        /\ Rest(a, s + 1) = Rest(k0, d + s + 1) /\ Rest(b, s + 1) = Rest(key, d + s + 1)
    BY <1>3, <2>1
  <2> QED
    BY <1>4, <1>10, <1>12, <2>2
<1> QED
  BY <1>12, <1>13, <1>14, <1>15 DEF IsChain

(* The nodes after a split of cell i of node n. *)
SplitNodes(ns, n, i, key, d, v) ==
  ns = [nodes EXCEPT ![n][i] = SubCell(Len(nodes) + 1)]
       \o Chain(nodes[n][i].key, nodes[n][i].val, Rest(key, d), v)

(* InsertSplit makes such nodes. *)
LEMMA SplitIs ==
  ASSUME NEW lev, NEW key_of, NEW dict, IsTrie(nodes, lev, key_of, dict), NEW key \in TrieKeys,
         NEW path, NEW d, NEW n, NEW i, EndsAt(lev, key_of, path, key, d, n, i),
         nodes[n][i].tag = "val", ~Matches(path, key), NEW v \in TrieVals,
         NEW ns, SplitNodes(ns, n, i, key, d, v)
  PROVE  \E lev2, key2, k0, s : Splits(ns, lev, key_of, lev2, key2, dict, key, v, d, n, i, k0, s)
<1>1. key \in Whole
  BY TrieKeysAssumption DEF Whole
<1>2. d \in Nat /\ n \in DOMAIN nodes /\ i \in Digits /\ key \in Nat
  BY <1>1, EndParts
<1>3. PICK k0 \in DOMAIN dict, s \in Nat :
        /\ ByCell(lev, key_of, dict, n, i) = {k0} /\ key # k0
        /\ nodes[n][i].key = Rest(k0, d) /\ nodes[n][i].val = dict[k0]
        /\ s = Shared(Rest(k0, d), Rest(key, d)) /\ d + s < MaxLevel
        /\ Agree(k0, key, d + s) /\ get_idx(k0, d + s) # get_idx(key, d + s)
  BY MeetParts
<1>4. k0 \in Nat /\ dict[k0] \in TrieVals
  BY TrieParts
<1>5. nodes \in Seq(Node)
  BY DEF IsTrie, Leveled
<1>6. PICK N \in Nat : N = Len(nodes) /\ DOMAIN nodes = 1 .. N
  BY <1>5
<1>7. PICK w \in TrieVals : w = dict[k0]
  BY <1>4
<1>8. PICK ch : ch = Chain(Rest(k0, d), w, Rest(key, d), v)
  OBVIOUS
<1>9. PICK W : W = [nodes EXCEPT ![n][i] = SubCell(Len(nodes) + 1)]
  OBVIOUS
<1>10. ns = W \o ch
  BY <1>3, <1>7, <1>8, <1>9 DEF SplitNodes
<1>11. /\ ch \in Seq(Node) /\ Len(ch) = s + 1
       /\ \A j \in 1 .. s : \A x \in Digits :
            IF x = get_idx(key, d + j - 1)
            THEN ch[j][x].tag = "sub" /\ ch[j][x].val = N + j + 1
            ELSE ch[j][x].tag = "none"
       /\ \A x \in Digits :
            CASE x = get_idx(key, d + s) -> ch[s + 1][x] = ValCell(Rest(key, d + s + 1), v)
              [] x = get_idx(k0, d + s) -> ch[s + 1][x] = ValCell(Rest(k0, d + s + 1), dict[k0])
              [] OTHER -> ch[s + 1][x].tag = "none"
  <2>1. IsChain(ch, k0, w, key, v, d, s)
    <3>1. /\ d \in Nat /\ key \in Nat /\ k0 \in Nat /\ s = Shared(Rest(k0, d), Rest(key, d))
          /\ get_idx(k0, d + s) # get_idx(key, d + s) /\ nodes \in Seq(Node)
          /\ ch = Chain(Rest(k0, d), w, Rest(key, d), v)
      BY <1>2, <1>3, <1>4, <1>5, <1>7, <1>8
    <3> QED
      BY <3>1, ChainParts
  <2> QED
    BY <1>6, <1>7, <1>8, <2>1 DEF IsChain
<1>12. PICK c : c = SubCell(N + 1)
  OBVIOUS
<1>13. c \in Cells /\ c.tag = "sub" /\ c.val = N + 1
  BY <1>6, <1>12 DEF SubCell, Cells
<1>14. /\ W \in Seq(Node) /\ Len(W) = N /\ W[n][i] = c
       /\ \A m \in 1 .. N : \A j \in Digits : m # n \/ j # i => W[m][j] = nodes[m][j]
  <2>1. Writes(nodes, W, n, i, c)
    BY <1>6, <1>12, <1>9 DEF Writes
  <2>2. /\ W \in Seq(Node) /\ DOMAIN W = DOMAIN nodes /\ Len(W) = Len(nodes)
        /\ W[n][i] = c
        /\ \A m \in DOMAIN nodes : \A j \in Digits : m # n \/ j # i => W[m][j] = nodes[m][j]
    BY <1>2, <1>5, <1>13, <2>1, WriteParts
  <2> QED
    BY <1>6, <2>2
<1>15. /\ ns \in Seq(Node) /\ DOMAIN ns = 1 .. N + s + 1
       /\ \A m \in 1 .. N : ns[m] = W[m]
       /\ \A m \in N + 1 .. N + s + 1 : ns[m] = ch[m - N]
  <2>1. W \in Seq(Node) /\ Len(W) = N /\ ch \in Seq(Node) /\ Len(ch) = s + 1 /\ ns = W \o ch
    BY <1>11, <1>14, <1>10
  <2>2. ns \in Seq(Node) /\ Len(ns) = N + (s + 1)
    <3>1. W \in Seq(Node) /\ ch \in Seq(Node)
      BY <2>1
    <3>2. W \o ch \in Seq(Node)
      BY <3>1, ConcatProperties
    <3>3. Len(W \o ch) = Len(W) + Len(ch)
      BY <3>1, ConcatProperties
    <3>4. ns = W \o ch
      BY <2>1
    <3>5. Len(W) = N /\ Len(ch) = s + 1
      BY <2>1
    <3> QED
      BY <3>2, <3>3, <3>4, <3>5
  <2>3. \A m \in 1 .. N : ns[m] = W[m]
    BY <2>1
  <2>4. \A m \in N + 1 .. N + s + 1 : ns[m] = ch[m - N]
    BY <2>1
  <2>5. DOMAIN ns = 1 .. N + (s + 1) /\ N + (s + 1) = N + s + 1
    BY <1>3, <1>6, <2>2
  <2> QED
    BY <2>2, <2>3, <2>4, <2>5
<1>16. PICK lev2, key2 :
         /\ lev2 = [m \in DOMAIN ns |-> IF m <= N THEN lev[m] ELSE d + (m - N) - 1]
         /\ key2 = [m \in DOMAIN ns |-> IF m <= N THEN key_of[m] ELSE key]
  OBVIOUS
<1>17. DOMAIN lev2 = DOMAIN ns /\ DOMAIN key2 = DOMAIN ns
  BY <1>16
<1>18. lev2 = [m \in DOMAIN ns |-> lev2[m]] /\ key2 = [m \in DOMAIN ns |-> key2[m]]
  BY <1>16
<1>19. \A m \in 1 .. N : lev2[m] = lev[m] /\ key2[m] = key_of[m]
  <2>1. \A m \in 1 .. N : m \in DOMAIN ns /\ m <= N
    BY <1>3, <1>6, <1>15
  <2> QED
    BY <1>16, <2>1
<1>20. \A m \in N + 1 .. N + s + 1 : lev2[m] = d + (m - N) - 1 /\ key2[m] = key
  <2>1. \A m \in N + 1 .. N + s + 1 : m \in DOMAIN ns /\ ~(m <= N)
    BY <1>3, <1>6, <1>15
  <2> QED
    BY <1>16, <2>1
<1>21. ns[n][i].tag = "sub" /\ ns[n][i].val = N + 1
  BY <1>2, <1>6, <1>13, <1>14, <1>15
<1>22. \A m \in 1 .. N : \A x \in Digits : m # n \/ x # i => ns[m][x] = nodes[m][x]
  BY <1>14, <1>15
<1>23. ASSUME NEW m \in N + 1 .. N + s, NEW x \in Digits
       PROVE  IF x = get_idx(key, lev2[m]) THEN ns[m][x].tag = "sub" /\ ns[m][x].val = m + 1
              ELSE ns[m][x].tag = "none"
  <2>1. PICK j : j = m - N
    OBVIOUS
  <2>2. j \in 1 .. s /\ j = m - N /\ N + j = m
    BY <2>1
  <2>3. m \in N + 1 .. N + s + 1
    BY <1>3, <1>6
  <2>4. lev2[m] = d + j - 1 /\ ns[m] = ch[j]
    BY <1>15, <1>20, <2>2, <2>3
  <2>5. IF x = get_idx(key, d + j - 1)
        THEN ch[j][x].tag = "sub" /\ ch[j][x].val = N + j + 1
        ELSE ch[j][x].tag = "none"
    BY <1>11, <2>2
  <2> QED
    BY <2>2, <2>4, <2>5
<1>24. ns[N + s + 1] = ch[s + 1]
  <2>1. N + s + 1 \in N + 1 .. N + s + 1 /\ (N + s + 1) - N = s + 1
    BY <1>3, <1>6
  <2> QED
    BY <1>15, <2>1
<1>25. \A x \in Digits :
         CASE x = get_idx(key, d + s) -> ns[N + s + 1][x] = ValCell(Rest(key, d + s + 1), v)
           [] x = get_idx(k0, d + s) -> ns[N + s + 1][x] = ValCell(Rest(k0, d + s + 1), dict[k0])
           [] OTHER -> ns[N + s + 1][x].tag = "none"
  BY <1>11, <1>24
<1>26. Splits(ns, lev, key_of, lev2, key2, dict, key, v, d, n, i, k0, s)
  BY <1>3, <1>6, <1>15, <1>17, <1>18, <1>19, <1>20, <1>21, <1>22, <1>23, <1>25 DEF Splits
<1> QED
  BY <1>26

(* A node that a split has made. *)
IsNew(ns, lev2, key2, key, d, s, m) ==
  LET New == DOMAIN ns \ DOMAIN nodes
      E   == Len(nodes) + s + 1
  IN  /\ key2[m] = key /\ lev2[m] \in Nat /\ lev2[m] >= d /\ lev2[m] <= d + s /\ lev2[m] < MaxLevel
      /\ m \in Nat /\ m > Len(nodes)
      /\ m # E => m + 1 \in New /\ lev2[m + 1] = lev2[m] + 1 /\ m \in Len(nodes) + 1 .. Len(nodes) + s
      /\ m = E => lev2[m] = d + s

(* What the nodes of a split are, one by one. *)
LEMMA SplitParts ==
  ASSUME NEW lev, NEW key_of, NEW dict, IsTrie(nodes, lev, key_of, dict), NEW key \in TrieKeys,
         NEW path, NEW d, NEW n, NEW i, EndsAt(lev, key_of, path, key, d, n, i),
         NEW v, NEW ns, NEW lev2, NEW key2, NEW k0, NEW s,
         Splits(ns, lev, key_of, lev2, key2, dict, key, v, d, n, i, k0, s)
  PROVE  /\ Len(nodes) \in Nat /\ s \in Nat /\ d \in Nat /\ DOMAIN nodes = 1 .. Len(nodes)
         /\ DOMAIN ns = 1 .. Len(nodes) + s + 1
         /\ \A m \in DOMAIN nodes :
              /\ m \in DOMAIN ns /\ lev2[m] = lev[m] /\ key2[m] = key_of[m]
              /\ lev2[m] \in Nat /\ lev2[m] < MaxLevel /\ key2[m] \in Nat
         /\ \A m \in DOMAIN ns \ DOMAIN nodes : IsNew(ns, lev2, key2, key, d, s, m)
         /\ \A m \in DOMAIN ns \ DOMAIN nodes : \A q \in DOMAIN ns \ DOMAIN nodes :
              /\ lev2[m] = lev2[q] => m = q
              /\ lev2[m] < lev2[q] => m # Len(nodes) + s + 1
         /\ Len(nodes) + 1 \in DOMAIN ns \ DOMAIN nodes /\ lev2[Len(nodes) + 1] = d
         /\ key \in Nat /\ k0 \in Nat
<1> DEFINE N == Len(nodes)
<1>1. N \in Nat /\ DOMAIN nodes = 1 .. N /\ MaxLevel \in Nat
  BY TrieParts
<1>2. key \in Nat /\ key \in Whole
  BY TrieKeysAssumption DEF Whole
<1>3. d \in Nat
  BY <1>2, EndParts
<1> HIDE DEF N
<1>4. /\ s \in Nat /\ d + s < MaxLevel /\ DOMAIN ns = 1 .. N + s + 1 /\ k0 \in DOMAIN dict
      /\ \A m \in 1 .. N : lev2[m] = lev[m] /\ key2[m] = key_of[m]
      /\ \A m \in N + 1 .. N + s + 1 : lev2[m] = d + (m - N) - 1 /\ key2[m] = key
  BY DEF Splits, N
<1>5. \A m \in 1 .. N : lev[m] \in Nat /\ lev[m] < MaxLevel /\ key_of[m] \in Nat
  BY <1>1, TrieParts
<1>6. k0 \in Nat
  BY <1>4, TrieParts
<1>7. \A m \in DOMAIN nodes : m \in DOMAIN ns
  BY <1>1, <1>4
<1>8. \A m \in DOMAIN ns \ DOMAIN nodes : m \in N + 1 .. N + s + 1 /\ m > N
  BY <1>1, <1>4
<1>9. \A m \in N + 1 .. N + s + 1 : m \in DOMAIN ns \ DOMAIN nodes
  BY <1>1, <1>4
<1>10. ASSUME NEW m \in DOMAIN ns \ DOMAIN nodes
       PROVE  IsNew(ns, lev2, key2, key, d, s, m) /\ lev2[m] = d + (m - N) - 1
  <2>1. m \in N + 1 .. N + s + 1 /\ lev2[m] = d + (m - N) - 1 /\ key2[m] = key
    BY <1>4, <1>8
  <2>2. m # N + s + 1 => m + 1 \in N + 1 .. N + s + 1 /\ m \in N + 1 .. N + s
    BY <1>1, <1>4, <2>1
  <2>3. m # N + s + 1 => lev2[m + 1] = d + ((m + 1) - N) - 1 /\ m + 1 \in DOMAIN ns \ DOMAIN nodes
    BY <1>4, <1>9, <2>2
  <2>4. m \in Int /\ d + ((m + 1) - N) - 1 = (d + (m - N) - 1) + 1
    BY <1>1, <1>3, <2>1
  <2>5. lev2[m] \in Nat /\ lev2[m] >= d /\ lev2[m] <= d + s /\ lev2[m] < MaxLevel
    BY <1>1, <1>3, <1>4, <2>1
  <2>6. m = N + s + 1 => lev2[m] = d + s
    BY <1>1, <1>3, <1>4, <2>1
  <2>7. m > N /\ m \in Nat
    BY <1>1, <1>4, <1>8
  <2> QED
    BY <2>1, <2>2, <2>3, <2>4, <2>5, <2>6, <2>7 DEF IsNew, N
<1>11. \A m \in DOMAIN ns \ DOMAIN nodes : \A q \in DOMAIN ns \ DOMAIN nodes :
         /\ lev2[m] = lev2[q] => m = q
         /\ lev2[m] < lev2[q] => m # N + s + 1
  <2> SUFFICES ASSUME NEW m \in DOMAIN ns \ DOMAIN nodes, NEW q \in DOMAIN ns \ DOMAIN nodes
               PROVE  /\ lev2[m] = lev2[q] => m = q
                      /\ lev2[m] < lev2[q] => m # N + s + 1
    OBVIOUS
  <2>1. m \in Int /\ q \in Int /\ lev2[m] = d + (m - N) - 1 /\ lev2[q] = d + (q - N) - 1
        /\ q <= N + s + 1
    BY <1>1, <1>4, <1>8, <1>10
  <2> QED
    BY <1>1, <1>3, <1>4, <2>1
<1>12. N + 1 \in DOMAIN ns \ DOMAIN nodes /\ lev2[N + 1] = d
  <2>1. N + 1 \in N + 1 .. N + s + 1 /\ d + ((N + 1) - N) - 1 = d
    BY <1>1, <1>3, <1>4
  <2> QED
    BY <1>4, <1>9, <2>1
<1>13. \A m \in DOMAIN nodes :
         /\ m \in DOMAIN ns /\ lev2[m] = lev[m] /\ key2[m] = key_of[m]
         /\ lev2[m] \in Nat /\ lev2[m] < MaxLevel /\ key2[m] \in Nat
  BY <1>1, <1>4, <1>5, <1>7
<1>14. \A m \in DOMAIN ns \ DOMAIN nodes : IsNew(ns, lev2, key2, key, d, s, m)
  BY <1>10
<1>15. N \in Nat /\ s \in Nat /\ DOMAIN nodes = 1 .. N /\ DOMAIN ns = 1 .. N + s + 1
  BY <1>1, <1>4
<1> QED
  BY <1>2, <1>3, <1>6, <1>11, <1>12, <1>13, <1>14, <1>15 DEF N

(* A split keeps every key, and the nodes in their places. *)
LEMMA SplitKeeps ==
  ASSUME NEW lev, NEW key_of, NEW dict, IsTrie(nodes, lev, key_of, dict), NEW key \in TrieKeys,
         NEW path, NEW d, NEW n, NEW i, EndsAt(lev, key_of, path, key, d, n, i),
         nodes[n][i].tag = "val", NEW v \in TrieVals, NEW ns, NEW lev2, NEW key2, NEW k0, NEW s,
         Splits(ns, lev, key_of, lev2, key2, dict, key, v, d, n, i, k0, s)
  PROVE  IsTrie(ns, lev2, key2, With(dict, key, v)) /\ key \notin DOMAIN dict
<1> DEFINE New == DOMAIN ns \ DOMAIN nodes
           E   == Len(nodes) + s + 1
<1>1. key \in Whole
  BY TrieKeysAssumption DEF Whole
<1>2. /\ d \in Nat /\ d - 1 \in Nat /\ (d - 1) + 1 = d /\ lev[n] = d - 1 /\ lev[n] + 1 = d
      /\ n \in DOMAIN nodes /\ i \in Digits /\ i = get_idx(key, d - 1) /\ Agree(key, key_of[n], d - 1)
      /\ key_of[n] \in Nat /\ key \in Nat /\ nodes[n][i].tag # "sub"
  BY <1>1, EndParts
<1>3. /\ s \in Nat /\ DOMAIN ns = 1 .. E
      /\ \A m \in DOMAIN nodes : m \in DOMAIN ns /\ lev2[m] = lev[m] /\ key2[m] = key_of[m]
      /\ \A m \in DOMAIN nodes : lev2[m] \in Nat /\ lev2[m] < MaxLevel /\ key2[m] \in Nat
      /\ \A m \in DOMAIN ns : m \notin DOMAIN nodes => m \in New
      /\ \A m \in New : \A q \in New : (lev2[m] = lev2[q] => m = q) /\ (lev2[m] < lev2[q] => m # E)
      /\ Len(nodes) + 1 \in New /\ lev2[Len(nodes) + 1] = d
      /\ k0 \in Nat
  <2>1. s \in Nat /\ DOMAIN ns = 1 .. E /\ Len(nodes) + 1 \in New /\ lev2[Len(nodes) + 1] = d
        /\ k0 \in Nat
    BY SplitParts
  <2>2. \A m \in DOMAIN nodes :
          /\ m \in DOMAIN ns /\ lev2[m] = lev[m] /\ key2[m] = key_of[m]
          /\ lev2[m] \in Nat /\ lev2[m] < MaxLevel /\ key2[m] \in Nat
    BY SplitParts
  <2>3. \A m \in New : \A q \in New : (lev2[m] = lev2[q] => m = q) /\ (lev2[m] < lev2[q] => m # E)
    BY SplitParts
  <2> QED
    BY <2>1, <2>2, <2>3
<1>4. \A m \in New :
         /\ key2[m] = key /\ lev2[m] \in Nat /\ lev2[m] >= d /\ lev2[m] <= d + s /\ lev2[m] < MaxLevel
         /\ m \in Nat /\ m > Len(nodes)
         /\ m # E => m + 1 \in New /\ lev2[m + 1] = lev2[m] + 1 /\ m \in Len(nodes) + 1 .. Len(nodes) + s
         /\ m = E => lev2[m] = d + s
  <2>1. \A m \in New : IsNew(ns, lev2, key2, key, d, s, m)
    BY SplitParts
  <2> QED
    BY <2>1 DEF IsNew
<1> HIDE DEF New, E
<1>5. /\ ns[n][i].tag = "sub" /\ ns[n][i].val = Len(nodes) + 1
      /\ \A m \in DOMAIN nodes : \A x \in Digits : m # n \/ x # i => ns[m][x] = nodes[m][x]
  <2>1. DOMAIN nodes = 1 .. Len(nodes)
    BY TrieParts
  <2> QED
    BY <2>1 DEF Splits
<1>6. \A m \in New : m # E => \A x \in Digits :
        IF x = get_idx(key, lev2[m]) THEN ns[m][x].tag = "sub" /\ ns[m][x].val = m + 1
        ELSE ns[m][x].tag = "none"
  BY <1>4 DEF Splits
<1>7. \A x \in Digits :
        CASE x = get_idx(key, d + s) -> ns[E][x] = ValCell(Rest(key, d + s + 1), v)
          [] x = get_idx(k0, d + s) -> ns[E][x] = ValCell(Rest(k0, d + s + 1), dict[k0])
          [] OTHER -> ns[E][x].tag = "none"
  BY DEF Splits, E
(* The nodes stay on their levels, and the new ones are below. *)
<1>8. Leveled(ns, lev2, key2)
  <2>1. ns \in Seq(Node) /\ ns # <<>>
    <3>1. ns \in Seq(Node)
      BY DEF Splits
    <3>2. n \in DOMAIN ns
      BY <1>2, <1>3
    <3> QED
      BY <3>1, <3>2
  <2>2. ASSUME NEW m \in DOMAIN ns
        PROVE  lev2[m] \in 0 .. MaxLevel - 1 /\ key2[m] \in Nat /\ (lev2[m] = 0 <=> m = 1)
    <3>1. MaxLevel \in Nat
      BY TrieParts
    <3>2. CASE m \in DOMAIN nodes
      <4>1. lev[m] = 0 <=> m = 1
        BY <3>2 DEF IsTrie, Leveled
      <4> QED
        BY <1>3, <3>1, <3>2, <4>1
    <3>3. CASE m \notin DOMAIN nodes
      <4>1. m \in New
        BY <1>3, <3>3
      <4>2. d # 0 /\ m # 1
        BY <1>2, <3>3, TrieParts
      <4> QED
        BY <1>2, <1>4, <3>1, <4>1, <4>2
    <3> QED
      BY <3>2, <3>3
  <2>3. /\ DOMAIN lev2 = DOMAIN ns /\ DOMAIN key2 = DOMAIN ns
        /\ lev2 = [m \in DOMAIN ns |-> lev2[m]] /\ key2 = [m \in DOMAIN ns |-> key2[m]]
    BY DEF Splits
  <2>4. lev2 \in [DOMAIN ns -> 0 .. MaxLevel - 1] /\ key2 \in [DOMAIN ns -> Nat]
    BY <2>2, <2>3
  <2> QED
    BY <2>1, <2>2, <2>4 DEF Leveled
(* Every cell that leads on leads one level down. *)
<1>9. LeadsDown(ns, lev2, key2)
  <2>1. ASSUME NEW m \in DOMAIN ns, NEW x \in Digits, ns[m][x].tag = "sub", NEW c, c = ns[m][x].val
        PROVE  /\ c \in DOMAIN ns /\ lev2[c] = lev2[m] + 1
               /\ Agree(key2[c], key2[m], lev2[m]) /\ get_idx(key2[c], lev2[m]) = x
    <3>1. CASE m = n /\ x = i
      <4>1. c = Len(nodes) + 1 /\ c \in New
        BY <1>3, <1>5, <2>1, <3>1
      <4>2. key2[c] = key /\ c \in DOMAIN ns
        BY <1>4, <4>1 DEF New
      <4>3. lev2[c] = d /\ lev2[m] = d - 1 /\ key2[m] = key_of[n]
        BY <1>2, <1>3, <3>1, <4>1
      <4> QED
        BY <1>2, <3>1, <4>2, <4>3
    <3>2. CASE m \in DOMAIN nodes /\ (m # n \/ x # i)
      <4>1. ns[m][x] = nodes[m][x]
        BY <1>5, <3>2
      <4>2. /\ c \in DOMAIN nodes /\ lev[c] = lev[m] + 1
            /\ Agree(key_of[c], key_of[m], lev[m]) /\ get_idx(key_of[c], lev[m]) = x
        BY <2>1, <3>2, <4>1 DEF IsTrie, LeadsDown
      <4> QED
        BY <1>3, <3>2, <4>2
    <3>3. CASE m \in New /\ m # E
      <4>1. x = get_idx(key, lev2[m]) /\ c = m + 1
        BY <1>6, <2>1, <3>3
      <4>2. m + 1 \in New /\ lev2[m + 1] = lev2[m] + 1 /\ key2[m] = key /\ lev2[m] \in Nat
        BY <1>4, <3>3
      <4>3. key2[c] = key /\ c \in DOMAIN ns
        BY <1>4, <4>1, <4>2 DEF New
      <4>4. Agree(key, key, lev2[m])
        BY <4>2, AgreeParts
      <4> QED
        BY <4>1, <4>2, <4>3, <4>4
    <3>4. CASE m \in New /\ m = E
      <4>1. ns[E][x].tag # "sub"
        <5>1. \A r, w : ValCell(r, w).tag = "val"
          BY DEF ValCell
        <5>2. ns[E][x].tag = "val" \/ ns[E][x].tag = "none"
          BY <1>7, <5>1
        <5> QED
          BY <5>2
      <4> QED
        BY <2>1, <3>4, <4>1
    <3> QED
      BY <1>3, <3>1, <3>2, <3>3, <3>4
  <2> QED
    BY <2>1 DEF LeadsDown
(* No two nodes are in one place, and the way to each leads there. *)
<1>10. OnePlace(ns, lev2, key2)
  <2>1. \A m \in DOMAIN nodes : \A x \in Digits : nodes[m][x].tag = "sub" => ns[m][x].tag = "sub"
    BY <1>5
  <2>2. \A m \in DOMAIN ns : \A l \in Nat : get_idx(key2[m], l) \in Digits
    <3>1. \A m \in DOMAIN ns : key2[m] \in Nat
      BY <1>2, <1>3, <1>4
    <3> QED
      BY <3>1, RestParts
  <2>3. ASSUME NEW p \in DOMAIN ns, NEW q \in DOMAIN ns, lev2[p] <= lev2[q],
               Agree(key2[q], key2[p], lev2[p])
        PROVE  /\ lev2[p] = lev2[q] => p = q
               /\ lev2[p] < lev2[q] => ns[p][get_idx(key2[q], lev2[p])].tag = "sub"
    <3>1. CASE p \in DOMAIN nodes /\ q \in DOMAIN nodes
      <4>1. /\ lev2[p] = lev[p] /\ lev2[q] = lev[q] /\ key2[p] = key_of[p] /\ key2[q] = key_of[q]
            /\ lev2[p] \in Nat
        BY <1>3, <3>1
      <4>2. /\ lev[p] = lev[q] => p = q
            /\ lev[p] < lev[q] => nodes[p][get_idx(key_of[q], lev[p])].tag = "sub"
        BY <2>3, <3>1, <4>1 DEF IsTrie, OnePlace
      <4>3. get_idx(key_of[q], lev[p]) \in Digits
        BY <2>2, <4>1
      <4> QED
        BY <2>1, <3>1, <4>1, <4>2, <4>3
    <3>2. CASE p \in DOMAIN nodes /\ q \in New
      <4>1. lev2[p] = lev[p] /\ key2[p] = key_of[p] /\ key2[q] = key /\ lev2[q] \in Nat
            /\ lev2[q] >= d /\ lev2[p] \in Nat
        BY <1>3, <1>4, <3>2
      <4>2. Agree(key, key_of[p], lev[p])
        BY <2>3, <4>1
      <4>3. /\ lev[p] = d - 1 => p = n
            /\ lev[p] < d - 1 => nodes[p][get_idx(key, lev[p])].tag = "sub"
            /\ ~(lev[p] > d - 1)
        BY <1>1, <3>2, <4>2, OneEnd
      <4>4. lev2[p] < lev2[q]
        BY <1>2, <4>1, <4>3
      <4>5. CASE lev[p] = d - 1
        BY <1>2, <1>5, <4>1, <4>3, <4>4, <4>5
      <4>6. CASE lev[p] < d - 1
        <5>1. get_idx(key, lev[p]) \in Digits
          BY <2>2, <4>1
        <5> QED
          BY <2>1, <3>2, <4>1, <4>3, <4>4, <4>6, <5>1
      <4> QED
        BY <1>2, <4>1, <4>3, <4>5, <4>6
    <3>3. CASE p \in New /\ q \in DOMAIN nodes
      <4>1. /\ lev2[q] = lev[q] /\ key2[q] = key_of[q] /\ key2[p] = key /\ lev2[q] \in Nat
               /\ key_of[q] \in Nat
            /\ lev2[p] \in Nat /\ lev2[p] >= d
        BY <1>3, <1>4, <3>3
      <4>2. Agree(key_of[q], key, lev2[p]) /\ d \in 0 .. lev2[p] /\ d - 1 \in 0 .. lev2[p] - 1
            /\ d - 1 \in 0 .. lev2[p]
        BY <1>2, <2>3, <4>1
      <4>3. Agree(key_of[q], key, d - 1) /\ get_idx(key_of[q], d - 1) = get_idx(key, d - 1)
        BY <1>2, <4>1, <4>2, AgreeParts
      <4>4. Agree(key_of[q], key_of[n], d - 1)
        BY <1>2, <4>1, <4>3, AgreeParts
      <4>5. lev[n] < lev[q]
        BY <1>2, <2>3, <4>1
      <4>6. nodes[n][get_idx(key_of[q], lev[n])].tag = "sub"
        BY <1>2, <3>3, <4>4, <4>5 DEF IsTrie, OnePlace
      <4> QED
        BY <1>2, <4>3, <4>6
    <3>4. CASE p \in New /\ q \in New
      <4>1. lev2[p] = lev2[q] => p = q
        BY <1>3, <3>4
      <4>2. ASSUME lev2[p] < lev2[q]
            PROVE  ns[p][get_idx(key2[q], lev2[p])].tag = "sub"
        <5>1. p # E
          BY <1>3, <3>4, <4>2
        <5>2. key2[q] = key /\ lev2[p] \in Nat
          BY <1>4, <3>4
        <5>3. get_idx(key, lev2[p]) \in Digits
          BY <2>2, <5>2
        <5> QED
          BY <1>6, <3>4, <5>1, <5>2, <5>3
      <4> QED
        BY <4>1, <4>2
    <3> QED
      BY <1>3, <3>1, <3>2, <3>3, <3>4
  <2>4. \A m \in DOMAIN ns : lev2[m] \in Nat
    BY <1>3, <1>4
  <2> QED
    BY <2>3, <2>4 DEF OnePlace
(* Every node but the root is pointed at. *)
<1>11. Pointed(ns)
  <2>1. ASSUME NEW m \in DOMAIN ns \ {1}
        PROVE  \E p \in DOMAIN ns : \E x \in Digits : ns[p][x].tag = "sub" /\ ns[p][x].val = m
    <3>1. CASE m \in DOMAIN nodes
      <4>1. PICK p \in DOMAIN nodes, x \in Digits : nodes[p][x].tag = "sub" /\ nodes[p][x].val = m
        BY <3>1 DEF IsTrie, Pointed
      <4>2. ns[p][x] = nodes[p][x] /\ p \in DOMAIN ns
        BY <1>2, <1>3, <1>5, <4>1
      <4> QED
        BY <4>1, <4>2
    <3>2. CASE m = Len(nodes) + 1
      <4>1. n \in DOMAIN ns
        BY <1>2, <1>3
      <4> QED
        BY <1>2, <1>5, <3>2, <4>1
    <3>3. CASE m \in New /\ m # Len(nodes) + 1
      <4>1. Len(nodes) \in Nat /\ DOMAIN nodes = 1 .. Len(nodes)
        BY TrieParts
      <4>2. m \in Nat /\ m > Len(nodes) /\ m \in 1 .. E /\ E \in Nat
        BY <1>3, <1>4, <3>3, <4>1 DEF New, E
      <4>3. PICK p \in Nat : p = m - 1 /\ p + 1 = m /\ p # E /\ p \in 1 .. E /\ p > Len(nodes)
        BY <3>3, <4>1, <4>2
      <4>4. p \in New
        BY <1>3, <4>1, <4>3 DEF New
      <4>5. PICK x \in Digits : x = get_idx(key, lev2[p])
        BY <1>2, <1>4, <4>4, RestParts
      <4>6. ns[p][x].tag = "sub" /\ ns[p][x].val = m
        BY <1>6, <4>3, <4>4, <4>5
      <4> QED
        BY <4>4, <4>6 DEF New
    <3> QED
      BY <1>3, <3>1, <3>2, <3>3
  <2> QED
    BY <2>1 DEF Pointed
(* No key is lost or misplaced. *)
<1>12. HoldsAll(ns, lev2, key2, With(dict, key, v)) /\ key \notin DOMAIN dict
  <2>1. /\ k0 \in DOMAIN dict /\ ByCell(lev, key_of, dict, n, i) = {k0} /\ key # k0
        /\ Agree(k0, key, d + s) /\ get_idx(k0, d + s) # get_idx(key, d + s)
    BY DEF Splits
  <2>2. key \notin DOMAIN dict
    BY <2>1, MatchesIs
  <2>3. PICK e : e = With(dict, key, v)
    OBVIOUS
  <2>4. /\ DOMAIN e = DOMAIN dict \cup {key} /\ e[key] = v /\ \A k \in DOMAIN dict : e[k] = dict[k]
    BY <2>2, <2>3 DEF With
  <2>5. DOMAIN e \subseteq TrieKeys /\ e \in [DOMAIN e -> TrieVals]
    <3>1. \A k \in DOMAIN e : e[k] \in TrieVals
      BY <2>4, TrieParts
    <3>2. e = [k \in DOMAIN e |-> e[k]]
      BY <2>3 DEF With
    <3> QED
      BY <2>4, <3>1, <3>2, TrieParts
  <2>6. \A k \in DOMAIN e : k \in Nat /\ \A l \in Nat : get_idx(k, l) \in Digits
    <3>1. \A k \in DOMAIN e : k \in Nat
      BY <1>2, <2>4, TrieParts
    <3> QED
      BY <3>1, RestParts
  <2>7. E \in New => lev2[E] = d + s /\ key2[E] = key
    BY <1>4
  <2>8. \A r, w : ValCell(r, w).tag = "val" /\ ValCell(r, w).key = r /\ ValCell(r, w).val = w
    BY DEF ValCell
  <2>9. ASSUME NEW m \in DOMAIN ns, NEW k \in DOMAIN e, NEW j, j = get_idx(k, lev2[m]),
                Agree(k, key2[m], lev2[m]), ns[m][j].tag # "sub"
         PROVE  KeptAt(ns, lev2, m, j, k, e[k])
    <3>1. lev2[m] \in Nat /\ j \in Digits
      BY <1>3, <1>4, <2>6, <2>9
    <3>2. CASE m \in DOMAIN nodes
      <4>1. m # n \/ j # i
        BY <1>5, <2>9
      <4>2. ns[m][j] = nodes[m][j] /\ lev2[m] = lev[m] /\ key2[m] = key_of[m]
        BY <1>3, <1>5, <3>1, <3>2, <4>1
      <4>3. k # key
        <5>1. ASSUME k = key
              PROVE  FALSE
          <6>1. /\ lev[m] = d - 1 => m = n
                /\ lev[m] < d - 1 => nodes[m][get_idx(key, lev[m])].tag = "sub"
                /\ ~(lev[m] > d - 1)
            BY <1>1, <2>9, <3>2, <4>2, <5>1, OneEnd
          <6> QED
            BY <1>2, <2>9, <3>1, <4>1, <4>2, <5>1, <6>1
        <5> QED
          BY <5>1
      <4>4. k \in DOMAIN dict /\ e[k] = dict[k]
        BY <2>4, <4>3
      <4>5. KeptAt(nodes, lev, m, j, k, dict[k])
        BY <2>9, <3>2, <4>2, <4>4 DEF IsTrie, HoldsAll
      <4> QED
        BY <4>2, <4>4, <4>5 DEF KeptAt
    <3>3. CASE m \in New
      <4>1. /\ key2[m] = key /\ lev2[m] >= d /\ lev2[m] <= d + s
            /\ d - 1 \in 0 .. lev2[m] - 1 /\ d - 1 \in 0 .. lev2[m]
        BY <1>2, <1>4, <3>1, <3>3
      <4>2. k = key \/ k = k0
        <5>1. SUFFICES ASSUME k \in DOMAIN dict
                       PROVE  k = k0
          BY <2>4
        <5>2. Agree(k, key, d - 1) /\ get_idx(k, d - 1) = i
          BY <1>2, <2>6, <2>9, <3>1, <4>1, AgreeParts
        <5>3. Agree(k, key_of[n], d - 1)
          BY <1>2, <2>6, <5>2, AgreeParts
        <5>4. k \in ByCell(lev, key_of, dict, n, i)
          BY <1>2, <5>1, <5>2, <5>3 DEF ByCell
        <5> QED
          BY <2>1, <5>4
      <4>3. m = E
        <5>1. ASSUME m # E
              PROVE  FALSE
          <6>1. lev2[m] < d + s
            <7>1. m + 1 \in New /\ lev2[m + 1] = lev2[m] + 1
              BY <1>4, <3>3, <5>1
            <7>2. lev2[m + 1] <= d + s
              BY <1>4, <7>1
            <7> QED
              BY <1>2, <1>3, <3>1, <7>1, <7>2
          <6>2. lev2[m] \in 0 .. (d + s) - 1 /\ d + s \in Nat
            BY <1>2, <1>3, <3>1, <6>1
          <6>3. get_idx(k0, lev2[m]) = get_idx(key, lev2[m])
            BY <2>1, <6>2 DEF Agree
          <6>4. j = get_idx(key, lev2[m])
            BY <2>9, <4>2, <6>3
          <6> QED
            BY <1>6, <2>9, <3>1, <3>3, <5>1, <6>4
        <5> QED
          BY <5>1
      <4>4. lev2[m] = d + s /\ j = get_idx(k, d + s) /\ lev2[m] + 1 = d + s + 1
        BY <1>2, <1>3, <1>4, <2>9, <3>3, <4>3
      <4>5. ns[m][j] = ValCell(Rest(k, d + s + 1), e[k])
        BY <1>7, <2>1, <2>4, <3>1, <4>2, <4>3, <4>4
      <4> QED
        BY <2>8, <4>4, <4>5 DEF KeptAt
    <3> QED
      BY <1>3, <3>2, <3>3
  <2>10. ASSUME NEW m \in DOMAIN ns, NEW j \in Digits, ns[m][j].tag = "val"
         PROVE  \E k \in DOMAIN e : /\ Agree(k, key2[m], lev2[m]) /\ get_idx(k, lev2[m]) = j
                                    /\ KeptAt(ns, lev2, m, j, k, e[k])
    <3>1. CASE m \in DOMAIN nodes
      <4>1. m # n \/ j # i
        BY <1>5, <2>10
      <4>2. ns[m][j] = nodes[m][j] /\ lev2[m] = lev[m] /\ key2[m] = key_of[m]
        BY <1>3, <1>5, <3>1, <4>1
      <4>3. PICK k \in DOMAIN dict : /\ Agree(k, key_of[m], lev[m]) /\ get_idx(k, lev[m]) = j
                                     /\ KeptAt(nodes, lev, m, j, k, dict[k])
        BY <2>10, <3>1, <4>2 DEF IsTrie, HoldsAll
      <4> QED
        BY <2>4, <4>2, <4>3 DEF KeptAt
    <3>2. CASE m \in New
      <4>1. m = E
        BY <1>6, <2>10, <3>2
      <4>2. lev2[m] = d + s /\ key2[m] = key /\ lev2[m] + 1 = d + s + 1 /\ d + s \in Nat
        BY <1>2, <1>3, <1>4, <3>2, <4>1
      <4>3. CASE j = get_idx(key, d + s)
        <5>1. ns[m][j] = ValCell(Rest(key, d + s + 1), e[key])
          BY <1>7, <2>1, <2>4, <4>1, <4>3
        <5>2. Agree(key, key, d + s)
          BY <4>2, AgreeParts
        <5> QED
          BY <2>4, <2>8, <4>2, <4>3, <5>1, <5>2 DEF KeptAt
      <4>4. CASE j = get_idx(k0, d + s)
        <5>1. ns[m][j] = ValCell(Rest(k0, d + s + 1), e[k0])
          BY <1>7, <2>1, <2>4, <4>1, <4>4
        <5> QED
          BY <2>1, <2>4, <2>8, <4>2, <4>4, <5>1 DEF KeptAt
      <4>5. CASE j # get_idx(key, d + s) /\ j # get_idx(k0, d + s)
        BY <1>7, <2>10, <4>1, <4>5
      <4> QED
        BY <4>3, <4>4, <4>5
    <3> QED
      BY <1>3, <3>1, <3>2
  <2>11. HoldsAll(ns, lev2, key2, e)
    BY <2>5, <2>9, <2>10 DEF HoldsAll
  <2> QED
    BY <2>2, <2>3, <2>11
<1> QED
  BY <1>8, <1>9, <1>10, <1>11, <1>12 DEF IsTrie

(* Shifting to the left multiplies by the base at each digit. *)
LEMMA ShiftParts ==
  /\ Shift[0] = 1
  /\ \A d \in Nat : Shift[d] \in Nat /\ Shift[d + 1] = Base * Shift[d]
<1> DEFINE step == [x \in Nat |-> Base * x]
           Shifted(f) == f = [d \in Nat |-> IF d = 0 THEN 1 ELSE Base * f[d - 1]]
           shift == CHOOSE f : Shifted(f)
<1>1. step \in [Nat -> Nat] /\ 1 \in Nat
  BY BaseAssumption
<1>2. PICK f \in [Nat -> Nat] : f[0] = 1 /\ \A j \in Nat : f[j + 1] = step[f[j]]
  <2> DEFINE S     == Nat
             first == 1
  <2>1. first \in S /\ step \in [S -> S]
    BY <1>1
  <2> HIDE DEF step, Shifted, shift, S, first
  <2>2. \E f \in [Nat -> S] : f[0] = first /\ \A j \in Nat : f[j + 1] = step[f[j]]
    BY <2>1, Iteration
  <2> QED
    BY <2>2 DEF S, first
<1>3. \A j \in Nat : f[j] = IF j = 0 THEN 1 ELSE Base * f[j - 1]
  <2> TAKE j \in Nat
  <2>1. CASE j = 0
    BY <1>2, <2>1
  <2>2. CASE j # 0
    <3>1. j - 1 \in Nat /\ j = (j - 1) + 1
      BY <2>2
    <3>2. f[j] = step[f[j - 1]] /\ f[j - 1] \in Nat
      BY <1>2, <3>1
    <3> QED
      BY <2>2, <3>2
  <2> QED
    BY <2>1, <2>2
<1>4. Shifted(f)
  BY <1>2, <1>3
<1>5. Shifted(shift)
  <2> HIDE DEF Shifted
  <2> QED
    BY <1>4
<1>6. Shift = shift
  BY DEF Shift
<1> HIDE DEF shift
<1>7. Shift[0] = 1 /\ \A d \in Nat : Shift[d + 1] = Base * Shift[d]
  <2>1. \A d \in Nat : Shift[d] = IF d = 0 THEN 1 ELSE Base * Shift[d - 1]
    BY <1>5, <1>6
  <2>2. \A d \in Nat : d + 1 \in Nat /\ d + 1 # 0 /\ (d + 1) - 1 = d
    OBVIOUS
  <2> QED
    BY <2>1, <2>2
<1> DEFINE T == {d \in Nat : Shift[d] \in Nat}
<1>8. 0 \in T /\ \A d \in Nat : d \in T => d + 1 \in T
  BY <1>7, BaseAssumption
<1> HIDE DEF T
<1>9. Nat \subseteq T
  BY <1>8, NatSetInduction
<1> QED
  BY <1>7, <1>9 DEF T

(* The product that a digit and what is left of the key go into. *)
LEMMA Products ==
  /\ \A x, y \in Nat : x * y \in Nat
  /\ \A g, b, r, h \in Nat : (g + b * r) * h = (g * h) + (r * (b * h))
<1>1. \A x, y \in Nat : x * y \in Nat
  OBVIOUS
<1>2. \A g, b, r, h \in Nat : (g + b * r) * h = (g * h) + (r * (b * h))
  OBVIOUS
<1> QED
  BY <1>1, <1>2

(* The indexes of a path and the rest of the key are the key again. *)
LEMMA GatheredIs ==
  ASSUME NEW key \in Nat, NEW path, NEW d \in Nat, d = Len(path),
         \A j \in 1 .. d : path[j].idx = get_idx(key, j - 1)
  PROVE  Gathered(path, key) = key
<1> DEFINE left(j) == Rest(key, j) * Shift[j]
           at(j) == path[j].idx * Shift[j - 1]
           G == [j \in 0 .. d |-> key - left(j)]
           Body(f) == [j \in 0 .. d |-> IF j = 0 THEN 0 ELSE f[j - 1] + at(j)]
           pre == CHOOSE f : f = Body(f)
<1>1. \A j \in Nat : /\ Rest(key, j) \in Nat /\ get_idx(key, j) \in Nat
                     /\ Rest(key, j) = get_idx(key, j) + Base * Rest(key, j + 1)
  <2>1. \A j \in Nat : /\ Rest(key, j) \in Nat /\ get_idx(key, j) \in Digits
                       /\ Rest(key, j) = get_idx(key, j) + Base * Rest(key, j + 1)
    BY RestParts
  <2>2. \A x \in Digits : x \in Nat
    BY BaseAssumption DEF Digits
  <2> QED
    BY <2>1, <2>2
<1>2. left(0) = key
  <2>1. Rest(key, 0) = key /\ Shift[0] = 1
    BY RestParts, ShiftParts
  <2> QED
    BY <2>1
<1>3. \A j \in Nat : left(j) \in Nat
  BY <1>1, ShiftParts, Products
<1>4. ASSUME NEW j \in 1 .. d
      PROVE  at(j) \in Nat /\ left(j - 1) = at(j) + left(j)
  <2>1. PICK k \in Nat : k = j - 1 /\ k + 1 = j
    OBVIOUS
  <2>2. PICK b \in Nat, r \in Nat, h \in Nat, g \in Nat :
          b = Base /\ r = Rest(key, j) /\ h = Shift[k] /\ g = get_idx(key, k)
    <3>1. j \in Nat /\ Base \in Nat
      BY BaseAssumption
    <3> QED
      BY <1>1, <2>1, <3>1, ShiftParts
  <2>3. Rest(key, k) = g + b * r
    BY <1>1, <2>1, <2>2
  <2>4. Shift[j] = b * h
    BY <2>1, <2>2, ShiftParts
  <2>5. path[j].idx = g
    BY <2>1, <2>2
  <2>6. (g + b * r) * h = (g * h) + (r * (b * h)) /\ g * h \in Nat
    BY Products
  <2>7. left(j - 1) = (g + b * r) * h /\ at(j) = g * h /\ left(j) = r * (b * h)
    BY <2>1, <2>2, <2>3, <2>4, <2>5
  <2> HIDE DEF left, at
  <2> QED
    BY <2>6, <2>7
<1> HIDE DEF left, at
<1>5. G[0] = 0 /\ \A j \in 1 .. d : G[j] = G[j - 1] + at(j)
  <2>1. G[0] = 0
    BY <1>2
  <2>2. ASSUME NEW j \in 1 .. d
        PROVE  G[j] = G[j - 1] + at(j)
    <3>1. j - 1 \in 0 .. d /\ j \in 0 .. d /\ j \in Nat /\ j - 1 \in Nat
      OBVIOUS
    <3>2. G[j] = key - left(j) /\ G[j - 1] = key - left(j - 1)
      BY <3>1
    <3>3. left(j) \in Nat /\ left(j - 1) \in Nat
      BY <1>3, <3>1
    <3> HIDE DEF G
    <3> QED
      BY <1>4, <3>2, <3>3
  <2> QED
    BY <2>1, <2>2
<1>6. G = Body(G)
  <2>1. G = [j \in 0 .. d |-> G[j]]
    OBVIOUS
  <2> HIDE DEF G
  <2>2. \A j \in 0 .. d : G[j] = IF j = 0 THEN 0 ELSE G[j - 1] + at(j)
    BY <1>5
  <2> QED
    BY <2>1, <2>2
<1>7. pre = Body(pre)
  <2> HIDE DEF G, Body
  <2> QED
    BY <1>6
<1>8. Pushed(path) = pre[d]
  BY DEF Pushed, at
<1> HIDE DEF pre
<1>9. \A j \in 0 .. d : pre[j] = IF j = 0 THEN 0 ELSE pre[j - 1] + at(j)
  BY <1>7
<1>10. G[d] = key - left(d)
  OBVIOUS
<1> HIDE DEF G
<1> DEFINE T == {j \in Nat : j <= d => pre[j] = G[j]}
<1>11. 0 \in T
  BY <1>5, <1>9
<1>12. \A j \in Nat : j \in T => j + 1 \in T
  <2> SUFFICES ASSUME NEW j \in Nat, j \in T, j + 1 <= d
               PROVE  pre[j + 1] = G[j + 1]
    OBVIOUS
  <2>1. j + 1 \in 1 .. d /\ j + 1 # 0 /\ (j + 1) - 1 = j /\ j + 1 \in 0 .. d
    OBVIOUS
  <2>2. pre[j] = G[j]
    OBVIOUS
  <2>3. pre[j + 1] = pre[j] + at(j + 1)
    BY <1>9, <2>1
  <2>4. G[j + 1] = G[j] + at(j + 1)
    BY <1>5, <2>1
  <2> QED
    BY <2>2, <2>3, <2>4
<1> HIDE DEF T
<1>13. d \in T
  BY <1>11, <1>12, NatSetInduction
<1>14. pre[d] = G[d]
  BY <1>13 DEF T
<1>15. Gathered(path, key) = pre[d] + left(d)
  BY <1>8 DEF Gathered, left
<1> QED
  BY <1>3, <1>10, <1>14, <1>15

(* Every node but the root is pointed at by one cell. *)
LEMMA FreesOnce ==
  ASSUME NEW lev, NEW key_of, NEW dict, IsTrie(nodes, lev, key_of, dict)
  PROVE  FreesEachNodeOnce
<1> SUFFICES ASSUME NEW m \in DOMAIN nodes
             PROVE  Cardinality({c \in (DOMAIN nodes) \X Digits :
                                   nodes[c[1]][c[2]].tag = "sub" /\ nodes[c[1]][c[2]].val = m})
                    = IF m = 1 THEN 0 ELSE 1
  BY DEF FreesEachNodeOnce
<1> DEFINE At(n, i) == nodes[n][i].tag = "sub" /\ nodes[n][i].val = m
           C == {c \in (DOMAIN nodes) \X Digits : At(c[1], c[2])}
<1>1. ASSUME NEW n \in DOMAIN nodes, NEW i \in Digits, At(n, i)
      PROVE  /\ lev[m] = lev[n] + 1 /\ lev[n] \in Nat /\ key_of[n] \in Nat
             /\ Agree(key_of[m], key_of[n], lev[n]) /\ get_idx(key_of[m], lev[n]) = i
  BY <1>1, TrieParts DEF IsTrie, LeadsDown
<1>2. CASE m = 1
  <2>1. C = {}
    <3>1. ASSUME NEW c \in C
          PROVE  FALSE
      <4>1. lev[m] = lev[c[1]] + 1 /\ lev[c[1]] \in Nat
        BY <1>1
      <4> QED
        BY <1>2, <4>1, TrieParts
    <3> QED
      BY <3>1
  <2> QED
    BY <1>2, <2>1, FS_EmptySet
<1>3. CASE m # 1
  <2>1. PICK n \in DOMAIN nodes, i \in Digits : At(n, i)
    BY <1>3 DEF IsTrie, Pointed
  <2>2. ASSUME NEW p \in DOMAIN nodes, NEW j \in Digits, At(p, j)
        PROVE  p = n /\ j = i
    <3>1. PICK l \in Nat : /\ l = lev[n] /\ l = lev[p] /\ key_of[n] \in Nat /\ key_of[p] \in Nat
                           /\ Agree(key_of[m], key_of[n], l) /\ get_idx(key_of[m], l) = i
                           /\ Agree(key_of[m], key_of[p], l) /\ get_idx(key_of[m], l) = j
      <4>1. /\ lev[m] = lev[n] + 1 /\ lev[n] \in Nat /\ key_of[n] \in Nat
            /\ Agree(key_of[m], key_of[n], lev[n]) /\ get_idx(key_of[m], lev[n]) = i
        BY <1>1, <2>1
      <4>2. /\ lev[m] = lev[p] + 1 /\ lev[p] \in Nat /\ key_of[p] \in Nat
            /\ Agree(key_of[m], key_of[p], lev[p]) /\ get_idx(key_of[m], lev[p]) = j
        BY <1>1, <2>2
      <4>3. lev[n] = lev[p]
        BY <4>1, <4>2
      <4> QED
        BY <4>1, <4>2, <4>3
    <3>2. key_of[m] \in Nat
      BY TrieParts
    <3>3. Agree(key_of[p], key_of[m], l)
      BY <3>1, <3>2, AgreeParts
    <3>4. Agree(key_of[p], key_of[n], l)
      BY <3>1, <3>2, <3>3, AgreeParts
    <3>5. n = p
      BY <3>1, <3>4 DEF IsTrie, OnePlace
    <3> QED
      BY <3>1, <3>5
  <2> HIDE DEF At
  <2>3. C = {<<n, i>>}
    BY <2>1, <2>2
  <2>4. Cardinality({<<n, i>>}) = 1
    BY FS_Singleton
  <2> QED
    BY <1>3, <2>3, <2>4 DEF At
<1> QED
  BY <1>2, <1>3

(* Where the iterator stands: at the end of the descent for its key. *)
IterOK(lev, key_of, dict) ==
  /\ iter.pre \in DOMAIN dict
  /\ \E d, n, i : EndsAt(lev, key_of, iter.level, iter.pre, d, n, i)

(* A view of the whole state. *)
View(lev, key_of, dict) ==
  /\ IsTrie(nodes, lev, key_of, dict) /\ Needed(nodes, lev, key_of, ever) /\ DOMAIN dict \subseteq ever
  /\ fresh => IterOK(lev, key_of, dict)

TrieInv ==
  /\ (nodes = <<>> /\ ~fresh) \/ \E lev, key_of, dict : View(lev, key_of, dict)
  /\ ever \subseteq TrieKeys /\ fresh \in BOOLEAN /\ PathFits

(* What the view says of the iterator and of the nodes is what the       *)
(* properties say.                                                       *)
LEMMA ViewHolds ==
  ASSUME NEW lev, NEW key_of, NEW dict, View(lev, key_of, dict)
  PROVE  FreesEachNodeOnce /\ IteratorHolds
<1>1. IsTrie(nodes, lev, key_of, dict)
  BY DEF View
<1>2. FreesEachNodeOnce
  BY <1>1, FreesOnce
<1>3. Content(nodes) = dict
  BY <1>1, ContentIs
<1>4. ASSUME fresh
      PROVE  iter.pre \in DOMAIN dict /\ iter_item = <<iter.pre, dict[iter.pre]>>
  <2>1. iter.pre \in DOMAIN dict
    BY <1>4 DEF View, IterOK
  <2>2. PICK d, n, i : EndsAt(lev, key_of, iter.level, iter.pre, d, n, i)
    BY <1>4 DEF View, IterOK
  <2>3. iter.pre \in TrieKeys
    BY <1>1, <2>1, TrieParts
  <2>4. nodes[n][i].val = dict[iter.pre]
    BY <1>1, <2>1, <2>2, <2>3, MatchesIs
  <2>5. CellAt(Last(iter.level)).val = dict[iter.pre] /\ iter.level # <<>>
    <3>1. 1 \in DOMAIN iter.level
      BY <1>1, <2>2, TrieParts DEF EndsAt
    <3>2. iter.level # <<>>
      BY <3>1
    <3> QED
      BY <2>2, <2>4, <3>2 DEF EndsAt
  <2> QED
    BY <2>1, <2>5 DEF iter_item
<1>5. IteratorHolds
  BY <1>3, <1>4 DEF IteratorHolds
<1> QED
  BY <1>2, <1>5

(* A call for a key that does not come by the iterator's cell has        *)
(* another cell.                                                         *)
LEMMA Elsewhere ==
  ASSUME NEW lev, NEW key_of, NEW dict, IsTrie(nodes, lev, key_of, dict),
         NEW key \in Nat, NEW path, NEW e, NEW m, NEW j, EndsAt(lev, key_of, path, key, e, m, j),
         iter.pre \in Nat, NEW d, NEW n, NEW i, EndsAt(lev, key_of, iter.level, iter.pre, d, n, i),
         ~AtIterator(key)
  PROVE  (n # m \/ i # j) /\ key # iter.pre
<1>1. d \in 1 .. MaxLevel /\ MaxLevel \in Nat /\ DOMAIN iter.level = 1 .. d
  BY TrieParts DEF EndsAt
<1>2. d \in Nat /\ d - 1 \in Nat /\ (d - 1) + 1 = d
  BY <1>1
<1>3. \A l \in 1 .. d : iter.level[l].idx = get_idx(iter.pre, l - 1)
  BY DEF EndsAt
<1>4. key # iter.pre
  BY <1>1, <1>3 DEF AtIterator
<1>5. ASSUME n = m, i = j
      PROVE  FALSE
  <2>1. /\ n \in DOMAIN nodes /\ lev[n] = d - 1 /\ Agree(iter.pre, key_of[n], d - 1)
           /\ i = get_idx(iter.pre, d - 1)
    BY DEF EndsAt
  <2>2. lev[n] = e - 1 /\ Agree(key, key_of[n], e - 1) /\ i = get_idx(key, e - 1)
    BY <1>5 DEF EndsAt
  <2>3. Agree(key, key_of[n], d - 1) /\ i = get_idx(key, d - 1)
    <3>1. d - 1 = e - 1
      BY <2>1, <2>2
    <3> QED
      BY <2>2, <3>1
  <2>4. Agree(key_of[n], iter.pre, d - 1)
    BY <1>2, <2>1, TrieParts, AgreeParts
  <2>5. Agree(key, iter.pre, d - 1)
    BY <1>2, <2>3, <2>4, AgreeParts
  <2>6. Agree(key, iter.pre, d)
    BY <1>2, <2>1, <2>3, <2>5, AgreeParts
  <2>7. \A l \in 1 .. d : get_idx(key, l - 1) = iter.level[l].idx
    <3>1. \A l \in 1 .. d : l - 1 \in 0 .. d - 1
      BY <1>2
    <3> QED
      BY <1>3, <2>6, <3>1 DEF Agree
  <2> QED
    BY <1>1, <2>7 DEF AtIterator
<1> QED
  BY <1>4, <1>5

(* What a change of one cell keeps of the view, as the nodes are right. *)
LEMMA ChangeKeeps ==
  ASSUME NEW lev, NEW key_of, NEW dict, View(lev, key_of, dict), fresh \in BOOLEAN,
         NEW key \in Nat, NEW path, NEW e, NEW m, NEW j, EndsAt(lev, key_of, path, key, e, m, j),
         NEW lev2, NEW key2, NEW dict2, IsTrie(nodes', lev2, key2, dict2),
         \A p \in DOMAIN nodes : p \in DOMAIN nodes' /\ lev2[p] = lev[p] /\ key2[p] = key_of[p],
         \A p \in DOMAIN nodes : \A x \in Digits : p # m \/ x # j => nodes'[p][x] = nodes[p][x],
         Needed(nodes', lev2, key2, ever'), DOMAIN dict2 \subseteq ever',
         DOMAIN dict \ {key} \subseteq DOMAIN dict2,
         iter' = iter, fresh' = (fresh /\ ~AtIterator(key))
  PROVE  View(lev2, key2, dict2)' /\ fresh' \in BOOLEAN
<1>1. IsTrie(nodes, lev, key_of, dict)
  BY DEF View
<1>2. fresh' \in BOOLEAN
  OBVIOUS
<1>3. ASSUME fresh'
      PROVE  IterOK(lev2, key2, dict2)'
  <2>1. fresh /\ ~AtIterator(key)
    BY <1>3
  <2>2. iter.pre \in DOMAIN dict
    BY <2>1 DEF View, IterOK
  <2>3. PICK d, n, i : EndsAt(lev, key_of, iter.level, iter.pre, d, n, i)
    BY <2>1 DEF View, IterOK
  <2>4. iter.pre \in Nat
    BY <1>1, <2>2, TrieParts
  <2>5. (n # m \/ i # j) /\ key # iter.pre
    BY <1>1, <2>1, <2>3, <2>4, Elsewhere
  <2>6. n \in DOMAIN nodes /\ i \in Digits
    BY <2>3 DEF EndsAt
  <2>7. nodes'[n][i] = nodes[n][i] /\ n \in DOMAIN nodes' /\ lev2[n] = lev[n] /\ key2[n] = key_of[n]
    BY <2>5, <2>6
  <2>8. EndsAt(lev2, key2, iter.level, iter.pre, d, n, i)'
    BY <2>3, <2>7 DEF EndsAt, CellAt
  <2>9. iter'.pre \in DOMAIN dict2
    BY <2>2, <2>5
  <2> QED
    BY <2>8, <2>9 DEF IterOK
<1> QED
  BY <1>2, <1>3 DEF View

(* By the nodes of a split come the new key and the one that was there. *)
LEMMA SplitNeeded ==
  ASSUME NEW lev, NEW key_of, NEW dict, IsTrie(nodes, lev, key_of, dict), NEW key \in TrieKeys,
         NEW path, NEW d, NEW n, NEW i, EndsAt(lev, key_of, path, key, d, n, i),
         NEW v, NEW ns, NEW lev2, NEW key2, NEW k0, NEW s,
         Splits(ns, lev, key_of, lev2, key2, dict, key, v, d, n, i, k0, s),
         NEW keys, Needed(nodes, lev, key_of, keys), DOMAIN dict \subseteq keys
  PROVE  Needed(ns, lev2, key2, keys \cup {key})
<1>1. /\ s \in Nat /\ d \in Nat /\ key \in Nat /\ k0 \in Nat
      /\ \A m \in DOMAIN nodes : lev2[m] = lev[m] /\ key2[m] = key_of[m]
  BY SplitParts
<1>2. \A m \in DOMAIN ns \ DOMAIN nodes : IsNew(ns, lev2, key2, key, d, s, m)
  BY SplitParts
<1>3. k0 \in DOMAIN dict /\ key # k0 /\ Agree(k0, key, d + s)
  BY DEF Splits
<1>4. ASSUME NEW m \in DOMAIN ns \ {1}
      PROVE  \E k \in keys \cup {key} : \E q \in keys \cup {key} :
               k # q /\ Agree(k, key2[m], lev2[m]) /\ Agree(q, key2[m], lev2[m])
  <2>1. CASE m \in DOMAIN nodes
    <3>1. \E k \in keys : \E q \in keys :
             k # q /\ Agree(k, key_of[m], lev[m]) /\ Agree(q, key_of[m], lev[m])
      BY <2>1 DEF Needed
    <3> QED
      BY <1>1, <2>1, <3>1
  <2>2. CASE m \notin DOMAIN nodes
    <3>1. key2[m] = key /\ lev2[m] \in Nat /\ lev2[m] <= d + s
      BY <1>2, <2>2 DEF IsNew
    <3>2. Agree(key, key, lev2[m])
      BY <3>1, AgreeParts
    <3>3. lev2[m] \in 0 .. d + s /\ d + s \in Nat
      BY <1>1, <3>1
    <3>4. Agree(k0, key, lev2[m])
      BY <1>3, <3>3, AgreeParts
    <3> QED
      BY <1>3, <3>1, <3>2, <3>4
  <2> QED
    BY <2>1, <2>2
<1> QED
  BY <1>4 DEF Needed

(* More keys that have been in the trie do no harm. *)
LEMMA NeededParts ==
  ASSUME NEW ns, NEW lev, NEW key_of, NEW keys, Needed(ns, lev, key_of, keys),
         NEW ns2, DOMAIN ns2 = DOMAIN ns, NEW keys2, keys \subseteq keys2
  PROVE  Needed(ns2, lev, key_of, keys2)
BY DEF Needed

(* A search pushes many levels only for a key that others are close to. *)
LEMMA FitsHere ==
  ASSUME NEW lev, NEW key_of, NEW dict, IsTrie(nodes, lev, key_of, dict),
         Needed(nodes, lev, key_of, ever), ever \subseteq TrieKeys, NEW key \in TrieKeys,
         NEW path, NEW d, NEW n, NEW i, EndsAt(lev, key_of, path, key, d, n, i), d > IterLevels
  PROVE  \E m \in ever \ {key} : Shared(m, key) >= d - 1
<1>1. key \in Whole /\ MaxLevel \in Nat /\ MaxLevel > 3 /\ \A k \in ever : k \in Whole /\ k \in Nat
  BY TrieKeysAssumption, MaxLevelAssumption DEF Whole
<1>2. /\ d \in Nat /\ d - 1 \in Nat /\ lev[n] = d - 1 /\ n \in DOMAIN nodes
      /\ Agree(key, key_of[n], d - 1) /\ key_of[n] \in Nat /\ key \in Nat
  BY <1>1, EndParts
<1>3. IterLevels \in Nat /\ IterLevels >= 1
  BY <1>1 DEF IterLevels
<1>4. n # 1
  BY <1>2, <1>3, TrieParts
<1>5. PICK k \in ever, q \in ever : k # q /\ Agree(k, key_of[n], lev[n]) /\ Agree(q, key_of[n], lev[n])
  BY <1>2, <1>4 DEF Needed
<1>6. PICK m \in ever : m # key /\ Agree(m, key_of[n], lev[n])
  BY <1>5
<1>7. Agree(m, key, d - 1)
  <2>1. Agree(key_of[n], key, d - 1)
    BY <1>2, AgreeParts
  <2> QED
    BY <1>2, <1>6, <2>1, AgreeParts
<1>8. Shared(m, key) \in 0 .. MaxLevel - 1 /\ get_idx(m, Shared(m, key)) # get_idx(key, Shared(m, key))
  <2>1. MaxLevel \in 0 .. MaxLevel /\ Rest(m, MaxLevel) = 0 /\ Rest(key, MaxLevel) = 0 /\ m \in Nat
    BY <1>1 DEF Whole
  <2> QED
    BY <1>2, <1>6, <2>1, SharedParts
<1>9. ~(Shared(m, key) < d - 1)
  <2>1. ASSUME Shared(m, key) < d - 1
        PROVE  FALSE
    <3>1. Shared(m, key) \in 0 .. (d - 1) - 1
      BY <1>1, <1>2, <1>8, <2>1
    <3> QED
      BY <1>7, <1>8, <3>1 DEF Agree
  <2> QED
    BY <2>1
<1> QED
  BY <1>1, <1>2, <1>6, <1>8, <1>9

(* No trie shows no keys. *)
LEMMA EmptyDict ==
  Content(<<>>) = [k \in {} |-> None]
<1>1. Entries(<<>>) = {}
  BY DEF Entries
<1>2. {e[1] : e \in Entries(<<>>)} = {}
  BY <1>1
<1> QED
  BY <1>2 DEF Content

(* A new trie has no keys. *)
LEMMA RootAlone ==
  ASSUME NEW ns, ns = <<NewNode>>, NEW lev, lev = [n \in {1} |-> 0], NEW key_of,
         key_of = [n \in {1} |-> 0],
         NEW dict, dict = [k \in {} |-> None]
  PROVE  IsTrie(ns, lev, key_of, dict) /\ Needed(ns, lev, key_of, {})
<1>1. MaxLevel \in Nat /\ MaxLevel > 3
  BY MaxLevelAssumption
<1>2. \A x \in Digits : NewNode[x].tag = "none"
  BY DEF NewNode, NoEntry
<1>3. NewNode \in Node
  BY DEF NewNode, NoEntry, Node, Cells
<1>4. ns \in Seq(Node) /\ ns # <<>> /\ DOMAIN ns = {1} /\ ns[1] = NewNode
  BY <1>3
<1>5. lev[1] = 0 /\ key_of[1] = 0 /\ \A x : Agree(x, key_of[1], lev[1])
  BY DEF Agree
<1>6. Leveled(ns, lev, key_of)
  <2>1. 0 \in 0 .. MaxLevel - 1
    BY <1>1
  <2> QED
    BY <1>4, <1>5, <2>1 DEF Leveled
<1>7. LeadsDown(ns, lev, key_of) /\ Pointed(ns)
  BY <1>2, <1>4 DEF LeadsDown, Pointed
<1>8. OnePlace(ns, lev, key_of)
  BY <1>4, <1>5 DEF OnePlace
<1>9. DOMAIN dict = {} /\ dict \in [DOMAIN dict -> TrieVals]
  OBVIOUS
<1>10. HoldsAll(ns, lev, key_of, dict)
  BY <1>2, <1>4, <1>9 DEF HoldsAll
<1>11. Needed(ns, lev, key_of, {})
  BY <1>4 DEF Needed
<1> QED
  BY <1>6, <1>7, <1>8, <1>10, <1>11 DEF IsTrie

(* While the iterator stays, and no key is forgotten, PathFits stays. *)
LEMMA FitsStays ==
  ASSUME PathFits, iter' = iter, ever \subseteq ever'
  PROVE  PathFits'
BY DEF PathFits

(* A cleared iterator has no levels. *)
LEMMA FitsCleared ==
  ASSUME NEW it, it = Cleared_iter
  PROVE  ~(Len(it.level) > IterLevels)
<1>1. IterLevels \in Nat
  BY MaxLevelAssumption DEF IterLevels
<1>2. Len(it.level) = 0
  BY DEF Cleared_iter
<1> QED
  BY <1>1, <1>2

(* itrie_create makes an empty trie. *)
LEMMA CreateStep ==
  ASSUME TrieInv, itrie_create
  PROVE  TrieInv' /\ DictAs!Next
<1>1. nodes = <<>> /\ ~fresh /\ iter' = iter /\ fresh' = fresh /\ ever' = ever /\ nodes' = <<NewNode>>
  <2>1. ~\E lev, key_of, dict : View(lev, key_of, dict)
    BY DEF itrie_create, View, IsTrie, Leveled
  <2> QED
    BY <2>1 DEF itrie_create, TrieInv
<1>2. PICK lev, key_of, dict : /\ lev = [n \in {1} |-> 0] /\ key_of = [n \in {1} |-> 0]
                               /\ dict = [k \in {} |-> None]
  OBVIOUS
<1>3. IsTrie(nodes', lev, key_of, dict) /\ Needed(nodes', lev, key_of, {})
  BY <1>1, <1>2, RootAlone
<1>4. Needed(nodes', lev, key_of, ever)
  BY <1>3, NeededParts
<1>5. View(lev, key_of, dict)'
  <2>1. DOMAIN dict = {}
    BY <1>2
  <2> QED
    BY <1>1, <1>3, <1>4, <2>1 DEF View
<1>6. TrieInv'
  BY <1>1, <1>5, FitsStays DEF TrieInv
<1>7. Content(nodes') = [k \in {} |-> None]
  BY <1>2, <1>3, ContentIs
<1>8. trie_ret' = DictAs!Answer("create", None, 0, None)
  BY DEF itrie_create, AnswerTrie, DictAs!Answer
<1> QED
  BY <1>6, <1>7, <1>8 DEF DictAs!Next, DictAs!Clear

(* itrie_delete leaves none. *)
LEMMA DeleteStep ==
  ASSUME TrieInv, itrie_delete
  PROVE  TrieInv' /\ DictAs!Next
<1>1. nodes' = <<>> /\ iter' = Cleared_iter /\ ~fresh' /\ fresh' = FALSE /\ ever' = {}
  BY DEF itrie_delete
<1>2. PathFits'
  <2>1. ~(Len(iter'.level) > IterLevels)
    BY <1>1, FitsCleared
  <2> QED
    BY <2>1 DEF PathFits
<1>3. TrieInv'
  BY <1>1, <1>2 DEF TrieInv
<1>4. Content(nodes') = [k \in {} |-> None]
  BY <1>1, EmptyDict
<1>5. trie_ret' = DictAs!Answer("delete", None, 0, None)
  BY DEF itrie_delete, AnswerTrie, DictAs!Answer
<1> QED
  BY <1>3, <1>4, <1>5 DEF DictAs!Next, DictAs!Clear

(* A state with a trie has a view. *)
LEMMA ViewOf ==
  ASSUME TrieInv, nodes # <<>>
  PROVE  \E lev, key_of, dict : View(lev, key_of, dict)
BY DEF TrieInv

(* itrie_elem_insert into an empty cell adds the key, and leaves the     *)
(* iterator where it is.                                                 *)
LEMMA EmptyStep ==
  ASSUME TrieInv, NEW key \in TrieKeys, NEW v \in TrieVals, InsertEmpty(key, v)
  PROVE  TrieInv' /\ DictAs!Next
<1>1. PICK lev, key_of, dict : View(lev, key_of, dict)
  BY ViewOf DEF InsertEmpty
<1>2. key \in Nat /\ key \in Whole /\ IsTrie(nodes, lev, key_of, dict)
  BY <1>1, TrieKeysAssumption DEF View, Whole
<1>3. PICK path : path = Path(key)
  OBVIOUS
<1>4. PICK d, n, i : EndsAt(lev, key_of, path, key, d, n, i)
  BY <1>2, <1>3, PathEnds
<1>5. /\ nodes[n][i].tag = "none"
      /\ Writes(nodes, nodes', n, i, ValCell(Rest(key, d), v))
  BY <1>3, <1>4 DEF InsertEmpty, EndsAt, Writes
<1>6. /\ IsTrie(nodes', lev, key_of, With(dict, key, v)) /\ key \notin DOMAIN dict
      /\ DOMAIN nodes' = DOMAIN nodes
  BY <1>2, <1>4, <1>5, PutKeeps
<1>7. /\ iter' = iter /\ fresh' = (fresh /\ ~AtIterator(key)) /\ ever' = ever \cup {key}
      /\ trie_ret' = DictAs!Answer("insert", key, 0, None)
  BY DEF InsertEmpty, Inserted, AnswerTrie, DictAs!Answer
<1>8. \A p \in DOMAIN nodes : \A x \in Digits : p # n \/ x # i => nodes'[p][x] = nodes[p][x]
  <2>1. nodes \in Seq(Node) /\ n \in DOMAIN nodes /\ i \in Digits
    BY <1>2, <1>4 DEF IsTrie, Leveled, EndsAt
  <2>2. Rest(key, d) \in Nat
    BY <1>2, <1>4, EndParts, RestParts
  <2>3. ValCell(Rest(key, d), v) \in Cells
    BY <2>2 DEF ValCell, Cells
  <2> QED
    BY <1>5, <2>1, <2>3, WriteParts
<1>9. PICK dict2 : dict2 = With(dict, key, v)
  OBVIOUS
<1>10. DOMAIN dict2 = DOMAIN dict \cup {key}
  BY <1>9 DEF With
<1>11. Needed(nodes', lev, key_of, ever')
  BY <1>1, <1>6, <1>7, NeededParts DEF View
<1>12. View(lev, key_of, dict2)' /\ fresh' \in BOOLEAN
  <2>1. DOMAIN dict2 \subseteq ever' /\ DOMAIN dict \ {key} \subseteq DOMAIN dict2
    BY <1>1, <1>7, <1>10 DEF View
  <2>2. fresh \in BOOLEAN
    BY DEF TrieInv
  <2>3. IsTrie(nodes', lev, key_of, dict2)
    BY <1>6, <1>9
  <2>4. \A p \in DOMAIN nodes : p \in DOMAIN nodes' /\ lev[p] = lev[p] /\ key_of[p] = key_of[p]
    BY <1>6
  <2>5. iter' = iter /\ fresh' = (fresh /\ ~AtIterator(key))
    BY <1>7
  <2> QED
    BY <1>1, <1>2, <1>4, <1>8, <1>11, <2>1, <2>2, <2>3, <2>4, <2>5, ChangeKeeps
<1>13. TrieInv'
  <2>1. PathFits' /\ ever' \subseteq TrieKeys
    BY <1>7, FitsStays DEF TrieInv
  <2> QED
    BY <1>12, <2>1 DEF TrieInv
<1>14. Content(nodes) = dict /\ Content(nodes') = With(dict, key, v)
  BY <1>2, <1>6, ContentIs
<1>15. DictAs!Insert(key, v)
  BY <1>6, <1>7, <1>14 DEF DictAs!Insert, DictAs!Held, With
<1> QED
  BY <1>13, <1>15 DEF DictAs!Next

(* So does itrie_elem_insert into the cell of another key. *)
LEMMA SplitStep ==
  ASSUME TrieInv, NEW key \in TrieKeys, NEW v \in TrieVals, InsertSplit(key, v)
  PROVE  TrieInv' /\ DictAs!Next
<1>1. PICK lev, key_of, dict : View(lev, key_of, dict)
  BY ViewOf DEF InsertSplit
<1>2. key \in Nat /\ key \in Whole /\ IsTrie(nodes, lev, key_of, dict)
  BY <1>1, TrieKeysAssumption DEF View, Whole
<1>3. PICK path : path = Path(key)
  OBVIOUS
<1>4. PICK d, n, i : EndsAt(lev, key_of, path, key, d, n, i)
  BY <1>2, <1>3, PathEnds
<1>5. /\ nodes[n][i].tag = "val" /\ ~Matches(path, key)
      /\ SplitNodes(nodes', n, i, key, d, v)
  BY <1>3, <1>4 DEF InsertSplit, EndsAt, SplitNodes
<1>6. PICK lev2, key2, k0, s : Splits(nodes', lev, key_of, lev2, key2, dict, key, v, d, n, i, k0, s)
  BY <1>2, <1>4, <1>5, SplitIs
<1>7. IsTrie(nodes', lev2, key2, With(dict, key, v)) /\ key \notin DOMAIN dict
  BY <1>2, <1>4, <1>5, <1>6, SplitKeeps
<1>8. /\ iter' = iter /\ fresh' = (fresh /\ ~AtIterator(key)) /\ ever' = ever \cup {key}
      /\ trie_ret' = DictAs!Answer("insert", key, 0, None)
  BY DEF InsertSplit, Inserted, AnswerTrie, DictAs!Answer
<1>9. \A p \in DOMAIN nodes : \A x \in Digits : p # n \/ x # i => nodes'[p][x] = nodes[p][x]
  <2>1. DOMAIN nodes = 1 .. Len(nodes)
    BY <1>2, TrieParts
  <2> QED
    BY <1>6, <2>1 DEF Splits
<1>10. PICK dict2 : dict2 = With(dict, key, v)
  OBVIOUS
<1>11. DOMAIN dict2 = DOMAIN dict \cup {key}
  BY <1>10 DEF With
<1>12. Needed(nodes', lev2, key2, ever')
  BY <1>1, <1>2, <1>4, <1>6, <1>8, SplitNeeded DEF View
<1>13. View(lev2, key2, dict2)' /\ fresh' \in BOOLEAN
  <2>1. DOMAIN dict2 \subseteq ever' /\ DOMAIN dict \ {key} \subseteq DOMAIN dict2
    BY <1>1, <1>8, <1>11 DEF View
  <2>2. fresh \in BOOLEAN
    BY DEF TrieInv
  <2>3. IsTrie(nodes', lev2, key2, dict2)
    BY <1>7, <1>10
  <2>4. \A p \in DOMAIN nodes : p \in DOMAIN nodes' /\ lev2[p] = lev[p] /\ key2[p] = key_of[p]
    BY <1>2, <1>4, <1>6, SplitParts
  <2>5. iter' = iter /\ fresh' = (fresh /\ ~AtIterator(key))
    BY <1>8
  <2> QED
    BY <1>1, <1>2, <1>4, <1>9, <1>12, <2>1, <2>2, <2>3, <2>4, <2>5, ChangeKeeps
<1>14. TrieInv'
  <2>1. PathFits' /\ ever' \subseteq TrieKeys
    BY <1>8, FitsStays DEF TrieInv
  <2> QED
    BY <1>13, <2>1 DEF TrieInv
<1>15. Content(nodes) = dict /\ Content(nodes') = With(dict, key, v)
  BY <1>2, <1>7, ContentIs
<1>16. DictAs!Insert(key, v)
  BY <1>7, <1>8, <1>15 DEF DictAs!Insert, DictAs!Held, With
<1> QED
  BY <1>14, <1>16 DEF DictAs!Next

(* itrie_elem_insert of a key that is there changes nothing. *)
LEMMA RefusedStep ==
  ASSUME TrieInv, NEW key \in TrieKeys, InsertRefused(key)
  PROVE  TrieInv' /\ DictAs!Next
<1>1. PICK lev, key_of, dict : View(lev, key_of, dict)
  BY ViewOf DEF InsertRefused
<1>2. key \in Nat /\ IsTrie(nodes, lev, key_of, dict)
  BY <1>1, TrieKeysAssumption DEF View
<1>3. PICK path : path = Path(key)
  OBVIOUS
<1>4. PICK d, n, i : EndsAt(lev, key_of, path, key, d, n, i)
  BY <1>2, <1>3, PathEnds
<1>5. Matches(path, key)
  <2>1. CellAt(Last(path)).tag = "val"
    BY <1>2, <1>3, <1>4, TrieParts DEF InsertRefused, EndsAt
  <2> QED
    BY <1>3, <2>1 DEF InsertRefused
<1>6. key \in DOMAIN dict
  BY <1>2, <1>4, <1>5, MatchesIs
<1>7. /\ UNCHANGED <<nodes, iter, fresh, ever>>
      /\ trie_ret' = DictAs!Answer("insert", key, -1, None)
  BY DEF InsertRefused, AnswerTrie, DictAs!Answer
<1>8. TrieInv'
  BY <1>7 DEF TrieInv, View, IterOK, EndsAt, CellAt, PathFits
<1>9. Content(nodes) = dict
  BY <1>2, ContentIs
<1>10. DictAs!InsertHeld(key)
  BY <1>6, <1>7, <1>9 DEF DictAs!InsertHeld, DictAs!Held
<1> QED
  BY <1>8, <1>10 DEF DictAs!Next

(* itrie_elem_remove takes out the key or finds none. *)
LEMMA RemoveStep ==
  ASSUME TrieInv, NEW key \in TrieKeys, itrie_elem_remove(key)
  PROVE  TrieInv' /\ DictAs!Next
<1>1. PICK lev, key_of, dict : View(lev, key_of, dict)
  BY ViewOf DEF itrie_elem_remove
<1>2. key \in Nat /\ key \in Whole /\ IsTrie(nodes, lev, key_of, dict)
  BY <1>1, TrieKeysAssumption DEF View, Whole
<1>3. PICK path : path = Path(key)
  OBVIOUS
<1>4. PICK d, n, i : EndsAt(lev, key_of, path, key, d, n, i)
  BY <1>2, <1>3, PathEnds
<1>5. /\ Matches(path, key) <=> key \in DOMAIN dict
      /\ key \in DOMAIN dict => nodes[n][i].val = dict[key]
  BY <1>2, <1>4, MatchesIs
<1>6. iter' = iter /\ ever' = ever
  BY DEF itrie_elem_remove
<1>7. Content(nodes) = dict
  BY <1>2, ContentIs
<1>8. CASE Matches(path, key)
  <2>1. /\ Writes(nodes, nodes', n, i, [NoEntry EXCEPT !.val = nodes[n][i].val])
        /\ fresh' = (fresh /\ ~AtIterator(key))
        /\ trie_ret' = DictAs!Answer("remove", key, 0, nodes[n][i].val)
    BY <1>3, <1>4, <1>8 DEF itrie_elem_remove, EndsAt, Writes, AnswerTrie, DictAs!Answer
  <2>2. IsTrie(nodes', lev, key_of, Without(dict, key)) /\ DOMAIN nodes' = DOMAIN nodes
    BY <1>2, <1>4, <1>5, <1>8, <2>1, TakeKeeps
  <2>3. \A p \in DOMAIN nodes : \A x \in Digits : p # n \/ x # i => nodes'[p][x] = nodes[p][x]
    <3>1. nodes \in Seq(Node) /\ n \in DOMAIN nodes /\ i \in Digits
      BY <1>2, <1>4 DEF IsTrie, Leveled, EndsAt
    <3>2. PICK c : c = [NoEntry EXCEPT !.val = nodes[n][i].val]
      OBVIOUS
    <3>3. c \in Cells
      <4>1. nodes[n][i].val \in TrieVals
        BY <1>2, <1>5, <1>8, TrieParts
      <4> QED
        BY <3>2, <4>1 DEF NoEntry, Cells
    <3>4. Writes(nodes, nodes', n, i, c)
      BY <2>1, <3>2
    <3> QED
      BY <3>1, <3>3, <3>4, WriteParts
  <2>4. PICK dict2 : dict2 = Without(dict, key)
    OBVIOUS
  <2>5. DOMAIN dict2 = DOMAIN dict \ {key}
    BY <2>4 DEF Without
  <2>6. Needed(nodes', lev, key_of, ever')
    BY <1>1, <1>6, <2>2, NeededParts DEF View
  <2>7. View(lev, key_of, dict2)' /\ fresh' \in BOOLEAN
    <3>1. DOMAIN dict2 \subseteq ever' /\ DOMAIN dict \ {key} \subseteq DOMAIN dict2
      BY <1>1, <1>6, <2>5 DEF View
    <3>2. fresh \in BOOLEAN
      BY DEF TrieInv
    <3>3. IsTrie(nodes', lev, key_of, dict2)
      BY <2>2, <2>4
    <3>4. \A p \in DOMAIN nodes : p \in DOMAIN nodes' /\ lev[p] = lev[p] /\ key_of[p] = key_of[p]
      BY <2>2
    <3> QED
      BY <1>1, <1>2, <1>4, <1>6, <2>1, <2>3, <2>6, <3>1, <3>2, <3>3, <3>4, ChangeKeeps
  <2>8. TrieInv'
    <3>1. PathFits' /\ ever' \subseteq TrieKeys
      BY <1>6, FitsStays DEF TrieInv
    <3> QED
      BY <2>7, <3>1 DEF TrieInv
  <2>9. Content(nodes') = Without(dict, key)
    BY <2>2, ContentIs
  <2>10. DictAs!Remove(key)
    BY <1>5, <1>7, <1>8, <2>1, <2>9 DEF DictAs!Remove, DictAs!Held, Without
  <2> QED
    BY <2>8, <2>10 DEF DictAs!Next
<1>9. CASE ~Matches(path, key)
  <2>1. nodes' = nodes /\ fresh' = fresh /\ trie_ret' = DictAs!Answer("remove", key, -1, None)
    BY <1>3, <1>9 DEF itrie_elem_remove, AnswerTrie, DictAs!Answer
  <2>2. TrieInv'
    BY <1>6, <2>1 DEF TrieInv, View, IterOK, EndsAt, CellAt, PathFits
  <2>3. DictAs!Miss(key)
    BY <1>5, <1>7, <1>9, <2>1 DEF DictAs!Miss, DictAs!Held
  <2> QED
    BY <2>2, <2>3 DEF DictAs!Next
<1> QED
  BY <1>8, <1>9

(* itrie_iter_search sets the iterator to the key or clears it. *)
LEMMA SearchStep ==
  ASSUME TrieInv, NEW key \in TrieKeys, itrie_iter_search(key)
  PROVE  TrieInv' /\ DictAs!Next
<1>1. PICK lev, key_of, dict : View(lev, key_of, dict)
  BY ViewOf DEF itrie_iter_search
<1>2. key \in Nat /\ key \in Whole /\ IsTrie(nodes, lev, key_of, dict)
  BY <1>1, TrieKeysAssumption DEF View, Whole
<1>3. PICK path : path = Path(key)
  OBVIOUS
<1>4. PICK d, n, i : EndsAt(lev, key_of, path, key, d, n, i)
  BY <1>2, <1>3, PathEnds
<1>5. Matches(path, key) <=> key \in DOMAIN dict
  BY <1>2, <1>4, MatchesIs
<1>6. nodes' = nodes /\ ever' = ever
  BY DEF itrie_iter_search
<1>7. Content(nodes) = dict
  BY <1>2, ContentIs
<1>8. IsTrie(nodes', lev, key_of, dict) /\ Needed(nodes', lev, key_of, ever')
      /\ DOMAIN dict \subseteq ever'
  BY <1>1, <1>6 DEF View
<1>9. ever' \subseteq TrieKeys
  BY <1>6 DEF TrieInv
<1>10. CASE Matches(path, key)
  <2>1. /\ iter' = [pre |-> Gathered(path, key), level |-> path] /\ fresh' = TRUE
        /\ trie_ret' = DictAs!Answer("search", key, 0, None)
    BY <1>3, <1>10 DEF itrie_iter_search, SetIterator, AnswerTrie, DictAs!Answer
  <2>2. Gathered(path, key) = key
    <3>1. d \in Nat /\ d = Len(path) /\ \A j \in 1 .. d : path[j].idx = get_idx(key, j - 1)
      BY <1>2, <1>4, EndParts DEF EndsAt
    <3> QED
      BY <1>2, <3>1, GatheredIs
  <2>3. iter'.pre = key /\ iter'.level = path
    BY <2>1, <2>2
  <2>4. EndsAt(lev, key_of, iter.level, iter.pre, d, n, i)'
    BY <1>4, <1>6, <2>3 DEF EndsAt, CellAt
  <2>5. View(lev, key_of, dict)'
    BY <1>5, <1>8, <1>10, <2>3, <2>4 DEF View, IterOK
  <2>6. PathFits'
    <3>1. d = Len(path)
      BY <1>4 DEF EndsAt
    <3>2. d > IterLevels => \E m \in ever \ {key} : Shared(m, key) >= d - 1
      BY <1>1, <1>2, <1>4, FitsHere DEF View, TrieInv
    <3> QED
      BY <1>6, <2>3, <3>1, <3>2 DEF PathFits
  <2>7. TrieInv'
    BY <1>9, <2>1, <2>5, <2>6 DEF TrieInv
  <2>8. DictAs!Find(key)
    BY <1>5, <1>6, <1>7, <1>10, <2>1 DEF DictAs!Find, DictAs!Held
  <2> QED
    BY <2>7, <2>8 DEF DictAs!Next
<1>11. CASE ~Matches(path, key)
  <2>1. iter' = Cleared_iter /\ fresh' = FALSE /\ trie_ret' = DictAs!Answer("search", key, -1, None)
    BY <1>3, <1>11 DEF itrie_iter_search, AnswerTrie, DictAs!Answer
  <2>2. View(lev, key_of, dict)'
    BY <1>8, <2>1 DEF View
  <2>3. PathFits'
    <3>1. ~(Len(iter'.level) > IterLevels)
      BY <2>1, FitsCleared
    <3> QED
      BY <3>1 DEF PathFits
  <2>4. TrieInv'
    BY <1>9, <2>1, <2>2, <2>3 DEF TrieInv
  <2>5. DictAs!Miss(key)
    BY <1>5, <1>6, <1>7, <1>11, <2>1 DEF DictAs!Miss, DictAs!Held
  <2> QED
    BY <2>4, <2>5 DEF DictAs!Next
<1> QED
  BY <1>10, <1>11

(* Every step keeps the invariant and is a step of the dictionary. *)
LEMMA TrieStep ==
  ASSUME TrieInv, TrieNext
  PROVE  TrieInv' /\ DictAs!Next
<1>1. CASE itrie_create
  BY <1>1, CreateStep
<1>2. CASE itrie_delete
  BY <1>2, DeleteStep
<1>3. ASSUME NEW key \in TrieKeys, NEW v \in TrieVals, itrie_elem_insert(key, v)
      PROVE  TrieInv' /\ DictAs!Next
  BY <1>3, EmptyStep, SplitStep, RefusedStep DEF itrie_elem_insert
<1>4. ASSUME NEW key \in TrieKeys, itrie_elem_remove(key)
      PROVE  TrieInv' /\ DictAs!Next
  BY <1>4, RemoveStep
<1>5. ASSUME NEW key \in TrieKeys, itrie_iter_search(key)
      PROVE  TrieInv' /\ DictAs!Next
  BY <1>5, SearchStep
<1> QED
  BY <1>1, <1>2, <1>3, <1>4, <1>5 DEF TrieNext

(* A step that changes nothing keeps it. *)
LEMMA TrieStutters ==
  ASSUME TrieInv, UNCHANGED trie_vars
  PROVE  TrieInv' /\ UNCHANGED DictAs!vars
<1>1. UNCHANGED <<nodes, iter, fresh, ever, trie_ret>>
  BY DEF trie_vars
<1>2. TrieInv'
  BY <1>1 DEF TrieInv, View, IterOK, EndsAt, CellAt, PathFits
<1>3. UNCHANGED DictAs!vars
  BY <1>1 DEF DictAs!vars
<1> QED
  BY <1>2, <1>3

(* It holds at the start. *)
LEMMA TrieStarts ==
  ASSUME TrieInit
  PROVE  TrieInv /\ DictAs!Init
<1>1. nodes = <<>> /\ iter = Cleared_iter /\ fresh = FALSE /\ ever = {}
  BY DEF TrieInit
<1>2. PathFits
  <2>1. ~(Len(iter.level) > IterLevels)
    BY <1>1, FitsCleared
  <2> QED
    BY <2>1 DEF PathFits
<1>3. TrieInv
  BY <1>1, <1>2 DEF TrieInv
<1>4. DictAs!Init
  BY <1>1, EmptyDict DEF TrieInit, DictAs!Init, DictAs!Answer
<1> QED
  BY <1>3, <1>4

(* In every state of a trie the nodes are where the keys that come by    *)
(* them lead, the cells hold the keys and values of one dictionary, and  *)
(* the iterator is at the end of the descent for its key.                *)
THEOREM TrieInvariant == TrieSpec => []TrieInv
<1>1. TrieInit => TrieInv
  BY TrieStarts
<1>2. TrieInv /\ [TrieNext]_trie_vars => TrieInv'
  BY TrieStep, TrieStutters
<1> QED
  BY <1>1, <1>2, PTL DEF TrieSpec

(* The trie is a dictionary: whatever is inserted, split, removed and    *)
(* searched for, each key has the value that it was inserted with until  *)
(* it is removed, and every call answers as it should.                   *)
THEOREM TrieIsDict == TrieSpec => IsDict
<1>1. TrieInit => DictAs!Init
  BY TrieStarts
<1>2. TrieInv /\ [TrieNext]_trie_vars => [DictAs!Next]_(DictAs!vars)
  BY TrieStep, TrieStutters
<1> QED
  BY <1>1, <1>2, TrieInvariant, PTL DEF TrieSpec, IsDict, DictAs!Spec

(* It implies the safety properties. *)
LEMMA TrieInvShows ==
  ASSUME TrieInv
  PROVE  IteratorHolds /\ FreesEachNodeOnce /\ PathFits
<1>1. PathFits
  BY DEF TrieInv
<1>2. CASE nodes = <<>> /\ ~fresh
  <2>1. DOMAIN nodes = {}
    BY <1>2
  <2> QED
    BY <1>1, <1>2, <2>1 DEF IteratorHolds, FreesEachNodeOnce
<1>3. ASSUME NEW lev, NEW key_of, NEW dict, View(lev, key_of, dict)
      PROVE  IteratorHolds /\ FreesEachNodeOnce
  BY <1>3, ViewHolds
<1> QED
  BY <1>1, <1>2, <1>3 DEF TrieInv

(* An iterator gives its key and that key's value, whatever was inserted *)
(* and removed since away from its place.                                *)
THEOREM TrieIteratorHolds == TrieSpec => []IteratorHolds
BY TrieInvariant, TrieInvShows, PTL

(* itrie_delete_iter frees each node once: one cell points at each node  *)
(* but the root, and none at the root.                                   *)
THEOREM TrieFreesEachNodeOnce == TrieSpec => []FreesEachNodeOnce
BY TrieInvariant, TrieInvShows, PTL

(* A search pushes more levels than an iterator has room for only if     *)
(* another key that has been in the trie has as many digits in common    *)
(* with its key.                                                         *)
THEOREM TriePathFits == TrieSpec => []PathFits
BY TrieInvariant, TrieInvShows, PTL

-----------------------------------------------------------------------------
(* container/treearray. *)

(* The step with which BitAnd goes from words of k - 1 bits to words of k. *)
Both(u, v) == IF u % 2 = 1 /\ v % 2 = 1 THEN 1 ELSE 0

(* What it goes from, and to. *)
Pairs == [Nat -> [Nat -> Nat]]

(* All of it. *)
Doubled(f) == [u \in Nat |-> [v \in Nat |-> Both(u, v) + (2 * f[u \div 2][v \div 2])]]

(* Its types. *)
LEMMA DoubledParts ==
  ASSUME NEW f \in Pairs
  PROVE  /\ Doubled(f) \in Pairs
         /\ \A u, v \in Nat : Doubled(f)[u][v] = Both(u, v) + (2 * f[u \div 2][v \div 2])
<1>1. \A u, v \in Nat : u \div 2 \in Nat /\ v \div 2 \in Nat /\ Both(u, v) \in Nat
  BY DEF Both
<1>2. \A u, v \in Nat : f[u][v] \in Nat
  BY DEF Pairs
<1>3. \A u, v \in Nat : Both(u, v) + (2 * f[u \div 2][v \div 2]) \in Nat
  <2> TAKE u, v \in Nat
  <2>1. PICK x \in Nat : x = f[u \div 2][v \div 2]
    BY <1>1, <1>2
  <2>2. PICK b \in Nat : b = Both(u, v)
    BY <1>1
  <2>3. b + (2 * x) \in Nat
    OBVIOUS
  <2> QED
    BY <2>1, <2>2, <2>3
<1>4. \A u \in Nat : [v \in Nat |-> Both(u, v) + (2 * f[u \div 2][v \div 2])] \in [Nat -> Nat]
  <2> TAKE u \in Nat
  <2> QED
    BY <1>3
<1>5. Doubled(f) \in Pairs
  BY <1>4 DEF Doubled, Pairs
<1> QED
  BY <1>5 DEF Doubled

(* BitAnd of words of no bits, and of words of one bit more. *)
LEMMA BitAndParts ==
  /\ \A n \in Nat : \A x, y \in Nat : BitAnd(n, x, y) \in Nat
  /\ \A x, y \in Nat : BitAnd(0, x, y) = 0
  /\ \A n \in Nat : \A x, y \in Nat :
       BitAnd(n + 1, x, y) = Both(x, y) + 2 * BitAnd(n, x \div 2, y \div 2)
<1> DEFINE base == [u \in Nat |-> [v \in Nat |-> 0]]
           step == [f \in Pairs |-> Doubled(f)]
           Row(k, f, u, v) == IF k = 0 THEN 0
                              ELSE (IF u % 2 = 1 /\ v % 2 = 1 THEN 1 ELSE 0)
                                   + (2 * f[k - 1][u \div 2][v \div 2])
           Body(f) == [k \in Nat |-> [u \in Nat |-> [v \in Nat |-> Row(k, f, u, v)]]]
           and == CHOOSE f : f = Body(f)
<1>1. base \in Pairs /\ step \in [Pairs -> Pairs]
  <2>1. base \in Pairs
    BY DEF Pairs
  <2>2. step \in [Pairs -> Pairs]
    BY DoubledParts
  <2> QED
    BY <2>1, <2>2
<1> HIDE DEF Row
<1>2. PICK F \in [Nat -> Pairs] : F[0] = base /\ \A k \in Nat : F[k + 1] = step[F[k]]
  <2> HIDE DEF base, step, Body, and
  <2> QED
    BY <1>1, Iteration
<1>3. F = Body(F)
  <2>1. ASSUME NEW k \in Nat
        PROVE  F[k] = [u \in Nat |-> [v \in Nat |-> Row(k, F, u, v)]]
    <3>1. PICK A : A = [u \in Nat |-> [v \in Nat |-> Row(k, F, u, v)]]
      OBVIOUS
    <3>2. A = [u \in Nat |-> A[u]] /\ \A u \in Nat : A[u] = [v \in Nat |-> Row(k, F, u, v)]
      BY <3>1
    <3>3. F[k] = [u \in Nat |-> F[k][u]]
      BY DEF Pairs
    <3>4. ASSUME NEW u \in Nat
          PROVE  F[k][u] = [v \in Nat |-> Row(k, F, u, v)]
      <4>1. CASE k = 0
        <5>1. F[k][u] = [v \in Nat |-> 0]
          BY <1>2, <4>1
        <5> QED
          BY <4>1, <5>1 DEF Row
      <4>2. CASE k # 0
        <5>1. k - 1 \in Nat /\ k = (k - 1) + 1
          BY <4>2
        <5>2. F[k] = step[F[k - 1]] /\ F[k - 1] \in Pairs
          BY <1>2, <5>1
        <5>3. F[k] = Doubled(F[k - 1])
          BY <5>2
        <5>4. F[k][u] = [v \in Nat |-> Both(u, v) + (2 * F[k - 1][u \div 2][v \div 2])]
          BY <5>3 DEF Doubled
        <5> QED
          BY <4>2, <5>4 DEF Both, Row
      <4> QED
        BY <4>1, <4>2
    <3> QED
      BY <3>1, <3>2, <3>3, <3>4
  <2>2. F = [k \in Nat |-> F[k]]
    BY <1>2
  <2> HIDE DEF Row
  <2> QED
    BY <2>1, <2>2, Zenon
<1>4. and = Body(and)
  <2> HIDE DEF Body
  <2> QED
    BY <1>3
<1>5. \A n, x, y : BitAnd(n, x, y) = and[n][x][y]
  BY DEF BitAnd, Row
<1> HIDE DEF and
<1>6. \A k \in Nat : \A u, v \in Nat :
        and[k][u][v] = IF k = 0 THEN 0 ELSE Both(u, v) + (2 * and[k - 1][u \div 2][v \div 2])
  BY <1>4 DEF Both, Row
<1>7. \A u, v \in Nat : and[0][u][v] = 0
  BY <1>6
<1>8. \A k \in Nat : \A u, v \in Nat :
        and[k + 1][u][v] = Both(u, v) + (2 * and[k][u \div 2][v \div 2])
  <2> TAKE k \in Nat
  <2>1. PICK n \in Nat : n = k + 1 /\ n # 0 /\ n - 1 = k
    OBVIOUS
  <2>2. \A u, v \in Nat : and[n][u][v] = Both(u, v) + (2 * and[n - 1][u \div 2][v \div 2])
    BY <1>6, <2>1
  <2> QED
    BY <2>1, <2>2
<1>9. \A k \in Nat : \A u, v \in Nat : and[k][u][v] \in Nat
  <2> DEFINE T == {k \in Nat : \A u, v \in Nat : and[k][u][v] \in Nat}
  <2>1. 0 \in T
    BY <1>7
  <2>2. \A k \in Nat : k \in T => k + 1 \in T
    <3> SUFFICES ASSUME NEW k \in Nat, \A u, v \in Nat : and[k][u][v] \in Nat,
                        NEW u \in Nat, NEW v \in Nat
                 PROVE  and[k + 1][u][v] \in Nat
      OBVIOUS
    <3>1. u \div 2 \in Nat /\ v \div 2 \in Nat /\ Both(u, v) \in Nat
      BY DEF Both
    <3>2. PICK x \in Nat : x = and[k][u \div 2][v \div 2]
      BY <3>1
    <3>3. and[k + 1][u][v] = Both(u, v) + (2 * x)
      <4>1. and[k + 1][u][v] = Both(u, v) + (2 * and[k][u \div 2][v \div 2])
        BY <1>8
      <4> QED
        BY <3>2, <4>1
    <3>4. PICK b \in Nat : b = Both(u, v)
      BY <3>1
    <3>5. b + (2 * x) \in Nat
      OBVIOUS
    <3> QED
      BY <3>3, <3>4, <3>5
  <2> HIDE DEF T
  <2>3. Nat \subseteq T
    BY <2>1, <2>2, NatSetInduction
  <2> QED
    BY <2>3 DEF T
<1> QED
  BY <1>5, <1>7, <1>8, <1>9

(* The remainder and the quotient of a division. *)
LEMMA ModParts ==
  ASSUME NEW m \in Nat \ {0}, NEW a \in Int
  PROVE  a % m \in 0 .. m - 1 /\ a \div m \in Int /\ a = (a % m) + (m * (a \div m))
OBVIOUS

(* The remainder is the only number below the divisor that differs by a  *)
(* multiple of it.                                                       *)
LEMMA ModIs ==
  ASSUME NEW m \in Nat \ {0}, NEW q \in Int, NEW r \in 0 .. m - 1, NEW a \in Int, a = r + (m * q)
  PROVE  a % m = r
<1>1. PICK s \in 0 .. m - 1, d \in Int : s = a % m /\ a = s + (m * d)
  BY ModParts
<1>2. m * (q - d) = s - r /\ q - d \in Int
  <2>1. m * (q - d) = (m * q) - (m * d)
    BY <1>1
  <2> QED
    BY <1>1, <2>1
<1>3. CASE q - d = 0
  BY <1>1, <1>2, <1>3
<1>4. CASE q - d > 0
  <2>1. PICK e \in Nat : q - d = e + 1
    BY <1>2, <1>4
  <2>2. m * (e + 1) = (m * e) + m /\ m * e >= 0
    BY <2>1
  <2> QED
    BY <1>1, <1>2, <2>1, <2>2
<1>5. CASE q - d < 0
  <2>1. PICK e \in Nat : q - d = -(e + 1)
    BY <1>2, <1>5
  <2>2. m * (-(e + 1)) = -(m * e) - m /\ m * e >= 0
    BY <2>1
  <2> QED
    BY <1>1, <1>2, <2>1, <2>2
<1> QED
  BY <1>2, <1>3, <1>4, <1>5

(* A power of two and the next. *)
LEMMA PowParts == \A k \in Nat : Pow2[k] \in Nat \ {0} /\ Pow2[k + 1] = 2 * Pow2[k]
BY Pow2Steps

(* A number is twice another, or one more. *)
LEMMA Halves ==
  ASSUME NEW x \in Nat
  PROVE  \E u \in Nat : /\ x \div 2 = u
                        /\ (x % 2 = 0 /\ x = 2 * u) \/ (x % 2 = 1 /\ x = (2 * u) + 1)
OBVIOUS

(* What that other is. *)
LEMMA HalvesOf ==
  ASSUME NEW u \in Nat
  PROVE  /\ 2 * u \in Nat /\ (2 * u) \div 2 = u /\ (2 * u) % 2 = 0
         /\ (2 * u) + 1 \in Nat /\ ((2 * u) + 1) \div 2 = u /\ ((2 * u) + 1) % 2 = 1
OBVIOUS

(* A number and its complement have no bit in common. *)
LEMMA Complements ==
  \A k \in Nat : \A x, y \in Nat : x + y = Pow2[k] - 1 => BitAnd(k, x, y) = 0
<1> DEFINE T == {k \in Nat : \A x, y \in Nat : x + y = Pow2[k] - 1 => BitAnd(k, x, y) = 0}
<1>1. 0 \in T
  BY BitAndParts
<1>2. \A k \in Nat : k \in T => k + 1 \in T
  <2> SUFFICES ASSUME NEW k \in Nat, k \in T, NEW x \in Nat, NEW y \in Nat,
                      x + y = Pow2[k + 1] - 1
               PROVE  BitAnd(k + 1, x, y) = 0
    OBVIOUS
  <2>1. PICK P \in Nat : P = Pow2[k] /\ Pow2[k + 1] = 2 * P
    BY PowParts
  <2>2. PICK u \in Nat : /\ x \div 2 = u
                         /\ (x % 2 = 0 /\ x = 2 * u) \/ (x % 2 = 1 /\ x = (2 * u) + 1)
    BY Halves
  <2>3. PICK v \in Nat : /\ y \div 2 = v
                         /\ (y % 2 = 0 /\ y = 2 * v) \/ (y % 2 = 1 /\ y = (2 * v) + 1)
    BY Halves
  <2>4. u + v = P - 1 /\ ~(x % 2 = 1 /\ y % 2 = 1)
    <3>1. PICK a \in 0 .. 1, b \in 0 .. 1 : a = x % 2 /\ b = y % 2
      BY <2>2, <2>3
    <3>2. x = (2 * u) + a /\ y = (2 * v) + b /\ x + y = (2 * P) - 1
      BY <2>1, <2>2, <2>3, <3>1
    <3>3. (2 * u) + a + (2 * v) + b = (2 * P) - 1
      BY <3>2
    <3>4. u + v = P - 1 /\ ~(a = 1 /\ b = 1)
      <4>1. a = b => 2 * (u + v + a) = (2 * P) - 1
        BY <3>3
      <4>2. a # b
        BY <4>1
      <4>3. a + b = 1
        BY <4>2
      <4> QED
        BY <3>3, <4>3
    <3> QED
      BY <3>1, <3>4
  <2>5. BitAnd(k, u, v) = 0
    <3>1. \A a, b \in Nat : a + b = Pow2[k] - 1 => BitAnd(k, a, b) = 0
      OBVIOUS
    <3>2. u + v = Pow2[k] - 1
      BY <2>1, <2>4
    <3> QED
      BY <3>1, <3>2
  <2>6. Both(x, y) = 0
    BY <2>4 DEF Both
  <2>7. BitAnd(k + 1, x, y) = Both(x, y) + 2 * BitAnd(k, u, v)
    <3>1. BitAnd(k + 1, x, y) = Both(x, y) + 2 * BitAnd(k, x \div 2, y \div 2)
      BY BitAndParts
    <3>2. x \div 2 = u /\ y \div 2 = v
      BY <2>2, <2>3
    <3> QED
      BY <3>1, <3>2
  <2> QED
    BY <2>5, <2>6, <2>7
<1> HIDE DEF T
<1>3. Nat \subseteq T
  BY <1>1, <1>2, NatSetInduction
<1> QED
  BY <1>3 DEF T

(* The bit that a number and its negative have in common, in words of k bits. *)
Lowest(k, x) == BitAnd(k, x, Pow2[k] - x)

(* The lowest bit of twice a number is twice that of the number; an odd  *)
(* number's is 1.                                                        *)
LEMMA LowestParts ==
  ASSUME NEW k \in Nat
  PROVE  /\ \A u \in 1 .. Pow2[k] - 1 : Lowest(k + 1, 2 * u) = 2 * Lowest(k, u)
         /\ \A u \in 0 .. Pow2[k] - 1 : Lowest(k + 1, (2 * u) + 1) = 1
<1>1. PICK P \in Nat \ {0} : P = Pow2[k] /\ Pow2[k + 1] = 2 * P
  BY PowParts
<1>2. ASSUME NEW u \in 1 .. P - 1
      PROVE  Lowest(k + 1, 2 * u) = 2 * Lowest(k, u)
  <2>1. PICK v \in Nat : v = P - u
    OBVIOUS
  <2>2. Pow2[k + 1] - (2 * u) = 2 * v
    BY <1>1, <2>1
  <2>3. Both(2 * u, 2 * v) = 0
    BY HalvesOf DEF Both
  <2>4. BitAnd(k + 1, 2 * u, 2 * v) = Both(2 * u, 2 * v) + 2 * BitAnd(k, u, v)
    BY HalvesOf, BitAndParts
  <2>5. BitAnd(k, u, v) \in Nat
    BY BitAndParts
  <2> QED
    BY <1>1, <2>1, <2>2, <2>3, <2>4, <2>5 DEF Lowest
<1>3. ASSUME NEW u \in 0 .. P - 1
      PROVE  Lowest(k + 1, (2 * u) + 1) = 1
  <2>1. PICK v \in Nat : v = P - u - 1
    OBVIOUS
  <2>2. Pow2[k + 1] - ((2 * u) + 1) = (2 * v) + 1
    BY <1>1, <2>1
  <2>3. Both((2 * u) + 1, (2 * v) + 1) = 1
    BY HalvesOf DEF Both
  <2>4. BitAnd(k + 1, (2 * u) + 1, (2 * v) + 1)
        = Both((2 * u) + 1, (2 * v) + 1) + 2 * BitAnd(k, u, v)
    <3>1. PICK x \in Nat, y \in Nat : x = (2 * u) + 1 /\ y = (2 * v) + 1
      BY HalvesOf
    <3>2. BitAnd(k + 1, x, y) = Both(x, y) + 2 * BitAnd(k, x \div 2, y \div 2)
      BY BitAndParts
    <3>3. x \div 2 = u /\ y \div 2 = v
      BY <3>1, HalvesOf
    <3> QED
      BY <3>1, <3>2, <3>3
  <2>5. BitAnd(k, u, v) = 0
    BY <1>1, <2>1, Complements
  <2> QED
    BY <2>2, <2>3, <2>4, <2>5 DEF Lowest
<1> QED
  BY <1>1, <1>2, <1>3

(* It is no more than the number, and does not depend on the width of    *)
(* the word.                                                             *)
LEMMA LowestGrows ==
  \A k \in Nat : \A x \in 1 .. Pow2[k] - 1 :
    Lowest(k, x) \in 1 .. x /\ Lowest(k + 1, x) = Lowest(k, x)
<1> DEFINE T == {k \in Nat : \A x \in 1 .. Pow2[k] - 1 :
                   Lowest(k, x) \in 1 .. x /\ Lowest(k + 1, x) = Lowest(k, x)}
<1>1. 0 \in T
  BY Pow2Steps
<1>2. \A k \in Nat : k \in T => k + 1 \in T
  <2> SUFFICES ASSUME NEW k \in Nat, k \in T, NEW x \in 1 .. Pow2[k + 1] - 1
               PROVE  /\ Lowest(k + 1, x) \in 1 .. x
                      /\ Lowest((k + 1) + 1, x) = Lowest(k + 1, x)
    OBVIOUS
  <2>1. PICK P \in Nat \ {0} : P = Pow2[k] /\ Pow2[k + 1] = 2 * P /\ x \in 1 .. (2 * P) - 1
    BY PowParts
  <2>2. PICK u \in Nat : x = 2 * u \/ x = (2 * u) + 1
    <3>1. x \in Nat
      BY <2>1
    <3> QED
      BY <3>1, Halves
  <2>3. CASE x = 2 * u
    <3>1. u \in 1 .. P - 1 /\ u \in 1 .. (2 * P) - 1
      BY <2>1, <2>3
    <3>2. Lowest(k, u) \in 1 .. u /\ Lowest(k + 1, u) = Lowest(k, u)
      <4>1. \A z \in 1 .. Pow2[k] - 1 : Lowest(k, z) \in 1 .. z /\ Lowest(k + 1, z) = Lowest(k, z)
        OBVIOUS
      <4> QED
        BY <2>1, <3>1, <4>1
    <3>3. Lowest(k + 1, x) = 2 * Lowest(k, u)
      BY <2>1, <2>3, <3>1, LowestParts
    <3>4. Lowest((k + 1) + 1, x) = 2 * Lowest(k + 1, u)
      <4>1. k + 1 \in Nat /\ u \in 1 .. Pow2[k + 1] - 1
        BY <2>1, <3>1
      <4> QED
        BY <2>3, <4>1, LowestParts
    <3> QED
      BY <2>3, <3>2, <3>3, <3>4
  <2>4. CASE x = (2 * u) + 1
    <3>1. u \in 0 .. P - 1 /\ u \in 0 .. (2 * P) - 1
      BY <2>1, <2>4
    <3>2. Lowest(k + 1, x) = 1
      BY <2>1, <2>4, <3>1, LowestParts
    <3>3. Lowest((k + 1) + 1, x) = 1
      <4>1. k + 1 \in Nat /\ u \in 0 .. Pow2[k + 1] - 1
        BY <2>1, <3>1
      <4> QED
        BY <2>4, <4>1, LowestParts
    <3> QED
      BY <3>2, <3>3
  <2> QED
    BY <2>2, <2>3, <2>4
<1> HIDE DEF T
<1>3. Nat \subseteq T
  BY <1>1, <1>2, NatSetInduction
<1> QED
  BY <1>3 DEF T

(* A size_t has at least as many bits as an int, and an int has one at   *)
(* least.                                                                *)
LEMMA WidthParts ==
  /\ SizeMod \in Nat /\ SizeMod > 1 /\ IntMod \in Nat /\ IntMod > 1
  /\ \E k \in Nat : SizeBits = k + 1 /\ SizeMod = 2 * Pow2[k]
  /\ \E h \in Nat \ {0} : IntMod = 2 * h
  /\ \E q \in Nat : SizeMod = IntMod * q
<1>1. PICK k \in Nat : SizeBits = k + 1
  <2>1. SizeBits - 1 \in Nat /\ SizeBits = (SizeBits - 1) + 1
    BY WidthsAssumption
  <2> QED
    BY <2>1
<1>2. PICK j \in Nat : IntBits = j + 1
  <2>1. IntBits - 1 \in Nat /\ IntBits = (IntBits - 1) + 1
    BY WidthsAssumption
  <2> QED
    BY <2>1
<1>3. SizeMod = 2 * Pow2[k] /\ Pow2[k] \in Nat \ {0}
  BY <1>1, PowParts DEF SizeMod
<1>4. IntMod = 2 * Pow2[j] /\ Pow2[j] \in Nat \ {0}
  BY <1>2, PowParts DEF IntMod
<1>5. \E q \in Nat : SizeMod = IntMod * q
  <2> DEFINE T == {n \in Nat : \E q \in Nat : Pow2[IntBits + n] = IntMod * q}
  <2>1. 0 \in T
    <3>1. Pow2[IntBits + 0] = IntMod * 1
      BY <1>4, WidthsAssumption DEF IntMod
    <3> QED
      BY <3>1
  <2>2. \A n \in Nat : n \in T => n + 1 \in T
    <3> SUFFICES ASSUME NEW n \in Nat, NEW q \in Nat, Pow2[IntBits + n] = IntMod * q
                 PROVE  \E r \in Nat : Pow2[IntBits + (n + 1)] = IntMod * r
      OBVIOUS
    <3>1. IntBits + n \in Nat /\ IntBits + (n + 1) = (IntBits + n) + 1
      BY WidthsAssumption
    <3>2. Pow2[IntBits + (n + 1)] = 2 * (IntMod * q)
      BY <3>1, PowParts
    <3>3. PICK m \in Nat : m = IntMod
      BY <1>4
    <3>4. 2 * (m * q) = m * (2 * q) /\ 2 * q \in Nat
      OBVIOUS
    <3> QED
      BY <3>2, <3>3, <3>4
  <2> HIDE DEF T
  <2>3. Nat \subseteq T
    BY <2>1, <2>2, NatSetInduction
  <2>4. SizeBits - IntBits \in T /\ IntBits + (SizeBits - IntBits) = SizeBits
    BY <2>3, WidthsAssumption
  <2> QED
    BY <2>4 DEF T, SizeMod
<1> QED
  BY <1>1, <1>3, <1>4, <1>5

(* lowbit halves with its argument until that is odd. *)
LEMMA LowbitParts ==
  /\ \A x \in 1 .. SizeMod - 1 : lowbit(x) \in 1 .. x
  /\ \A u \in Nat \ {0} : 2 * u < SizeMod => lowbit(2 * u) = 2 * lowbit(u)
  /\ \A u \in Nat : (2 * u) + 1 < SizeMod => lowbit((2 * u) + 1) = 1
<1>1. PICK k \in Nat : SizeBits = k + 1 /\ SizeMod = 2 * Pow2[k] /\ SizeMod = Pow2[k + 1]
  BY WidthParts DEF SizeMod
<1>2. PICK P \in Nat \ {0} : P = Pow2[k] /\ SizeMod = 2 * P
  BY <1>1, PowParts
<1>3. \A x \in 1 .. SizeMod - 1 : lowbit(x) = Lowest(k + 1, x)
  <2> TAKE x \in 1 .. SizeMod - 1
  <2>1. (-x) % SizeMod = SizeMod - x
    <3>1. -x = (SizeMod - x) + (SizeMod * (-1)) /\ SizeMod - x \in 0 .. SizeMod - 1 /\ -x \in Int
      BY <1>2
    <3>2. SizeMod \in Nat \ {0} /\ -1 \in Int
      BY <1>2
    <3> QED
      BY <3>1, <3>2, ModIs
  <2> QED
    BY <1>1, <2>1 DEF lowbit, SizeT, Lowest
<1>4. \A x \in 1 .. SizeMod - 1 : lowbit(x) \in 1 .. x
  BY <1>1, <1>3, LowestGrows
<1>5. ASSUME NEW u \in Nat \ {0}, 2 * u < SizeMod
      PROVE  lowbit(2 * u) = 2 * lowbit(u)
  <2>1. u \in 1 .. P - 1 /\ u \in 1 .. SizeMod - 1 /\ 2 * u \in 1 .. SizeMod - 1
    BY <1>2, <1>5
  <2>2. Lowest(k + 1, 2 * u) = 2 * Lowest(k, u)
    BY <1>2, <2>1, LowestParts
  <2>3. Lowest(k + 1, u) = Lowest(k, u)
    BY <1>2, <2>1, LowestGrows
  <2> QED
    BY <1>3, <2>1, <2>2, <2>3
<1>6. ASSUME NEW u \in Nat, (2 * u) + 1 < SizeMod
      PROVE  lowbit((2 * u) + 1) = 1
  <2>1. u \in 0 .. P - 1 /\ (2 * u) + 1 \in 1 .. SizeMod - 1
    BY <1>2, <1>6
  <2>2. Lowest(k + 1, (2 * u) + 1) = 1
    BY <1>2, <2>1, LowestParts
  <2> QED
    BY <1>3, <2>1, <2>2
<1> QED
  BY <1>4, <1>5, <1>6

(* The word of index n counts the element before index i. *)
Covers(n, i) == n - lowbit(n) < i /\ i <= n

(* The indexes that the loops go through. *)
Index == 1 .. SizeMod - 1

(* The next index of the loop of treearray_update is covered by the      *)
(* words that cover this one, but for the word of this one: by induction *)
(* on the index.                                                         *)
LEMMA NextCovers ==
  \A k \in Nat : \A i \in Index : i <= k =>
    \A n \in Index : n # i => (Covers(n, i) <=> Covers(n, i + lowbit(i)))
<1> DEFINE T == {k \in Nat : \A i \in Index : i <= k =>
                   \A n \in Index : n # i => (Covers(n, i) <=> Covers(n, i + lowbit(i)))}
<1>1. PICK M \in Nat : M = SizeMod
  BY WidthParts
<1>2. 0 \in T
  BY DEF Index
<1>3. \A k \in Nat : k \in T => k + 1 \in T
  <2> SUFFICES ASSUME NEW k \in Nat, k \in T, NEW i \in Index, i <= k + 1,
                      NEW n \in Index, n # i
               PROVE  Covers(n, i) <=> Covers(n, i + lowbit(i))
    OBVIOUS
  <2>1. i \in Nat \ {0} /\ n \in Nat \ {0} /\ i < M /\ n < M
    BY <1>1 DEF Index
  <2>2. PICK u \in Nat : i = 2 * u \/ i = (2 * u) + 1
    BY <2>1, Halves
  <2>3. PICK m \in Nat : n = 2 * m \/ n = (2 * m) + 1
    BY <2>1, Halves
  <2>4. CASE n = (2 * m) + 1
    <3>1. lowbit(n) = 1
      BY <1>1, <2>1, <2>4, LowbitParts
    <3>2. \A j \in Nat : Covers(n, j) <=> j = n
      BY <2>1, <3>1 DEF Covers
    <3>3. ~Covers(n, i)
      BY <2>1, <3>2
    <3>4. CASE i = (2 * u) + 1
      <4>1. lowbit(i) = 1
        BY <1>1, <2>1, <3>4, LowbitParts
      <4>2. i + lowbit(i) = 2 * (u + 1) /\ i + lowbit(i) \in Nat
        BY <2>1, <3>4, <4>1
      <4>3. i + lowbit(i) # n
        BY <2>4, <4>2
      <4> QED
        BY <3>2, <3>3, <4>2, <4>3
    <3>5. CASE i = 2 * u
      <4>1. u \in Index /\ u \in Nat \ {0}
        BY <1>1, <2>1, <3>5 DEF Index
      <4>2. PICK l \in Nat : l = lowbit(u) /\ lowbit(i) = 2 * l
        BY <1>1, <2>1, <3>5, <4>1, LowbitParts DEF Index
      <4>3. i + lowbit(i) = 2 * (u + l) /\ i + lowbit(i) \in Nat
        BY <2>1, <3>5, <4>2
      <4>4. i + lowbit(i) # n
        BY <2>4, <4>3
      <4> QED
        BY <3>2, <3>3, <4>3, <4>4
    <3> QED
      BY <2>2, <3>4, <3>5
  <2>5. CASE n = 2 * m
    <3>1. m \in Index /\ m \in Nat \ {0}
      BY <1>1, <2>1, <2>5 DEF Index
    <3>2. PICK l \in Nat : l = lowbit(m) /\ l \in 1 .. m /\ lowbit(n) = 2 * l
      BY <1>1, <2>1, <2>5, <3>1, LowbitParts DEF Index
    <3>3. \A j \in Nat : Covers(n, 2 * j) <=> Covers(m, j)
      BY <2>5, <3>2 DEF Covers
    <3>4. CASE i = (2 * u) + 1
      <4>1. lowbit(i) = 1
        BY <1>1, <2>1, <3>4, LowbitParts
      <4>2. i + lowbit(i) = 2 * (u + 1)
        BY <3>4, <4>1
      <4>3. Covers(n, i) <=> m - l <= u /\ u < m
        BY <2>5, <3>2, <3>4 DEF Covers
      <4>4. Covers(m, u + 1) <=> m - l <= u /\ u < m
        BY <3>2 DEF Covers
      <4> QED
        BY <3>3, <4>2, <4>3, <4>4
    <3>5. CASE i = 2 * u
      <4>1. u \in Index /\ u \in Nat \ {0} /\ u <= k /\ u # m
        BY <1>1, <2>1, <2>5, <3>5 DEF Index
      <4>2. PICK h \in Nat : h = lowbit(u) /\ lowbit(i) = 2 * h
        BY <1>1, <2>1, <3>5, <4>1, LowbitParts DEF Index
      <4>3. i + lowbit(i) = 2 * (u + h)
        BY <3>5, <4>2
      <4>4. Covers(m, u) <=> Covers(m, u + h)
        <5>1. \A a \in Index : a <= k =>
                \A b \in Index : b # a => (Covers(b, a) <=> Covers(b, a + lowbit(a)))
          OBVIOUS
        <5> QED
          BY <3>1, <4>1, <4>2, <5>1
      <4> QED
        BY <3>3, <3>5, <4>2, <4>3, <4>4
    <3> QED
      BY <2>2, <3>4, <3>5
  <2> QED
    BY <2>3, <2>4, <2>5
<1> HIDE DEF T
<1>4. Nat \subseteq T
  BY <1>2, <1>3, NatSetInduction
<1> QED
  BY <1>4 DEF T

(* The words that count the element, at an index of the loop and at the  *)
(* next.                                                                 *)
LEMMA CoversMoves ==
  ASSUME NEW i \in Index, NEW n \in Index
  PROVE  /\ lowbit(n) \in 1 .. n
         /\ Covers(n, i) <=> n = i \/ Covers(n, i + lowbit(i))
         /\ n = i => ~Covers(n, i + lowbit(i))
<1>1. i \in Nat \ {0} /\ n \in Nat \ {0} /\ lowbit(n) \in 1 .. n /\ lowbit(i) \in 1 .. i
  BY WidthParts, LowbitParts DEF Index
<1>2. n = i => Covers(n, i) /\ ~Covers(n, i + lowbit(i))
  BY <1>1 DEF Covers
<1>3. n # i => (Covers(n, i) <=> Covers(n, i + lowbit(i)))
  BY <1>1, NextCovers
<1> QED
  BY <1>1, <1>2, <1>3

(* A sum may be reduced before it is added to. *)
LEMMA ModAdd ==
  ASSUME NEW m \in Nat \ {0}, NEW a \in Int, NEW b \in Int
  PROVE  ((a % m) + b) % m = (a + b) % m
<1>1. PICK r \in 0 .. m - 1, q \in Int : r = a % m /\ a = r + (m * q)
  BY ModParts
<1>2. PICK c \in Int : c = r + b
  BY <1>1
<1>3. PICK s \in 0 .. m - 1, p \in Int : s = c % m /\ c = s + (m * p)
  BY ModParts
<1>4. PICK t \in Int : t = a + b
  OBVIOUS
<1>5. PICK k \in Int : k = p + q
  BY <1>1, <1>3
<1>6. t = s + (m * k)
  <2>1. m * (p + q) = (m * p) + (m * q)
    OBVIOUS
  <2>2. PICK w \in Int : w = m * p
    OBVIOUS
  <2>3. PICK z \in Int : z = m * q
    OBVIOUS
  <2>4. a = r + z /\ c = s + w /\ m * k = w + z /\ r \in Int /\ m * k \in Int
    BY <1>1, <1>3, <1>5, <2>1, <2>2, <2>3
  <2>5. t = s + (w + z)
    <3>1. r \in Int /\ a = r + z /\ c = s + w
      BY <2>4
    <3> QED
      BY <1>2, <1>4, <3>1
  <2> QED
    BY <2>4, <2>5
<1>7. t % m = s
  BY <1>6, ModIs
<1> QED
  BY <1>1, <1>2, <1>3, <1>4, <1>7

(* An int differs from the number it is made of by a multiple of IntMod, *)
(* and such numbers make the same int.                                   *)
LEMMA IntParts ==
  /\ \A x \in Int : Int32(x) \in Int /\ \E q \in Int : Int32(x) = x + (IntMod * q)
  /\ \A x, q \in Int : Int32(x + (IntMod * q)) = Int32(x)
<1>1. PICK M \in Nat \ {0} : M = IntMod
  BY WidthParts
<1>2. ASSUME NEW x \in Int
      PROVE  Int32(x) \in Int /\ \E q \in Int : Int32(x) = x + (IntMod * q)
  <2>1. PICK r \in 0 .. M - 1, q \in Int : r = x % M /\ x = r + (M * q)
    BY ModParts
  <2>2. Int32(x) = r \/ Int32(x) = r - M
    BY <1>1, <2>1 DEF Int32
  <2>3. PICK p \in Int, o \in Int : p = -q /\ o = -q - 1
    OBVIOUS
  <2>4. r = x + (M * p) /\ r - M = x + (M * o)
    <3>1. M * (-q) = -(M * q) /\ M * (-q - 1) = -(M * q) - M
      OBVIOUS
    <3> QED
      BY <2>1, <2>3, <3>1
  <2>5. Int32(x) = x + (M * p) \/ Int32(x) = x + (M * o)
    BY <2>2, <2>4
  <2>6. Int32(x) \in Int
    BY <2>1, <2>2
  <2> QED
    BY <1>1, <2>5, <2>6
<1>3. ASSUME NEW x \in Int, NEW q \in Int
      PROVE  Int32(x + (IntMod * q)) = Int32(x)
  <2>1. PICK r \in 0 .. M - 1, p \in Int : r = x % M /\ x = r + (M * p)
    BY ModParts
  <2>2. PICK y \in Int : y = x + (M * q)
    OBVIOUS
  <2>3. y = r + (M * (p + q)) /\ p + q \in Int
    <3>1. M * (p + q) = (M * p) + (M * q)
      OBVIOUS
    <3> QED
      BY <2>1, <2>2, <3>1
  <2>4. y % M = r
    BY <2>3, ModIs
  <2>5. Int32(y) = Int32(x)
    BY <1>1, <2>1, <2>4 DEF Int32
  <2> QED
    BY <1>1, <2>2, <2>5
<1> QED
  BY <1>2, <1>3

(* A size_t and an int are added as the numbers they are made of. *)
LEMMA IntAdds ==
  ASSUME NEW a \in Int, NEW b \in Int
  PROVE  SizeT(a) \in 0 .. SizeMod - 1 /\ Int32(SizeT(a) + Int32(b)) = Int32(a + b)
<1>1. PICK M \in Nat \ {0}, N \in Nat \ {0}, d \in Nat : M = IntMod /\ N = SizeMod /\ N = M * d
  <2>1. PICK d \in Nat : SizeMod = IntMod * d
    BY WidthParts
  <2> QED
    BY <2>1, WidthParts
<1>2. PICK r \in 0 .. N - 1, q \in Int : r = a % N /\ a = r + (N * q)
  BY ModParts
<1>3. PICK p \in Int : Int32(b) = b + (M * p)
  BY <1>1, IntParts
<1>4. r + Int32(b) = (a + b) + (M * (p - (d * q))) /\ p - (d * q) \in Int
  <2>1. d * q \in Int
    OBVIOUS
  <2>2. M * (p - (d * q)) = (M * p) - (M * (d * q))
    BY <2>1
  <2>3. (M * d) * q = M * (d * q)
    OBVIOUS
  <2>4. N * q = M * (d * q)
    BY <1>1, <2>3
  <2>5. PICK w \in Int : w = N * q
    OBVIOUS
  <2>6. PICK z \in Int : z = M * p
    OBVIOUS
  <2>7. a = r + w /\ Int32(b) = b + z /\ M * (p - (d * q)) = z - w
    BY <1>2, <1>3, <2>2, <2>4, <2>5, <2>6
  <2>8. r + (b + z) = (a + b) + (z - w)
    BY <2>7
  <2> QED
    BY <2>1, <2>7, <2>8
<1>5. Int32((a + b) + (M * (p - (d * q)))) = Int32(a + b)
  <2>1. PICK x \in Int, y \in Int : x = a + b /\ y = p - (d * q)
    BY <1>4
  <2>2. Int32(x + (M * y)) = Int32(x)
    BY <1>1, IntParts
  <2> QED
    BY <2>1, <2>2
<1> QED
  BY <1>1, <1>2, <1>4, <1>5 DEF SizeT

(* So are two size_t. *)
LEMMA SizeTAdds ==
  ASSUME NEW a \in Int, NEW b \in Int
  PROVE  SizeT(SizeT(a) + b) = SizeT(a + b)
BY ModAdd, WidthParts DEF SizeT

(* Small numbers are themselves, and SIZE_MAX as an int is -1. *)
LEMMA SmallParts ==
  /\ \A x \in 0 .. SizeMod - 1 : SizeT(x) = x
  /\ \A x \in Nat : x < IntMod \div 2 => Int32(x) = x /\ SizeT(x) = x
  /\ SizeT(-1) = SizeMod - 1 /\ SizeT(SizeMod) = 0
  /\ Int32(SizeMod - 1) = -1 /\ Int32(0) = 0
<1>1. PICK M \in Nat, N \in Nat, d \in Nat, h \in Nat \ {0} :
        M = IntMod /\ N = SizeMod /\ N = M * d /\ M > 1 /\ N > 1 /\ M = 2 * h /\ M \div 2 = h
  <2>1. PICK d \in Nat : SizeMod = IntMod * d
    BY WidthParts
  <2>2. PICK h \in Nat \ {0} : IntMod = 2 * h
    BY WidthParts
  <2>3. (2 * h) \div 2 = h
    OBVIOUS
  <2> QED
    BY <2>1, <2>2, <2>3, WidthParts
<1>2. \A x \in 0 .. N - 1 : x % N = x
  <2> TAKE x \in 0 .. N - 1
  <2>1. x = x + (N * 0) /\ x \in Int
    BY <1>1
  <2> QED
    BY <1>1, <2>1, ModIs
<1>3. (-1) % N = N - 1
  <2>1. -1 = (N - 1) + (N * (-1)) /\ N - 1 \in 0 .. N - 1 /\ -1 \in Int
    BY <1>1
  <2> QED
    BY <1>1, <2>1, ModIs
<1>4. N % N = 0
  <2>1. N = 0 + (N * 1) /\ 0 \in 0 .. N - 1
    BY <1>1
  <2> QED
    BY <1>1, <2>1, ModIs
<1>5. \A x \in Nat : x < h => x % M = x
  <2> TAKE x \in Nat
  <2> HAVE x < h
  <2>1. x = x + (M * 0) /\ x \in 0 .. M - 1
    BY <1>1
  <2> QED
    BY <1>1, <2>1, ModIs
<1>6. M <= N
  <2>1. d # 0
    BY <1>1
  <2>2. PICK e \in Nat : d = e + 1
    BY <2>1
  <2>3. M * (e + 1) = (M * e) + M /\ M * e >= 0
    OBVIOUS
  <2> QED
    BY <1>1, <2>2, <2>3
<1>7. \A x \in Nat : x < h => Int32(x) = x /\ SizeT(x) = x
  BY <1>1, <1>2, <1>5, <1>6 DEF Int32, SizeT
<1>8. (N - 1) % M = M - 1
  <2>1. PICK e \in Nat : d = e + 1
    <3>1. d # 0
      BY <1>1
    <3> QED
      BY <3>1
  <2>2. M * (e + 1) = (M * e) + M
    OBVIOUS
  <2>3. N - 1 = (M - 1) + (M * e) /\ M - 1 \in 0 .. M - 1 /\ N - 1 \in Int
    BY <1>1, <2>1, <2>2
  <2> QED
    BY <1>1, <2>3, ModIs
<1>9. Int32(N - 1) = -1
  BY <1>1, <1>8 DEF Int32
<1> QED
  BY <1>1, <1>2, <1>3, <1>4, <1>7, <1>9 DEF SizeT

(* The sums of the first elements of e, which has n of them. *)
SumOf(n, e) ==
  LET sum[k \in 0 .. n] == IF k = 0 THEN 0 ELSE sum[k - 1] + e[k - 1]
  IN  sum

(* There is a function that sums. *)
LEMMA Summing ==
  ASSUME NEW g, \A k \in Nat : g[k] \in Int
  PROVE  \E f \in [Nat -> Int] : f[0] = 0 /\ \A k \in Nat : f[k + 1] = f[k] + g[k]
<1> DEFINE E == [at : Nat, sum : Int]
           first == [at |-> 0, sum |-> 0]
           more(r) == [at |-> r.at + 1, sum |-> r.sum + g[r.at]]
           next == [r \in E |-> more(r)]
<1>1. first \in E /\ next \in [E -> E]
  OBVIOUS
<1>2. PICK F \in [Nat -> E] : F[0] = first /\ \A k \in Nat : F[k + 1] = next[F[k]]
  <2> HIDE DEF E, first, next
  <2> QED
    BY <1>1, Iteration
<1>3. \A k \in Nat : F[k] \in E
  BY <1>2
<1>4. \A k \in Nat : F[k].at \in Nat /\ F[k].sum \in Int
  BY <1>3
<1>5. ASSUME NEW k \in Nat
      PROVE  F[k + 1].at = F[k].at + 1 /\ F[k + 1].sum = F[k].sum + g[F[k].at]
  <2>1. F[k + 1] = next[F[k]]
    BY <1>2
  <2>2. next[F[k]] = more(F[k])
    BY <1>3
  <2>3. F[k + 1] = [at |-> F[k].at + 1, sum |-> F[k].sum + g[F[k].at]]
    BY <2>1, <2>2
  <2> QED
    BY <2>3
<1>6. \A k \in Nat : F[k].at = k
  <2> DEFINE T == {k \in Nat : F[k].at = k}
  <2>1. 0 \in T
    BY <1>2
  <2>2. \A k \in Nat : k \in T => k + 1 \in T
    BY <1>5
  <2> HIDE DEF T
  <2>3. Nat \subseteq T
    BY <2>1, <2>2, NatSetInduction
  <2> QED
    BY <2>3 DEF T
<1>7. PICK f : f = [k \in Nat |-> F[k].sum]
  OBVIOUS
<1>8. f \in [Nat -> Int] /\ f[0] = 0
  BY <1>2, <1>4, <1>7
<1>9. \A k \in Nat : f[k + 1] = f[k] + g[k]
  BY <1>5, <1>7, <1>6
<1> QED
  BY <1>8, <1>9

(* The sums of the first elements, one by one. *)
LEMMA SumOfIs ==
  ASSUME NEW n \in Nat, NEW e \in [0 .. n - 1 -> Int]
  PROVE  /\ SumOf(n, e) \in [0 .. n -> Int] /\ SumOf(n, e)[0] = 0
         /\ \A k \in 0 .. n - 1 : SumOf(n, e)[k + 1] = SumOf(n, e)[k] + e[k]
<1> DEFINE Body(f) == [k \in 0 .. n |-> IF k = 0 THEN 0 ELSE f[k - 1] + e[k - 1]]
           sums == CHOOSE f : f = Body(f)
<1>1. PICK g : (\A k \in Nat : g[k] \in Int) /\ \A k \in 0 .. n - 1 : g[k] = e[k]
  <2>1. PICK g : g = [k \in Nat |-> IF k < n THEN e[k] ELSE 0]
    OBVIOUS
  <2>2. (\A k \in Nat : g[k] \in Int) /\ \A k \in 0 .. n - 1 : g[k] = e[k]
    BY <2>1
  <2> QED
    BY <2>2
<1>2. PICK F \in [Nat -> Int] : F[0] = 0 /\ \A k \in Nat : F[k + 1] = F[k] + g[k]
  BY <1>1, Summing
<1>3. PICK f : f = [k \in 0 .. n |-> F[k]]
  OBVIOUS
<1>4. f = Body(f)
  <2>1. ASSUME NEW k \in 0 .. n
        PROVE  f[k] = IF k = 0 THEN 0 ELSE f[k - 1] + e[k - 1]
    <3>1. CASE k = 0
      BY <1>2, <1>3, <3>1
    <3>2. CASE k # 0
      <4>1. PICK l \in Nat : l = k - 1 /\ k = l + 1 /\ l \in 0 .. n - 1
        BY <3>2
      <4>2. F[l + 1] = F[l] + g[l]
        BY <1>2
      <4>3. f[l + 1] = F[l + 1] /\ f[l] = F[l] /\ g[l] = e[l]
        BY <1>1, <1>3, <4>1
      <4> QED
        BY <3>2, <4>1, <4>2, <4>3
    <3> QED
      BY <3>1, <3>2
  <2>2. f = [k \in 0 .. n |-> f[k]]
    BY <1>3
  <2> QED
    BY <2>1, <2>2, Zenon
<1>5. sums = Body(sums)
  <2> HIDE DEF Body
  <2> QED
    BY <1>4
<1>6. SumOf(n, e) = sums
  BY DEF SumOf
<1> HIDE DEF sums
<1>7. sums = [k \in 0 .. n |-> sums[k]] /\ sums[0] = 0
  BY <1>5
<1>8. \A k \in 0 .. n - 1 : sums[k + 1] = sums[k] + e[k]
  <2> TAKE k \in 0 .. n - 1
  <2>1. k + 1 \in 0 .. n /\ k + 1 # 0 /\ (k + 1) - 1 = k
    OBVIOUS
  <2> QED
    BY <1>5, <2>1
<1>9. \A k \in 0 .. n : sums[k] \in Int
  <2> DEFINE T == {k \in Nat : k <= n => sums[k] \in Int}
  <2>1. 0 \in T
    BY <1>7
  <2>2. \A k \in Nat : k \in T => k + 1 \in T
    <3> SUFFICES ASSUME NEW k \in Nat, k \in T, k + 1 <= n
                 PROVE  sums[k + 1] \in Int
      OBVIOUS
    <3>1. k \in 0 .. n - 1 /\ sums[k] \in Int /\ e[k] \in Int
      OBVIOUS
    <3>2. sums[k + 1] = sums[k] + e[k]
      BY <1>8, <3>1
    <3> QED
      BY <3>1, <3>2
  <2> HIDE DEF T
  <2>3. Nat \subseteq T
    BY <2>1, <2>2, NatSetInduction
  <2> QED
    BY <2>3 DEF T
<1> QED
  BY <1>6, <1>7, <1>8, <1>9

(* What is added to an element is added to the sums that have it. *)
(* The elements, v added to that of index i. *)
Added(n, e, i, v) == [j \in 0 .. n - 1 |-> IF j = i THEN e[j] + v ELSE e[j]]

(* What is added to an element is added to the sums that have it. *)
LEMMA SumAdds ==
  ASSUME NEW n \in Nat, NEW e \in [0 .. n - 1 -> Int], NEW i \in Nat, NEW v \in Int
  PROVE  /\ Added(n, e, i, v) \in [0 .. n - 1 -> Int]
         /\ \A k \in 0 .. n : SumOf(n, Added(n, e, i, v))[k]
                              = SumOf(n, e)[k] + (IF k > i THEN v ELSE 0)
<1> DEFINE d == Added(n, e, i, v)
<1>1. d \in [0 .. n - 1 -> Int] /\ \A j \in 0 .. n - 1 : d[j] = IF j = i THEN e[j] + v ELSE e[j]
  BY DEF Added
<1> HIDE DEF d
<1> DEFINE T == {k \in Nat : k <= n =>
                   SumOf(n, d)[k] = SumOf(n, e)[k] + (IF k > i THEN v ELSE 0)}
<1>2. 0 \in T
  <2>1. SumOf(n, d)[0] = 0
    BY <1>1, SumOfIs
  <2>2. SumOf(n, e)[0] = 0
    BY SumOfIs
  <2> QED
    BY <2>1, <2>2
<1>3. \A k \in Nat : k \in T => k + 1 \in T
  <2> SUFFICES ASSUME NEW k \in Nat, k \in T, k + 1 <= n
               PROVE  SumOf(n, d)[k + 1] = SumOf(n, e)[k + 1] + (IF k + 1 > i THEN v ELSE 0)
    OBVIOUS
  <2>1. k \in 0 .. n - 1 /\ k \in 0 .. n
    OBVIOUS
  <2>2. /\ SumOf(n, d)[k + 1] = SumOf(n, d)[k] + d[k]
        /\ SumOf(n, e)[k + 1] = SumOf(n, e)[k] + e[k]
        /\ SumOf(n, d)[k] \in Int /\ SumOf(n, e)[k] \in Int
    BY <1>1, <2>1, SumOfIs
  <2>3. SumOf(n, d)[k] = SumOf(n, e)[k] + (IF k > i THEN v ELSE 0)
    OBVIOUS
  <2>4. d[k] = (IF k = i THEN e[k] + v ELSE e[k]) /\ d[k] \in Int /\ e[k] \in Int
    BY <1>1, <2>1
  <2>5. CASE k = i
    BY <2>2, <2>3, <2>4, <2>5
  <2>6. CASE k > i
    BY <2>2, <2>3, <2>4, <2>6
  <2>7. CASE k < i
    BY <2>2, <2>3, <2>4, <2>7
  <2> QED
    BY <2>5, <2>6, <2>7
<1> HIDE DEF T
<1>4. Nat \subseteq T
  BY <1>2, <1>3, NatSetInduction
<1> QED
  BY <1>1, <1>4 DEF T, d

(* The sums of elements that are not negative do not fall. *)
LEMMA SumsGrow ==
  ASSUME NEW n \in Nat, NEW e \in [0 .. n - 1 -> Int], \A j \in 0 .. n - 1 : e[j] >= 0
  PROVE  \A l \in 0 .. n : SumOf(n, e)[l] >= 0 /\ \A k \in 0 .. l : SumOf(n, e)[k] <= SumOf(n, e)[l]
<1> DEFINE s == SumOf(n, e)
           T == {l \in Nat : l <= n => s[l] >= 0 /\ \A k \in 0 .. l : s[k] <= s[l]}
<1>1. s \in [0 .. n -> Int] /\ s[0] = 0 /\ \A k \in 0 .. n - 1 : s[k + 1] = s[k] + e[k]
  BY SumOfIs
<1> HIDE DEF s
<1>2. 0 \in T
  BY <1>1
<1>3. \A l \in Nat : l \in T => l + 1 \in T
  <2> SUFFICES ASSUME NEW l \in Nat, l \in T, l + 1 <= n
               PROVE  s[l + 1] >= 0 /\ \A k \in 0 .. l + 1 : s[k] <= s[l + 1]
    OBVIOUS
  <2>1. l \in 0 .. n - 1 /\ l \in 0 .. n /\ s[l] \in Int
    BY <1>1
  <2>2. s[l] >= 0 /\ \A k \in 0 .. l : s[k] <= s[l]
    OBVIOUS
  <2>3. s[l + 1] = s[l] + e[l] /\ e[l] \in Int /\ e[l] >= 0
    BY <1>1, <2>1
  <2>4. \A k \in 0 .. l + 1 : s[k] <= s[l + 1]
    <3> TAKE k \in 0 .. l + 1
    <3>1. CASE k = l + 1
      BY <2>1, <2>3, <3>1
    <3>2. CASE k # l + 1
      <4>1. k \in 0 .. l /\ k \in 0 .. n
        BY <3>2
      <4>2. s[k] \in Int /\ s[k] <= s[l]
        BY <1>1, <2>2, <4>1
      <4> QED
        BY <2>1, <2>3, <4>2
    <3> QED
      BY <3>1, <3>2
  <2> QED
    BY <2>1, <2>2, <2>3, <2>4
<1> HIDE DEF T
<1>4. Nat \subseteq T
  BY <1>2, <1>3, NatSetInduction
<1> QED
  BY <1>4 DEF T, s

(* The array is of n elements: each word makes the sum of the elements it  *)
(* counts, but for what the update that runs has yet to add to it.         *)
Words(n) ==
  /\ data \in [0 .. n -> 0 .. SizeMod - 1] /\ elems \in [0 .. n - 1 -> Int]
  /\ \A j \in 1 .. n :
       data[j] = SizeT(SumOf(n, elems)[j] - SumOf(n, elems)[j - lowbit(j)]
                       - (IF updating /\ Covers(j, idx) THEN val ELSE 0))

(* The locals of treearray_update. *)
UpdateLocals ==
  /\ updating \in BOOLEAN /\ val \in Int /\ idx \in 0 .. SizeMod - 1
  /\ updating => data # <<>> /\ idx \in Index

(* The inductive invariant. *)
TreeArrayInv ==
  /\ UpdateLocals
  /\ data # <<>> => \E n \in 0 .. MaxSize : Words(n)

(* The indexes of an array, their lowest bits and what the loops make of *)
(* them are size_t.                                                      *)
LEMMA MaxParts ==
  /\ MaxSize \in Nat /\ SizeMod \in Nat /\ MaxSize + 1 < SizeMod + 1
  /\ \A i \in 0 .. MaxSize : i + 1 \in Index
  /\ \A n \in 0 .. MaxSize : \A j \in 1 .. n :
       j \in Index /\ lowbit(j) \in 1 .. j /\ j - lowbit(j) \in 0 .. n
       /\ j + lowbit(j) \in Index
<1>1. PICK M \in Nat, N \in Nat : M = MaxSize /\ N = SizeMod /\ N > 1 /\ 2 * M < N
  BY WidthParts, MaxSizeAssumption
<1>2. \A i \in 0 .. MaxSize : i + 1 \in Index
  BY <1>1 DEF Index
<1>3. ASSUME NEW n \in 0 .. MaxSize, NEW j \in 1 .. n
      PROVE  /\ j \in Index /\ lowbit(j) \in 1 .. j /\ j - lowbit(j) \in 0 .. n
             /\ j + lowbit(j) \in Index
  <2>1. j \in 1 .. SizeMod - 1 /\ j \in Index
    BY <1>1 DEF Index
  <2>2. lowbit(j) \in 1 .. j
    BY <2>1, LowbitParts
  <2> QED
    BY <1>1, <2>1, <2>2 DEF Index
<1> QED
  BY <1>1, <1>2, <1>3

(* The size of an array of n elements. *)
LEMMA SizeIs ==
  ASSUME NEW n \in Nat, NEW d, DOMAIN d = 0 .. n
  PROVE  d # <<>> /\ Max(DOMAIN d) = n
<1>1. 0 \in DOMAIN d
  OBVIOUS
<1>2. DOMAIN << >> = {}
  OBVIOUS
<1>3. d # <<>>
  BY <1>1, <1>2
<1>4. n \in 0 .. n /\ \A y \in 0 .. n : n >= y
  OBVIOUS
<1>5. PICK m : m = CHOOSE x \in 0 .. n : \A y \in 0 .. n : x >= y
  OBVIOUS
<1>6. m \in 0 .. n /\ \A y \in 0 .. n : m >= y
  BY <1>4, <1>5
<1>7. m = n
  BY <1>4, <1>6
<1>8. Max(DOMAIN d) = m
  BY <1>5 DEF Max
<1> QED
  BY <1>3, <1>7, <1>8

(* The types of the array. *)
LEMMA WordsParts ==
  ASSUME NEW n \in 0 .. MaxSize, Words(n)
  PROVE  /\ n \in Nat /\ Size = n /\ Sums = SumOf(n, elems) /\ data # <<>>
         /\ data \in [0 .. n -> 0 .. SizeMod - 1] /\ elems \in [0 .. n - 1 -> Int]
<1>1. n \in Nat
  BY MaxParts
<1>2. DOMAIN data = 0 .. n
  BY DEF Words
<1>3. Size = n /\ data # <<>>
  BY <1>1, <1>2, SizeIs DEF Size
<1>4. Sums = SumOf(n, elems)
  BY <1>3 DEF Sums, SumOf
<1> QED
  BY <1>1, <1>3, <1>4 DEF Words

(* A new array's sums are 0. *)
LEMMA SumsOfNone ==
  ASSUME NEW n \in Nat, NEW e, e = [i \in 0 .. n - 1 |-> 0]
  PROVE  \A k \in 0 .. n : SumOf(n, e)[k] = 0
<1>1. e \in [0 .. n - 1 -> Int] /\ \A j \in 0 .. n - 1 : e[j] = 0
  OBVIOUS
<1> DEFINE T == {k \in Nat : k <= n => SumOf(n, e)[k] = 0}
<1>2. 0 \in T
  <2>1. SumOf(n, e)[0] = 0
    BY <1>1, SumOfIs
  <2> QED
    BY <2>1
<1>3. \A k \in Nat : k \in T => k + 1 \in T
  <2> SUFFICES ASSUME NEW k \in Nat, k \in T, k + 1 <= n
               PROVE  SumOf(n, e)[k + 1] = 0
    OBVIOUS
  <2>1. k \in 0 .. n - 1 /\ SumOf(n, e)[k] = 0 /\ e[k] = 0
    BY <1>1
  <2>2. SumOf(n, e)[k + 1] = SumOf(n, e)[k] + e[k]
    BY <1>1, <2>1, SumOfIs
  <2> QED
    BY <2>1, <2>2
<1> HIDE DEF T
<1>4. Nat \subseteq T
  BY <1>2, <1>3, NatSetInduction
<1> QED
  BY <1>4 DEF T

(* The invariant holds at the start. *)
LEMMA ArrayStarts == TreeArrayInit => TreeArrayInv
<1> SUFFICES ASSUME TreeArrayInit
             PROVE  TreeArrayInv
  OBVIOUS
<1>1. data = <<>> /\ idx = 0 /\ val = 0 /\ updating = FALSE
  BY DEF TreeArrayInit
<1>2. idx \in 0 .. SizeMod - 1
  BY <1>1, WidthParts
<1>3. updating \in BOOLEAN /\ ~updating
  BY <1>1, Zenon
<1>4. val \in Int
  BY <1>1
<1>5. UpdateLocals
  BY <1>2, <1>3, <1>4 DEF UpdateLocals
<1> QED
  BY <1>1, <1>5 DEF TreeArrayInv

(* treearray_create makes an array whose words are 0. *)
LEMMA ArrayCreated ==
  ASSUME TreeArrayInv, NEW size \in 0 .. MaxSize, treearray_create(size)
  PROVE  TreeArrayInv'
<1>1. /\ ~updating' /\ updating' \in BOOLEAN /\ val' \in Int /\ idx' \in 0 .. SizeMod - 1
      /\ updating' = updating /\ val' = val /\ idx' = idx
  BY DEF TreeArrayInv, UpdateLocals, treearray_create
<1>2. size \in Nat /\ 0 \in 0 .. SizeMod - 1
  BY MaxParts, WidthParts
<1>3. data' = [i \in 0 .. size |-> 0] /\ elems' = [i \in 0 .. size - 1 |-> 0]
  BY DEF treearray_create
<1>4. data' \in [0 .. size -> 0 .. SizeMod - 1] /\ elems' \in [0 .. size - 1 -> Int]
  BY <1>2, <1>3
<1>5. PICK e : e = elems'
  OBVIOUS
<1>6. \A k \in 0 .. size : SumOf(size, e)[k] = 0
  BY <1>2, <1>3, <1>5, SumsOfNone
<1>7. ASSUME NEW j \in 1 .. size
      PROVE  data'[j] = SizeT(SumOf(size, elems')[j] - SumOf(size, elems')[j - lowbit(j)]
                              - (IF updating' /\ Covers(j, idx') THEN val' ELSE 0))
  <2>1. j \in 0 .. size /\ j - lowbit(j) \in 0 .. size
    BY MaxParts
  <2>2. SumOf(size, e)[j] = 0 /\ SumOf(size, e)[j - lowbit(j)] = 0
    BY <1>6, <2>1
  <2>3. SizeT((0 - 0) - 0) = 0
    BY <1>2, SmallParts
  <2>4. data'[j] = 0
    BY <1>3, <2>1
  <2> QED
    BY <1>1, <1>5, <2>2, <2>3, <2>4
<1>8. Words(size)'
  BY <1>4, <1>7 DEF Words
<1>9. UpdateLocals'
  BY <1>1 DEF UpdateLocals
<1> QED
  BY <1>8, <1>9 DEF TreeArrayInv

(* treearray_delete leaves none. *)
LEMMA ArrayDeleted ==
  ASSUME TreeArrayInv, treearray_delete
  PROVE  TreeArrayInv'
BY DEF TreeArrayInv, UpdateLocals, treearray_delete

(* A call changes no word: what the element gains is what the words that *)
(* count it have yet to get.                                             *)
LEMMA ArrayCalled ==
  ASSUME TreeArrayInv, NEW i \in 0 .. MaxSize, NEW v \in Amounts, treearray_update(i, v)
  PROVE  TreeArrayInv'
<1>1. data # <<>> /\ ~updating /\ updating' = TRUE /\ val' = v /\ data' = data /\ idx' = SizeT(i + 1)
  BY DEF treearray_update
<1>2. PICK n \in 0 .. MaxSize : Words(n)
  BY <1>1 DEF TreeArrayInv
<1>3. /\ n \in Nat /\ i \in Nat /\ v \in Int
      /\ data \in [0 .. n -> 0 .. SizeMod - 1] /\ elems \in [0 .. n - 1 -> Int]
  BY <1>2, WordsParts, MaxParts, AmountsAssumption
<1>4. i + 1 \in Index /\ idx' = i + 1
  <2>1. i + 1 \in Index
    BY MaxParts
  <2>2. i + 1 \in 0 .. SizeMod - 1
    BY <2>1, MaxParts DEF Index
  <2> QED
    BY <1>1, <2>1, <2>2, SmallParts
<1>5. PICK e, d : e = elems /\ d = elems'
  OBVIOUS
<1>6. d = Added(n, e, i, v)
  BY <1>3, <1>5 DEF treearray_update, Added
<1>7. e \in [0 .. n - 1 -> Int]
  BY <1>3, <1>5
<1>8. d \in [0 .. n - 1 -> Int]
  BY <1>3, <1>6, <1>7, SumAdds
<1>9. \A k \in 0 .. n : SumOf(n, d)[k] = SumOf(n, e)[k] + (IF k > i THEN v ELSE 0)
  BY <1>3, <1>6, <1>7, SumAdds
<1>10. ASSUME NEW j \in 1 .. n
       PROVE  data'[j] = SizeT(SumOf(n, elems')[j] - SumOf(n, elems')[j - lowbit(j)]
                               - (IF updating' /\ Covers(j, idx') THEN val' ELSE 0))
  <2>1. PICK l \in Nat : l = lowbit(j) /\ l \in 1 .. j /\ j - l \in 0 .. n /\ j \in 0 .. n
    BY MaxParts
  <2>2. PICK a \in Int, b \in Int : a = SumOf(n, e)[j] /\ b = SumOf(n, e)[j - l]
    <3>1. SumOf(n, e) \in [0 .. n -> Int]
      BY <1>3, <1>7, SumOfIs
    <3> QED
      BY <2>1, <3>1
  <2>3. data[j] = SizeT(a - b - 0)
    BY <1>1, <1>2, <1>5, <2>1, <2>2 DEF Words
  <2>4. /\ SumOf(n, d)[j] = a + (IF j > i THEN v ELSE 0)
        /\ SumOf(n, d)[j - l] = b + (IF j - l > i THEN v ELSE 0)
    BY <1>9, <2>1, <2>2
  <2>5. Covers(j, i + 1) <=> j - l < i + 1 /\ i + 1 <= j
    BY <2>1 DEF Covers
  <2>6. SumOf(n, d)[j] - SumOf(n, d)[j - l] - (IF Covers(j, i + 1) THEN v ELSE 0) = a - b - 0
    <3>1. v \in Int
      BY <1>3
    <3>2. PICK x \in Int : x = IF j > i THEN v ELSE 0
      BY <3>1
    <3>3. PICK y \in Int : y = IF j - l > i THEN v ELSE 0
      BY <3>1
    <3>4. PICK z \in Int : z = IF Covers(j, i + 1) THEN v ELSE 0
      BY <3>1
    <3>5. i \in Nat /\ j \in Nat /\ j - l <= j
      BY <1>3, <2>1
    <3>6. x - y - z = 0
      <4>1. CASE j <= i
        <5>1. x = 0 /\ y = 0 /\ z = 0
          BY <2>5, <3>2, <3>3, <3>4, <3>5, <4>1
        <5> QED
          BY <5>1
      <4>2. CASE j > i /\ j - l <= i
        <5>1. x = v /\ y = 0 /\ z = v
          BY <2>5, <3>2, <3>3, <3>4, <3>5, <4>2
        <5> QED
          BY <3>1, <5>1
      <4>3. CASE j > i /\ j - l > i
        <5>1. x = v /\ y = v /\ z = 0
          BY <2>5, <3>2, <3>3, <3>4, <3>5, <4>3
        <5> QED
          BY <3>1, <5>1
      <4> QED
        BY <3>5, <4>1, <4>2, <4>3
    <3>7. SumOf(n, d)[j] = a + x /\ SumOf(n, d)[j - l] = b + y
      BY <2>4, <3>2, <3>3
    <3>8. (a + x) - (b + y) - z = a - b - 0
      BY <2>2, <3>6
    <3> QED
      BY <3>4, <3>7, <3>8
  <2> QED
    BY <1>1, <1>4, <1>5, <2>1, <2>3, <2>6
<1>11. Words(n)'
  BY <1>1, <1>3, <1>5, <1>8, <1>10 DEF Words
<1>12. idx' \in Index /\ idx' \in 0 .. SizeMod - 1
  BY <1>4, MaxParts DEF Index
<1>13. UpdateLocals'
  BY <1>1, <1>3, <1>12 DEF UpdateLocals
<1> QED
  BY <1>2, <1>11, <1>13 DEF TreeArrayInv

(* An iteration adds to the word of its index and goes to the next of    *)
(* the words that count the element; past the end there is none left.    *)
LEMMA ArrayUpdated ==
  ASSUME TreeArrayInv, Update
  PROVE  TreeArrayInv'
<1>1. updating /\ updating \in BOOLEAN /\ data # <<>> /\ idx \in Index /\ val \in Int
  BY DEF TreeArrayInv, UpdateLocals, Update
<1>2. PICK n \in 0 .. MaxSize : Words(n)
  BY <1>1 DEF TreeArrayInv
<1>3. /\ n \in Nat /\ Size = n
      /\ data \in [0 .. n -> 0 .. SizeMod - 1] /\ elems \in [0 .. n - 1 -> Int]
  BY <1>2, WordsParts
<1>4. elems' = elems
  BY DEF Update
<1>5. \A j \in 1 .. n : j \in Index /\ j \in 0 .. n /\ lowbit(j) \in 1 .. j /\ j - lowbit(j) \in 0 .. n
  BY MaxParts
<1>6. \A j \in 1 .. n : SumOf(n, elems)[j] - SumOf(n, elems)[j - lowbit(j)] \in Int
  <2> TAKE j \in 1 .. n
  <2>1. SumOf(n, elems) \in [0 .. n -> Int]
    BY <1>3, SumOfIs
  <2> QED
    BY <1>5, <2>1
<1>7. CASE idx > Size
  <2>1. ~(idx <= Size)
    BY <1>1, <1>3, <1>7, MaxParts DEF Index
  <2>2. updating' = FALSE /\ data' = data /\ idx' = 0 /\ val' = 0
    BY <2>1 DEF Update
  <2>3. ASSUME NEW j \in 1 .. n
        PROVE  data'[j] = SizeT(SumOf(n, elems')[j] - SumOf(n, elems')[j - lowbit(j)]
                                - (IF updating' /\ Covers(j, idx') THEN val' ELSE 0))
    <3>1. ~Covers(j, idx)
      BY <1>1, <1>3, <1>7, MaxParts DEF Covers, Index
    <3>2. data[j] = SizeT(SumOf(n, elems)[j] - SumOf(n, elems)[j - lowbit(j)] - 0)
      BY <1>2, <3>1 DEF Words
    <3> QED
      BY <1>4, <2>2, <3>2
  <2>4. Words(n)'
    BY <1>3, <1>4, <2>2, <2>3 DEF Words
  <2>5. idx' \in 0 .. SizeMod - 1
    BY <2>2, WidthParts
  <2>6. UpdateLocals'
    <3>1. updating' \in BOOLEAN /\ ~updating'
      BY <2>2, Zenon
    <3>2. val' \in Int
      BY <2>2
    <3> QED
      BY <2>5, <3>1, <3>2 DEF UpdateLocals
  <2> QED
    BY <1>2, <2>4, <2>6 DEF TreeArrayInv
<1>8. CASE idx <= Size
  <2>1. /\ data' = [data EXCEPT ![idx] = SizeT(@ + val)] /\ idx' = SizeT(idx + lowbit(idx))
        /\ val' = val /\ updating' = updating
    BY <1>8 DEF Update
  <2>2. idx \in 1 .. n /\ idx \in 0 .. n
    BY <1>1, <1>3, <1>8, MaxParts DEF Index
  <2>3. idx + lowbit(idx) \in Index /\ idx' = idx + lowbit(idx)
    <3>1. idx + lowbit(idx) \in Index
      BY <2>2, MaxParts
    <3>2. idx + lowbit(idx) \in 0 .. SizeMod - 1
      BY <3>1, MaxParts DEF Index
    <3> QED
      BY <2>1, <3>1, <3>2, SmallParts
  <2>4. data' \in [0 .. n -> 0 .. SizeMod - 1]
    <3>1. data[idx] + val \in Int
      BY <1>1, <1>3, <2>2, MaxParts
    <3>2. PICK x \in Int : x = data[idx] + val
      BY <3>1
    <3>3. SizeT(x) \in 0 .. SizeMod - 1
      BY IntAdds
    <3> QED
      BY <1>3, <2>1, <2>2, <3>2, <3>3
  <2>5. ASSUME NEW j \in 1 .. n
        PROVE  data'[j] = SizeT(SumOf(n, elems')[j] - SumOf(n, elems')[j - lowbit(j)]
                                - (IF updating' /\ Covers(j, idx') THEN val' ELSE 0))
    <3>1. PICK s \in Int : s = SumOf(n, elems)[j] - SumOf(n, elems)[j - lowbit(j)]
      BY <1>6
    <3>2. data[j] = SizeT(s - (IF Covers(j, idx) THEN val ELSE 0))
      BY <1>1, <1>2, <3>1 DEF Words
    <3>3. /\ Covers(j, idx) <=> j = idx \/ Covers(j, idx')
          /\ j = idx => ~Covers(j, idx')
      BY <1>1, <1>5, <2>3, CoversMoves
    <3>4. data'[j] = SizeT(s - (IF Covers(j, idx') THEN val ELSE 0))
      <4>1. CASE j = idx
        <5>1. data[j] = SizeT(s - val) /\ data'[j] = SizeT(data[j] + val)
          BY <1>3, <2>1, <2>2, <3>2, <3>3, <4>1
        <5>2. SizeT(SizeT(s - val) + val) = SizeT((s - val) + val)
          BY <1>1, SizeTAdds
        <5>3. (s - val) + val = s - 0
          BY <1>1
        <5> QED
          BY <3>3, <4>1, <5>1, <5>2, <5>3
      <4>2. CASE j # idx
        <5>1. data'[j] = data[j]
          BY <1>3, <1>5, <2>1, <4>2
        <5> QED
          BY <3>2, <3>3, <4>2, <5>1
      <4> QED
        BY <4>1, <4>2
    <3> QED
      BY <1>1, <1>4, <2>1, <3>1, <3>4
  <2>6. Words(n)'
    BY <1>3, <1>4, <2>4, <2>5 DEF Words
  <2>7. idx' \in Index /\ idx' \in 0 .. SizeMod - 1 /\ data' # <<>>
    <3>1. DOMAIN data' = 0 .. n
      BY <2>4
    <3> QED
      BY <1>3, <2>3, <3>1, SizeIs, MaxParts DEF Index
  <2>8. UpdateLocals'
    BY <1>1, <2>1, <2>7 DEF UpdateLocals
  <2> QED
    BY <1>2, <2>6, <2>8 DEF TreeArrayInv
<1> QED
  BY <1>1, <1>3, <1>7, <1>8, MaxParts DEF Index

(* Between the iterations of treearray_update each word makes the sum of *)
(* the elements that it counts, but for what is yet to be added          *)
(* (treearray.c 30-37).                                                  *)
THEOREM TreeArrayInvariant == TreeArraySpec => []TreeArrayInv
<1>1. TreeArrayInit => TreeArrayInv
  BY ArrayStarts
<1>2. TreeArrayInv /\ [TreeArrayNext]_treearray_vars => TreeArrayInv'
  <2> SUFFICES ASSUME TreeArrayInv, [TreeArrayNext]_treearray_vars
               PROVE  TreeArrayInv'
    OBVIOUS
  <2>1. ASSUME NEW size \in 0 .. MaxSize, treearray_create(size) PROVE TreeArrayInv'
    BY <2>1, ArrayCreated
  <2>2. CASE treearray_delete
    BY <2>2, ArrayDeleted
  <2>3. ASSUME NEW i \in 0 .. MaxSize, NEW v \in Amounts, treearray_update(i, v)
        PROVE  TreeArrayInv'
    BY <2>3, ArrayCalled
  <2>4. CASE Update
    BY <2>4, ArrayUpdated
  <2>5. CASE UNCHANGED treearray_vars
    BY <2>5 DEF treearray_vars, TreeArrayInv, UpdateLocals, Words
  <2> QED
    BY <2>1, <2>2, <2>3, <2>4, <2>5 DEF TreeArrayNext
<1> QED
  BY <1>1, <1>2, PTL DEF TreeArraySpec

(* The index of the word at which the loop of treearray_length starts. *)
Ends(n, i) == IF i >= n THEN n ELSE i + 1

(* Its type, and that the code starts there. *)
LEMMA EndsIs ==
  ASSUME NEW n \in 0 .. MaxSize, Size = n, NEW i \in Nat
  PROVE  Ends(n, i) \in 0 .. n /\ SizeT(Clamped(i) + 1) = Ends(n, i)
<1>1. PICK M \in Nat : M = SizeMod /\ M > 1 /\ n < M /\ n \in Nat
  BY MaxParts, WidthParts, MaxSizeAssumption
<1>2. CASE i < n
  <2>1. Clamped(i) = i /\ Ends(n, i) = i + 1
    BY <1>1, <1>2 DEF Clamped, Ends
  <2>2. i + 1 \in 0 .. n /\ i + 1 \in 0 .. SizeMod - 1
    BY <1>1, <1>2
  <2> QED
    BY <2>1, <2>2, SmallParts
<1>3. CASE i >= n /\ n > 0
  <2>1. Clamped(i) = SizeT(n - 1) /\ Ends(n, i) = n
    BY <1>3 DEF Clamped, Ends
  <2>2. n - 1 \in 0 .. SizeMod - 1 /\ n \in 0 .. SizeMod - 1 /\ (n - 1) + 1 = n /\ n \in 0 .. n
    BY <1>1, <1>3
  <2>3. SizeT(n - 1) = n - 1 /\ SizeT(n) = n
    BY <2>2, SmallParts
  <2> QED
    BY <2>1, <2>2, <2>3
<1>4. CASE n = 0
  <2>1. Clamped(i) = SizeT(0 - 1) /\ Ends(n, i) = 0
    BY <1>4 DEF Clamped, Ends
  <2>2. SizeT(0 - 1) = SizeMod - 1
    <3>1. 0 - 1 = -1
      OBVIOUS
    <3> QED
      BY <3>1, SmallParts
  <2>3. (SizeMod - 1) + 1 = SizeMod
    BY <1>1
  <2> QED
    BY <1>4, <2>1, <2>2, <2>3, SmallParts
<1> QED
  BY <1>1, <1>2, <1>3, <1>4

(* An iteration of treearray_length goes to a lower index. *)
LEMMA CountedParts ==
  ASSUME NEW n \in 0 .. MaxSize, Words(n), NEW r \in [idx : 0 .. n, result : Int]
  PROVE  /\ Counted(r) \in [idx : 0 .. n, result : Int]
         /\ r.idx = 0 => Counted(r) = r
         /\ r.idx # 0 =>
              /\ Counted(r).idx = r.idx - lowbit(r.idx) /\ Counted(r).idx < r.idx
              /\ Counted(r).result = Int32(data[r.idx] + r.result)
<1>1. PICK j \in 0 .. n, x \in Int : j = r.idx /\ x = r.result /\ n \in Nat
  BY MaxParts
<1>2. CASE j = 0
  BY <1>1, <1>2 DEF Counted
<1>3. CASE j # 0
  <2>1. j \in 1 .. n
    BY <1>1, <1>3
  <2>2. PICK l \in Nat : l = lowbit(j) /\ l \in 1 .. j /\ j - l \in 0 .. n
    BY <2>1, MaxParts
  <2>3. PICK w \in Int : w = data[j]
    BY <2>1, WordsParts, MaxParts
  <2>4. Int32(w + x) \in Int
    BY IntParts
  <2>5. Counted(r) = [idx |-> j - l, result |-> Int32(w + x)]
    BY <1>1, <1>3, <2>2, <2>3 DEF Counted
  <2> QED
    BY <1>1, <1>3, <2>2, <2>3, <2>4, <2>5
<1> QED
  BY <1>2, <1>3

(* Between calls treearray_length makes the int of the sum. *)
LEMMA LengthIs ==
  ASSUME NEW n, NEW i, n \in 0 .. MaxSize, i \in Nat, Words(n), ~updating
  PROVE  treearray_length(i) = Int32(SumOf(n, elems)[Ends(n, i)])
<1> DEFINE S == [idx : 0 .. n, result : Int]
           c == Ends(n, i)
           s == SumOf(n, elems)
           start == [idx |-> c, result |-> 0]
           step == [r \in S |-> Counted(r)]
           Body(f) == [k \in 0 .. n |-> IF k = 0 THEN start ELSE Counted(f[k - 1])]
           after == CHOOSE f : f = Body(f)
<1>1. /\ n \in Nat /\ Size = n /\ c \in 0 .. n
      /\ SizeT(Clamped(i) + 1) = c
  BY WordsParts, EndsIs
<1>2. s \in [0 .. n -> Int] /\ s[0] = 0
  BY WordsParts, SumOfIs
<1>3. start \in S /\ \A r \in S : Counted(r) \in S
  BY <1>1, CountedParts
<1>4. step \in [S -> S]
  BY <1>3
<1>5. treearray_length(i) = after[n].result
  BY <1>1 DEF treearray_length
<1>6. PICK F \in [Nat -> S] : F[0] = start /\ \A k \in Nat : F[k + 1] = step[F[k]]
  <2>1. start \in S /\ step \in [S -> S]
    BY <1>3, <1>4
  <2> HIDE DEF S, c, s, start, step, Body, after
  <2> QED
    BY ONLY <2>1, Iteration
<1>7. \A k \in Nat : F[k] \in S /\ F[k + 1] = Counted(F[k])
  BY <1>6
<1>8. after = Body(after)
  <2>1. PICK f : f = [k \in 0 .. n |-> F[k]]
    OBVIOUS
  <2>2. ASSUME NEW k \in 0 .. n
        PROVE  f[k] = IF k = 0 THEN start ELSE Counted(f[k - 1])
    <3>1. CASE k = 0
      BY <1>6, <2>1, <3>1
    <3>2. CASE k # 0
      <4>1. PICK l \in Nat : l = k - 1 /\ k = l + 1 /\ l \in 0 .. n
        BY <1>1, <3>2
      <4>2. F[l + 1] = Counted(F[l])
        BY <1>7
      <4> QED
        BY <2>1, <3>2, <4>1, <4>2
    <3> QED
      BY <3>1, <3>2
  <2>3. f = [k \in 0 .. n |-> f[k]]
    BY <2>1
  <2>4. f = Body(f)
    <3> HIDE DEF start
    <3> QED
      BY <2>2, <2>3, Zenon
  <2> HIDE DEF Body
  <2> QED
    BY <2>4
<1> HIDE DEF after, c, s
<1>9. after[0] = start /\ \A k \in 0 .. n - 1 : after[k + 1] = Counted(after[k])
  <2>1. after[0] = start
    BY <1>1, <1>8
  <2>2. ASSUME NEW k \in 0 .. n - 1
        PROVE  after[k + 1] = Counted(after[k])
    <3>1. PICK m \in 0 .. n : m = k + 1 /\ m # 0 /\ m - 1 = k
      BY <1>1
    <3>2. after[m] = Counted(after[m - 1])
      BY <1>8, <3>1
    <3> QED
      BY <3>1, <3>2
  <2> QED
    BY <2>1, <2>2
<1> DEFINE T == {k \in Nat : k <= n =>
                   /\ after[k] \in S
                   /\ after[k].result = Int32(s[c] - s[after[k].idx])
                   /\ after[k].idx = 0 \/ after[k].idx <= n - k}
<1>10. 0 \in T
  <2>1. s[c] \in Int
    BY <1>1, <1>2
  <2>2. s[c] - s[c] = 0 /\ Int32(0) = 0
    BY <2>1, SmallParts
  <2>3. after[0].idx = c /\ after[0].result = 0
    BY <1>9
  <2> QED
    BY <1>1, <1>3, <1>9, <2>2, <2>3
<1>11. \A k \in Nat : k \in T => k + 1 \in T
  <2> SUFFICES ASSUME NEW k \in Nat, k \in T, k + 1 <= n
               PROVE  /\ after[k + 1] \in S
                      /\ after[k + 1].result = Int32(s[c] - s[after[k + 1].idx])
                      /\ after[k + 1].idx = 0 \/ after[k + 1].idx <= n - (k + 1)
    OBVIOUS
  <2>1. PICK r, q : r = after[k] /\ q = after[k + 1]
    OBVIOUS
  <2>2. k \in 0 .. n - 1 /\ q = Counted(r)
    BY <1>1, <1>9, <2>1
  <2>3. r \in S /\ r.result = Int32(s[c] - s[r.idx]) /\ (r.idx = 0 \/ r.idx <= n - k)
    BY <1>1, <2>1
  <2>4. CASE r.idx = 0
    <3>1. q = r
      BY <2>2, <2>3, <2>4, CountedParts
    <3> QED
      BY <2>1, <2>3, <2>4, <3>1
  <2>5. CASE r.idx # 0
    <3>1. PICK j \in 1 .. n : j = r.idx /\ j \in 0 .. n /\ j <= n - k
      BY <1>1, <2>3, <2>5
    <3>2. PICK l \in Nat : l = lowbit(j) /\ j - l \in 0 .. n
      BY <3>1, MaxParts
    <3>3. q \in S /\ q.idx = j - l /\ q.idx < j /\ q.result = Int32(data[j] + r.result)
      BY <2>2, <2>3, <2>5, <3>1, <3>2, CountedParts
    <3>4. PICK a \in Int, b \in Int, e \in Int : a = s[j] /\ b = s[j - l] /\ e = s[c]
      BY <1>1, <1>2, <3>1, <3>2
    <3>5. data[j] = SizeT((a - b) - 0)
      BY <3>1, <3>2, <3>4 DEF Words, s
    <3>6. r.result = Int32(e - a)
      BY <2>3, <3>1, <3>4
    <3>7. PICK x \in Int, y \in Int : x = (a - b) - 0 /\ y = e - a
      OBVIOUS
    <3>8. Int32(SizeT(x) + Int32(y)) = Int32(x + y)
      BY IntAdds
    <3>9. x + y = e - b
      BY <3>7
    <3>10. q.result = Int32(s[c] - s[q.idx])
      BY <3>3, <3>4, <3>5, <3>6, <3>7, <3>8, <3>9
    <3>11. q.idx <= n - (k + 1)
      BY <1>1, <3>1, <3>2, <3>3
    <3> QED
      BY <2>1, <3>3, <3>10, <3>11
  <2> QED
    BY <2>4, <2>5
<1> HIDE DEF T
<1>12. Nat \subseteq T
  BY <1>10, <1>11, NatSetInduction
<1>13. after[n] \in S /\ after[n].result = Int32(s[c] - s[after[n].idx]) /\ after[n].idx = 0
  <2>1. n \in T
    BY <1>1, <1>12
  <2> QED
    BY <1>1, <2>1 DEF T
<1>14. s[c] - s[0] = s[c]
  <2>1. s[c] \in Int
    BY <1>1, <1>2
  <2>2. s[0] = 0
    BY <1>2
  <2>3. \A x \in Int : x - 0 = x
    OBVIOUS
  <2> QED
    BY <2>1, <2>2, <2>3
<1> QED
  BY <1>5, <1>13, <1>14 DEF s, c

(* The sum of the elements up to an index. *)
LEMMA PrefixIs ==
  ASSUME NEW n \in 0 .. MaxSize, Words(n), NEW i \in Nat
  PROVE  Prefix(i) = SumOf(n, elems)[Ends(n, i)]
BY WordsParts DEF Prefix, Ends

(* Between calls treearray_length of every index, also of one past the   *)
(* end, is the int that the sum of the elements up to it makes           *)
(* (treearray.c 39-50).                                                  *)
THEOREM LengthsArePrefixes == TreeArraySpec => []PrefixSums
<1>1. TreeArrayInv => PrefixSums
  <2> SUFFICES ASSUME TreeArrayInv, data # <<>>, ~updating, NEW i \in 0 .. MaxSize
               PROVE  treearray_length(i) = Int32(Prefix(i))
    BY DEF PrefixSums
  <2>1. PICK n \in 0 .. MaxSize : Words(n)
    BY DEF TreeArrayInv
  <2>2. i \in Nat
    BY MaxParts
  <2> QED
    BY <2>1, <2>2, LengthIs, PrefixIs
<1> QED
  BY <1>1, TreeArrayInvariant, PTL

(* A bracket around the answer a, among the indexes 0 .. c. *)
Bracket(c, a) == {r \in [head : 0 .. c, tail : 0 .. c] : r.head <= a /\ a <= r.tail}

(* Its length. *)
Gap(r) == r.tail - r.head

(* An iteration of treearray_locate keeps the answer in the bracket and  *)
(* halves the gap.                                                       *)
LEMMA HalvedParts ==
  ASSUME NEW c \in Nat, NEW a \in 0 .. c, NEW loc,
         \A mid \in 0 .. c : mid < c => (RightOf(mid, loc) <=> mid < a),
         NEW r \in Bracket(c, a)
  PROVE  /\ Halved(r, loc) \in Bracket(c, a)
         /\ \A p \in Nat \ {0} : Gap(r) < 2 * p => Gap(Halved(r, loc)) < p
<1>1. PICK h \in 0 .. c, t \in 0 .. c : h = r.head /\ t = r.tail /\ h <= a /\ a <= t
  BY DEF Bracket
<1>2. r \in [head : 0 .. c, tail : 0 .. c]
  BY DEF Bracket
<1>3. CASE h >= t
  <2>1. Halved(r, loc) = r
    BY <1>1, <1>3 DEF Halved
  <2>2. Gap(r) = 0
    BY <1>1, <1>3 DEF Gap
  <2> QED
    BY <2>1, <2>2
<1>4. CASE h < t
  <2>1. PICK g \in Nat : g = t - h
    BY <1>4
  <2>2. PICK u \in Nat : g \div 2 = u /\ (g = 2 * u \/ g = (2 * u) + 1)
    BY Halves
  <2>3. PICK m \in 0 .. c : m = h + u /\ m < t /\ m < c
    BY <1>1, <1>4, <2>1, <2>2
  <2>4. RightOf(m, loc) <=> m < a
    BY <2>3
  <2>5. CASE RightOf(m, loc)
    <3>1. Halved(r, loc) = [r EXCEPT !.head = m + 1]
      BY <1>1, <1>4, <2>1, <2>2, <2>3, <2>5 DEF Halved
    <3>2. Halved(r, loc).head = m + 1 /\ Halved(r, loc).tail = t
      BY <1>1, <1>2, <3>1
    <3>3. m + 1 \in 0 .. c /\ m + 1 <= a
      BY <2>3, <2>4, <2>5
    <3>4. Halved(r, loc) \in [head : 0 .. c, tail : 0 .. c]
      BY <1>2, <3>1, <3>3
    <3>5. \A p \in Nat \ {0} : t - h < 2 * p => t - (m + 1) < p
      BY <1>1, <2>1, <2>2, <2>3
    <3> QED
      BY <1>1, <3>2, <3>3, <3>4, <3>5 DEF Bracket, Gap
  <2>6. CASE ~RightOf(m, loc)
    <3>1. Halved(r, loc) = [r EXCEPT !.tail = m]
      BY <1>1, <1>4, <2>1, <2>2, <2>3, <2>6 DEF Halved
    <3>2. Halved(r, loc).head = h /\ Halved(r, loc).tail = m
      BY <1>1, <1>2, <3>1
    <3>3. a <= m
      BY <2>3, <2>4, <2>6
    <3>4. Halved(r, loc) \in [head : 0 .. c, tail : 0 .. c]
      BY <1>2, <2>3, <3>1
    <3>5. \A p \in Nat \ {0} : t - h < 2 * p => m - h < p
      BY <1>1, <2>1, <2>2, <2>3
    <3> QED
      BY <1>1, <3>2, <3>3, <3>4, <3>5 DEF Bracket, Gap
  <2> QED
    BY <2>5, <2>6
<1> QED
  BY <1>1, <1>3, <1>4

(* treearray_locate ends at the index to whose left, and only there,     *)
(* what is looked for lies to the right.                                 *)
LEMMA LocateIs ==
  ASSUME NEW c, NEW a, NEW loc, c \in 0 .. SizeMod - 1, a \in 0 .. c, SizeT(Size - 1) = c,
         \A mid \in 0 .. c : mid < c => (RightOf(mid, loc) <=> mid < a)
  PROVE  treearray_locate(loc) = Int32(a)
<1> DEFINE S == Bracket(c, a)
           start == [head |-> 0, tail |-> c]
           step == [r \in S |-> Halved(r, loc)]
           Body(f) == [k \in 0 .. SizeBits |-> IF k = 0 THEN start ELSE Halved(f[k - 1], loc)]
           after == CHOOSE f : f = Body(f)
<1>1. c \in Nat /\ a \in 0 .. c /\ SizeBits \in Nat /\ SizeMod = Pow2[SizeBits] /\ c < SizeMod
  BY WidthParts, WidthsAssumption DEF SizeMod
<1>2. start \in S /\ \A r \in S : Halved(r, loc) \in S
  BY <1>1, HalvedParts DEF Bracket
<1>3. step \in [S -> S]
  BY <1>2
<1>4. treearray_locate(loc) = Int32(after[SizeBits].head)
  BY DEF treearray_locate
<1>5. PICK F \in [Nat -> S] : F[0] = start /\ \A k \in Nat : F[k + 1] = step[F[k]]
  <2>1. start \in S /\ step \in [S -> S]
    BY <1>2, <1>3
  <2> HIDE DEF S, start, step, Body, after
  <2> QED
    BY ONLY <2>1, Iteration
<1>6. \A k \in Nat : F[k] \in S /\ F[k + 1] = Halved(F[k], loc)
  BY <1>5
<1>7. after = Body(after)
  <2>1. PICK f : f = [k \in 0 .. SizeBits |-> F[k]]
    OBVIOUS
  <2>2. ASSUME NEW k \in 0 .. SizeBits
        PROVE  f[k] = IF k = 0 THEN start ELSE Halved(f[k - 1], loc)
    <3>1. CASE k = 0
      BY <1>1, <1>5, <2>1, <3>1
    <3>2. CASE k # 0
      <4>1. PICK l \in Nat : l = k - 1 /\ k = l + 1 /\ l \in 0 .. SizeBits
        BY <1>1, <3>2
      <4>2. F[l + 1] = Halved(F[l], loc)
        BY <1>6
      <4> QED
        BY <2>1, <3>2, <4>1, <4>2
    <3> QED
      BY <3>1, <3>2
  <2>3. f = [k \in 0 .. SizeBits |-> f[k]]
    BY <2>1
  <2>4. f = Body(f)
    <3> HIDE DEF start
    <3> QED
      BY <2>2, <2>3, Zenon
  <2> HIDE DEF Body
  <2> QED
    BY <2>4
<1> HIDE DEF after
<1>8. after[0] = start /\ \A k \in 0 .. SizeBits - 1 : after[k + 1] = Halved(after[k], loc)
  <2>1. after[0] = start
    BY <1>1, <1>7
  <2>2. ASSUME NEW k \in 0 .. SizeBits - 1
        PROVE  after[k + 1] = Halved(after[k], loc)
    <3>1. PICK m \in 0 .. SizeBits : m = k + 1 /\ m # 0 /\ m - 1 = k
      BY <1>1
    <3>2. after[m] = Halved(after[m - 1], loc)
      BY <1>7, <3>1
    <3> QED
      BY <3>1, <3>2
  <2> QED
    BY <2>1, <2>2
<1> DEFINE T == {k \in Nat : k <= SizeBits =>
                   after[k] \in S /\ Gap(after[k]) < Pow2[SizeBits - k]}
<1>9. 0 \in T
  <2>1. Gap(start) = c
    BY <1>1 DEF Gap
  <2>2. SizeBits - 0 = SizeBits
    BY <1>1
  <2> QED
    BY <1>1, <1>2, <1>8, <2>1, <2>2
<1>10. \A k \in Nat : k \in T => k + 1 \in T
  <2> SUFFICES ASSUME NEW k \in Nat, k \in T, k + 1 <= SizeBits
               PROVE  after[k + 1] \in S /\ Gap(after[k + 1]) < Pow2[SizeBits - (k + 1)]
    OBVIOUS
  <2>1. PICK r : r = after[k]
    OBVIOUS
  <2>2. k \in 0 .. SizeBits - 1 /\ after[k + 1] = Halved(r, loc)
    BY <1>1, <1>8, <2>1
  <2>3. r \in S /\ Gap(r) < Pow2[SizeBits - k]
    BY <1>1, <2>1
  <2>4. PICK l \in Nat : l = SizeBits - (k + 1) /\ l + 1 = SizeBits - k
    BY <1>1
  <2>5. PICK p \in Nat \ {0} : p = Pow2[l] /\ Pow2[l + 1] = 2 * p
    BY PowParts
  <2>6. Gap(r) < 2 * p
    BY <2>3, <2>4, <2>5
  <2>7. Halved(r, loc) \in S /\ Gap(Halved(r, loc)) < p
    BY <1>1, <2>3, <2>6, HalvedParts
  <2> QED
    BY <2>2, <2>4, <2>5, <2>7
<1> HIDE DEF T
<1>11. Nat \subseteq T
  BY <1>9, <1>10, NatSetInduction
<1>12. PICK r : r = after[SizeBits] /\ r \in S /\ Gap(r) < 1
  <2>1. SizeBits \in T
    BY <1>1, <1>11
  <2>2. SizeBits - SizeBits = 0 /\ Pow2[0] = 1
    BY <1>1, Pow2Steps
  <2> QED
    BY <1>1, <2>1, <2>2 DEF T
<1>13. r.head = a
  <2>1. PICK h \in 0 .. c, t \in 0 .. c : h = r.head /\ t = r.tail /\ h <= a /\ a <= t
    BY <1>12 DEF Bracket
  <2>2. t - h < 1
    BY <1>12, <2>1 DEF Gap
  <2>3. a \in Nat /\ h \in Nat /\ t \in Nat
    BY <1>1, <2>1
  <2> QED
    BY <2>1, <2>2, <2>3
<1> QED
  BY <1>4, <1>12, <1>13

(* A set of natural numbers has a least one. *)
LEMMA LeastIs ==
  ASSUME NEW R \in SUBSET Nat, R # {}
  PROVE  Min(R) \in R /\ \A y \in R : Min(R) <= y
<1> DEFINE T == {k \in Nat : (\E x \in R : x <= k) => \E x \in R : \A y \in R : x <= y}
<1>1. 0 \in T
  OBVIOUS
<1>2. \A k \in Nat : k \in T => k + 1 \in T
  <2> SUFFICES ASSUME NEW k \in Nat, k \in T, NEW x \in R, x <= k + 1
               PROVE  \E z \in R : \A y \in R : z <= y
    OBVIOUS
  <2>1. CASE \E y \in R : y <= k
    BY <2>1
  <2>2. CASE ~\E y \in R : y <= k
    <3>1. \A y \in R : x <= y
      BY <2>2
    <3> QED
      BY <3>1
  <2> QED
    BY <2>1, <2>2
<1> HIDE DEF T
<1>3. Nat \subseteq T
  BY <1>1, <1>2, NatSetInduction
<1>4. PICK x \in R : x \in Nat /\ x \in T
  BY <1>3
<1>5. \E z \in R : \A y \in R : z <= y
  BY <1>4 DEF T
<1> QED
  BY <1>5 DEF Min

(* What lies to the right is told by the sums. *)
LEMMA RightParts ==
  ASSUME NEW n, NEW mid, n \in 0 .. MaxSize, mid \in Nat, Words(n), ~updating,
         NEW loc \in Nat, SumOf(n, elems)[Ends(n, mid)] \in Nat,
         SumOf(n, elems)[Ends(n, mid)] < IntMod \div 2
  PROVE  RightOf(mid, loc) <=> SumOf(n, elems)[Ends(n, mid)] < loc
<1>1. PICK s \in Nat : s = SumOf(n, elems)[Ends(n, mid)] /\ s < IntMod \div 2
  OBVIOUS
<1>2. treearray_length(mid) = Int32(s)
  BY <1>1, LengthIs
<1>3. Int32(s) = s /\ SizeT(s) = s
  BY <1>1, SmallParts
<1> QED
  BY <1>1, <1>2, <1>3 DEF RightOf

(* The sums of elements that are not negative, when the whole is an int. *)
LEMMA SumsFit ==
  ASSUME NEW n \in 0 .. MaxSize, Words(n), \A i \in DOMAIN elems : elems[i] >= 0,
         Prefix(MaxSize) < IntMod \div 2
  PROVE  /\ DOMAIN elems = 0 .. n - 1
         /\ \A k \in 0 .. n : SumOf(n, elems)[k] \in Nat /\ SumOf(n, elems)[k] < IntMod \div 2
         /\ \A l \in 0 .. n : \A k \in 0 .. l : SumOf(n, elems)[k] <= SumOf(n, elems)[l]
<1>1. n \in Nat /\ MaxSize \in Nat /\ elems \in [0 .. n - 1 -> Int]
  BY WordsParts, MaxParts
<1>2. PICK s : s = SumOf(n, elems) /\ s \in [0 .. n -> Int]
  BY <1>1, SumOfIs
<1>3. \A l \in 0 .. n : s[l] >= 0 /\ \A k \in 0 .. l : s[k] <= s[l]
  BY <1>1, <1>2, SumsGrow
<1>4. s[n] < IntMod \div 2
  <2>1. Ends(n, MaxSize) = n
    BY <1>1 DEF Ends
  <2> QED
    BY <1>1, <1>2, <2>1, PrefixIs
<1>5. PICK h \in Int : h = IntMod \div 2
  BY WidthParts
<1>6. ASSUME NEW k \in 0 .. n
      PROVE  s[k] \in Nat /\ s[k] < h
  <2>1. n \in 0 .. n /\ k \in 0 .. n
    BY <1>1
  <2>2. s[k] \in Int /\ s[n] \in Int /\ s[k] >= 0 /\ s[k] <= s[n]
    BY <1>2, <1>3, <2>1
  <2> QED
    BY <1>4, <1>5, <2>2
<1> QED
  BY <1>1, <1>2, <1>3, <1>5, <1>6

(* Of elements that are not negative and whose sum is an int,            *)
(* treearray_locate finds the first index whose prefix reaches loc, the  *)
(* last index if there is none, and of no elements 0 or -1 (treearray.c  *)
(* 52-65).                                                               *)
THEOREM LocationsAreFirst == TreeArraySpec => []LocatesFirst
<1>1. TreeArrayInv => LocatesFirst
  <2> DEFINE Reach(loc) == {i \in DOMAIN elems : Prefix(i) >= loc}
  <2> SUFFICES ASSUME TreeArrayInv, data # <<>>, ~updating,
                      \A i \in DOMAIN elems : elems[i] >= 0, Prefix(MaxSize) < IntMod \div 2,
                      NEW loc, loc \in 0 .. IntMod \div 2
               PROVE  treearray_locate(loc) =
                        IF Size = 0 THEN IF loc = 0 THEN 0 ELSE -1
                        ELSE Int32(IF Reach(loc) = {} THEN Size - 1 ELSE Min(Reach(loc)))
    BY DEF LocatesFirst
  <2>1. PICK n : n \in 0 .. MaxSize /\ Words(n)
    BY DEF TreeArrayInv
  <2>2. /\ n \in Nat /\ Size = n /\ loc \in Nat /\ n < SizeMod /\ SizeMod \in Nat /\ SizeMod > 1
        /\ DOMAIN elems = 0 .. n - 1
    BY <2>1, WordsParts, SumsFit, WidthParts, MaxSizeAssumption, MaxParts
  <2> DEFINE s == SumOf(n, elems)
  <2>3. /\ \A k \in 0 .. n : s[k] \in Nat /\ s[k] < IntMod \div 2
        /\ \A l \in 0 .. n : \A k \in 0 .. l : s[k] <= s[l]
    BY <2>1, SumsFit
  <2> HIDE DEF s
  <2>4. ASSUME NEW mid, mid \in Nat
        PROVE  /\ Ends(n, mid) \in 0 .. n /\ Prefix(mid) = s[Ends(n, mid)]
               /\ RightOf(mid, loc) <=> s[Ends(n, mid)] < loc
    <3>1. Ends(n, mid) \in 0 .. n
      BY <2>2, <2>4 DEF Ends
    <3>2. Prefix(mid) = s[Ends(n, mid)]
      BY <2>1, <2>4, PrefixIs DEF s
    <3>3. s[Ends(n, mid)] \in Nat /\ s[Ends(n, mid)] < IntMod \div 2
      BY <2>3, <3>1
    <3>4. RightOf(mid, loc) <=> s[Ends(n, mid)] < loc
      BY <2>1, <2>2, <2>4, <3>3, RightParts DEF s
    <3> QED
      BY <3>1, <3>2, <3>4
  <2>5. CASE n = 0
    <3>1. s[0] = 0
      BY <2>1, <2>5, WordsParts, SumOfIs DEF s
    <3>2. \A mid \in Nat : RightOf(mid, loc) <=> 0 < loc
      <4> TAKE mid \in Nat
      <4>1. Ends(n, mid) = 0
        BY <2>5 DEF Ends
      <4> QED
        BY <2>4, <3>1, <4>1
    <3>3. PICK c \in Nat : c = SizeMod - 1 /\ c \in 0 .. SizeMod - 1
      BY <2>2
    <3>4. SizeT(Size - 1) = c
      <4>1. Size - 1 = -1
        BY <2>2, <2>5
      <4> QED
        BY <3>3, <4>1, SmallParts
    <3>5. CASE loc = 0
      <4>1. 0 \in 0 .. c /\ \A mid \in 0 .. c : mid < c => (RightOf(mid, loc) <=> mid < 0)
        BY <3>2, <3>3, <3>5
      <4>2. treearray_locate(loc) = Int32(0)
        BY <3>3, <3>4, <4>1, LocateIs
      <4> QED
        BY <2>2, <2>5, <3>5, <4>2, SmallParts
    <3>6. CASE loc # 0
      <4>1. c \in 0 .. c /\ \A mid \in 0 .. c : mid < c => (RightOf(mid, loc) <=> mid < c)
        BY <2>2, <3>2, <3>3, <3>6
      <4>2. treearray_locate(loc) = Int32(c)
        BY <3>3, <3>4, <4>1, LocateIs
      <4>3. Int32(c) = -1
        BY <3>3, SmallParts
      <4> QED
        BY <2>2, <2>5, <3>6, <4>2, <4>3
    <3> QED
      BY <3>5, <3>6
  <2>6. CASE n # 0
    <3>1. PICK c \in Nat : c = n - 1 /\ c \in 0 .. SizeMod - 1
      BY <2>2, <2>6
    <3>2. SizeT(Size - 1) = c
      BY <2>2, <3>1, SmallParts
    <3>3. PICK R : R = Reach(loc)
      OBVIOUS
    <3>4. R \in SUBSET (0 .. c) /\ R \in SUBSET Nat
      BY <2>2, <3>1, <3>3
    <3>5. ASSUME NEW i, i \in 0 .. c
          PROVE  /\ i \in R <=> ~RightOf(i, loc)
                 /\ \A j \in 0 .. i : RightOf(i, loc) => RightOf(j, loc)
      <4>1. i \in Nat /\ Ends(n, i) = i + 1
        BY <2>2, <3>1, <3>5 DEF Ends
      <4>2. i + 1 \in 0 .. n /\ Prefix(i) = s[i + 1] /\ (RightOf(i, loc) <=> s[i + 1] < loc)
        BY <2>4, <4>1
      <4>3. s[i + 1] \in Nat
        BY <2>3, <4>2
      <4>4. i \in R <=> ~RightOf(i, loc)
        BY <2>2, <3>1, <3>3, <3>5, <4>2, <4>3
      <4>5. ASSUME NEW j \in 0 .. i, RightOf(i, loc)
            PROVE  RightOf(j, loc)
        <5>1. j \in Nat /\ Ends(n, j) = j + 1
          BY <2>2, <3>1, <3>5, <4>1 DEF Ends
        <5>2. j + 1 \in 0 .. n /\ (RightOf(j, loc) <=> s[j + 1] < loc)
          BY <2>4, <5>1
        <5>3. j + 1 \in 0 .. i + 1
          BY <4>1
        <5>4. s[j + 1] \in Nat /\ s[j + 1] <= s[i + 1]
          BY <2>3, <4>2, <5>2, <5>3
        <5> QED
          BY <2>2, <4>2, <4>3, <4>5, <5>2, <5>4
      <4> QED
        BY <4>4, <4>5
    <3>6. CASE R = {}
      <4>1. c \in 0 .. c /\ \A mid \in 0 .. c : mid < c => (RightOf(mid, loc) <=> mid < c)
        BY <3>5, <3>6
      <4>2. treearray_locate(loc) = Int32(c)
        BY <3>1, <3>2, <4>1, LocateIs
      <4> QED
        BY <2>2, <2>6, <3>1, <3>3, <3>6, <4>2
    <3>7. CASE R # {}
      <4>1. PICK a : a = Min(R) /\ a \in R /\ \A y \in R : a <= y
        BY <3>4, <3>7, LeastIs
      <4>2. a \in 0 .. c /\ ~RightOf(a, loc)
        BY <3>4, <3>5, <4>1
      <4>3. ASSUME NEW mid \in 0 .. c
            PROVE  RightOf(mid, loc) <=> mid < a
        <5>1. CASE mid < a
          <6>1. mid \notin R
            BY <4>1, <4>2, <5>1
          <6> QED
            BY <3>5, <5>1, <6>1
        <5>2. CASE a <= mid
          <6>1. a \in 0 .. mid
            BY <4>2, <5>2
          <6>2. ~RightOf(mid, loc)
            BY <3>5, <4>2, <6>1
          <6> QED
            BY <4>2, <5>2, <6>2
        <5> QED
          BY <4>2, <5>1, <5>2
      <4>4. treearray_locate(loc) = Int32(a)
        BY <3>1, <3>2, <4>2, <4>3, LocateIs
      <4> QED
        BY <2>2, <2>6, <3>3, <3>7, <4>1, <4>4
    <3> QED
      BY <3>6, <3>7
  <2> QED
    BY <2>5, <2>6
<1> QED
  BY <1>1, TreeArrayInvariant, PTL
=================================================================================

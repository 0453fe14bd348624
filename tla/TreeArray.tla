------------------------------ MODULE TreeArray ------------------------------
(***************************************************************************)
(* container/treearray: a binary indexed tree over an array of numbers.    *)
(* Words are size_t, that is numbers modulo SizeMod, and an int is what is *)
(* left of one modulo IntMod.  treearray_update does one iteration of its  *)
(* loop per step; the searches only read and are operators, in which an    *)
(* iteration past the end of a loop changes nothing.  The client never     *)
(* updates the index SIZE_MAX: ++idx makes it 0, which lowbit leaves where *)
(* it is, so that the loop does not end.                                   *)
(***************************************************************************)
EXTENDS Binary, FiniteSetsExt

CONSTANTS
  SizeBits,   \* the bits of a size_t
  IntBits,    \* the bits of an int
  MaxSize,    \* the longest array
  ElemValues, \* bound: the values the client lets an element take
  Amounts     \* what it adds to an element

(* The number of values of a size_t and of an int. *)
SizeMod == Pow2[SizeBits]

IntMod == Pow2[IntBits]

ASSUME WidthsAssumption ==
  SizeBits \in Nat /\ IntBits \in Nat \ {0} /\ IntBits <= SizeBits

(* An array fits into memory, and a word takes several bytes. *)
ASSUME MaxSizeAssumption == MaxSize \in Nat /\ 2 * MaxSize < SizeMod

ASSUME AmountsAssumption == ElemValues \subseteq Int /\ Amounts \subseteq Int

VARIABLES
  data,         \* arr->data, from 0 to arr->size, or <<>> if there is no array
  idx, val,     \* the locals of treearray_update
  updating,     \* it has not returned yet
  elems         \* history: the elements as the calls made them

treearray_vars == <<data, idx, val, updating, elems>>

(* arr->size *)
Size == IF data = <<>> THEN 0 ELSE Max(DOMAIN data)

(* Conversions to size_t and to int. *)
SizeT(x) == x % SizeMod

Int32(x) == LET r == x % IntMod IN IF r >= IntMod \div 2 THEN r - IntMod ELSE r

(* Mutant of lowbit: the lowest bit is taken away. *)
lowbit_rest(x) == BitAnd(SizeBits, x, SizeT(x - 1))

lowbit(x) == BitAnd(SizeBits, x, SizeT(-x))

TreeArrayInit ==
  /\ data = <<>> /\ elems = <<>>
  /\ idx = 0 /\ val = 0
  /\ updating = FALSE

treearray_create(size) ==
  /\ data = <<>>
  /\ data' = [i \in 0 .. size |-> 0]
  /\ elems' = [i \in 0 .. size - 1 |-> 0]
  /\ UNCHANGED <<idx, val, updating>>

treearray_delete ==
  /\ data # <<>> /\ ~updating
  /\ data' = <<>> /\ elems' = <<>>
  /\ UNCHANGED <<idx, val, updating>>

(* An index past the end is let through and does nothing. *)
treearray_update(i, v) ==
  /\ data # <<>> /\ ~updating
  /\ i < Size => elems[i] + v \in ElemValues
  /\ idx' = SizeT(i + 1) /\ val' = v
  /\ updating' = TRUE
  /\ elems' = [j \in DOMAIN elems |-> IF j = i THEN elems[j] + v ELSE elems[j]]
  /\ UNCHANGED data

Update ==
  /\ updating
  /\ IF idx <= Size
     THEN /\ data' = [data EXCEPT ![idx] = SizeT(@ + val)]
          /\ idx' = SizeT(idx + lowbit(idx))
          /\ UNCHANGED <<val, updating, elems>>
     ELSE /\ updating' = FALSE
          /\ idx' = 0 /\ val' = 0
          /\ UNCHANGED <<data, elems>>

TreeArrayNext ==
  \/ \E size \in 0 .. MaxSize : treearray_create(size)
  \/ treearray_delete
  \/ \E i \in 0 .. MaxSize, v \in Amounts : treearray_update(i, v)
  \/ Update

(* A call does not stop in the middle. *)
TreeArraySpec == TreeArrayInit /\ [][TreeArrayNext]_treearray_vars /\ WF_treearray_vars(Update)

-----------------------------------------------------------------------------
(* Mutant of Clamped: an index past the end has nothing before it. *)
ClampedToNone(i) == IF i >= Size THEN SizeT(-1) ELSE i

(* The last index for an index past the end; of no elements, SIZE_MAX. *)
Clamped(i) == IF i >= Size THEN SizeT(Size - 1) ELSE i

(* An iteration of treearray_length. *)
Counted(s) ==
  IF s.idx = 0 THEN s
  ELSE [idx |-> s.idx - lowbit(s.idx), result |-> Int32(data[s.idx] + s.result)]

(* There are no more iterations than indexes. *)
treearray_length(i) ==
  LET after[k \in 0 .. Size] ==
        IF k = 0 THEN [idx |-> SizeT(Clamped(i) + 1), result |-> 0]
        ELSE Counted(after[k - 1])
  IN  after[Size].result

(* Mutant of RightOf: an index whose prefix is loc exactly is passed over. *)
RightOfEqual(mid, loc) == SizeT(treearray_length(mid)) <= loc

(* What is looked for lies to the right of mid. *)
RightOf(mid, loc) == SizeT(treearray_length(mid)) < loc

(* An iteration of treearray_locate. *)
Halved(s, loc) ==
  LET mid == s.head + ((s.tail - s.head) \div 2)
  IN  IF s.head >= s.tail THEN s
      ELSE IF RightOf(mid, loc) THEN [s EXCEPT !.head = mid + 1]
      ELSE [s EXCEPT !.tail = mid]

(* There are no more iterations than bits. *)
treearray_locate(loc) ==
  LET after[k \in 0 .. SizeBits] ==
        IF k = 0 THEN [head |-> 0, tail |-> SizeT(Size - 1)] ELSE Halved(after[k - 1], loc)
  IN  Int32(after[SizeBits].head)

(* The sum of the first k elements. *)
Sums ==
  LET sum[k \in 0 .. Size] == IF k = 0 THEN 0 ELSE sum[k - 1] + elems[k - 1]
  IN  sum

(* The sum of the elements 0 .. i. *)
Prefix(i) == Sums[IF i >= Size THEN Size ELSE i + 1]

(* Between calls treearray_length of every index, also of one past the end, *)
(* is the int that the sum of the elements up to it makes: the loop of      *)
(* treearray_update has reached every word that counts the element.         *)
PrefixSums ==
  data # <<>> /\ ~updating => \A i \in 0 .. MaxSize : treearray_length(i) = Int32(Prefix(i))

(* As long as no element is negative and their sum is an int,              *)
(* treearray_locate finds the first index whose prefix reaches loc, and the *)
(* last index when none does; of no elements it answers 0 or -1.           *)
LocatesFirst ==
  data # <<>> /\ ~updating
  /\ (\A i \in DOMAIN elems : elems[i] >= 0) /\ Prefix(MaxSize) < IntMod \div 2
  => \A loc \in 0 .. IntMod \div 2 :
       LET reach == {i \in DOMAIN elems : Prefix(i) >= loc}
       IN  treearray_locate(loc) =
             IF Size = 0 THEN IF loc = 0 THEN 0 ELSE -1
             ELSE Int32(IF reach = {} THEN Size - 1 ELSE Min(reach))
=============================================================================

-------------------------------- MODULE ITrie --------------------------------
(***************************************************************************)
(* container/itrie: a trie over the digits of integers, lowest digit first.*)
(* A cell of a node is empty, holds the rest of one key and its value, or  *)
(* points at a node one level down.  Keys have MaxLevel digits of base     *)
(* Base, so the levels never run out.  Nodes are freed only when the trie  *)
(* is deleted; they are numbered in the order they are made, the root      *)
(* first.  The client owns one iterator.                                   *)
(***************************************************************************)
EXTENDS Integers, SequencesExt, FiniteSetsExt

CONSTANTS
  Base,              \* ITRIE_NODE_MAX_CELL
  MaxLevel,          \* itrie->max_level
  TrieKeys,          \* the keys that clients use, below Base ^ MaxLevel
  TrieVals,          \* the values that they store
  MaxInserts,        \* bound: the insertions into one trie
  None

ASSUME BaseAssumption == Base \in Nat \ {0}

(* itrie_create makes it twice the bytes of a pointer. *)
ASSUME MaxLevelAssumption == MaxLevel \in Nat /\ MaxLevel > 3

VARIABLES
  nodes,       \* the cells of each node; no node, no trie
  trie_size,   \* itrie->size
  iter,        \* the client's iterator: pre, and cur + 1 levels
  fresh,       \* history: nothing was done to the iterator's key or at its
               \* place since the search
  ever,        \* history: the keys inserted since the trie was made
  trie_ret     \* history: the last call, its key and its answer

trie_vars == <<nodes, trie_size, iter, fresh, ever, trie_ret>>

Digits == 0 .. Base - 1

(* The key shifted by d digits, one after the other. *)
Rest(key, d) ==
  LET shifted[j \in Nat] == IF j = 0 THEN key ELSE shifted[j - 1] \div Base
  IN  shifted[d]

(* itrie_get_idx of the key shifted by d digits. *)
get_idx(key, d) == Rest(key, d) % Base

(* Keys have no digits above those of all levels. *)
ASSUME TrieKeysAssumption == TrieKeys \subseteq {k \in Nat : Rest(k, MaxLevel) = 0}

NoEntry == [tag |-> "none", key |-> 0, val |-> None]

ValCell(rest, v) == [tag |-> "val", key |-> rest, val |-> v]

SubCell(n) == [tag |-> "sub", key |-> 0, val |-> n]

NewNode == [i \in Digits |-> NoEntry]

Cleared_iter == [pre |-> 0, level |-> <<>>]

AnswerTrie(op, key, err, val) ==
  trie_ret' = [op |-> op, key |-> key, err |-> err, val |-> val]

CellAt(at) == nodes[at.ptr][at.idx]

(* An iteration of the descent for a key, which goes on where a cell points. *)
Descended(path, key) ==
  LET cell == CellAt(Last(path))
  IN  IF cell.tag = "sub"
      THEN Append(path, [ptr |-> cell.val, idx |-> get_idx(key, Len(path))])
      ELSE path

(* The cells that the descent for a key looks at, from the root down. *)
Path(key) ==
  LET down[i \in 0 .. MaxLevel - 1] ==
        IF i = 0 THEN <<[ptr |-> 1, idx |-> get_idx(key, 0)]>>
        ELSE Descended(down[i - 1], key)
  IN  down[MaxLevel - 1]

(* The last cell of a path holds the key the path is for. *)
Matches(path, key) ==
  CellAt(Last(path)).tag = "val" /\ CellAt(Last(path)).key = Rest(key, Len(path))

TrieInit ==
  /\ nodes = <<>> /\ trie_size = 0
  /\ iter = Cleared_iter /\ fresh = FALSE /\ ever = {}
  /\ trie_ret = [op |-> "none", key |-> None, err |-> 0, val |-> None]

itrie_create ==
  /\ nodes = <<>>
  /\ nodes' = <<NewNode>> /\ trie_size' = 0
  /\ AnswerTrie("create", None, 0, None)
  /\ UNCHANGED <<iter, fresh, ever>>

(* The client gives up the iterator with the trie. *)
itrie_delete ==
  /\ nodes # <<>>
  /\ nodes' = <<>> /\ trie_size' = 0
  /\ iter' = Cleared_iter /\ fresh' = FALSE /\ ever' = {}
  /\ AnswerTrie("delete", None, 0, None)

(* The key comes by the cell at which the iterator stands. *)
AtIterator(key) ==
  \A d \in DOMAIN iter.level : get_idx(key, d - 1) = iter.level[d].idx

Inserted(key) ==
  /\ trie_size < MaxInserts
  /\ trie_size' = trie_size + 1
  /\ fresh' = (fresh /\ ~AtIterator(key))
  /\ ever' = ever \cup {key}
  /\ AnswerTrie("insert", key, 0, None)
  /\ UNCHANGED iter

InsertEmpty(key, v) ==
  /\ nodes # <<>>
  /\ LET path == Path(key)
         at   == Last(path)
     IN  /\ CellAt(at).tag = "none"
         /\ nodes' = [nodes EXCEPT ![at.ptr][at.idx] = ValCell(Rest(key, Len(path)), v)]
  /\ Inserted(key)

(* The number of digits that two keys have in common. *)
Shared(k, m) == Min({j \in 0 .. MaxLevel : get_idx(k, j) # get_idx(m, j)})

(* Mutant of Chain: the old key keeps the digit that its new cell stands for. *)
ChainKeepsDigit(old, oldval, new, v) ==
  LET s == Shared(old, new)
  IN  [j \in 1 .. s + 1 |->
         IF j <= s
         THEN [NewNode EXCEPT ![get_idx(new, j - 1)] = SubCell(Len(nodes) + j + 1)]
         ELSE [NewNode EXCEPT ![get_idx(old, s)] = ValCell(Rest(old, s), oldval),
                              ![get_idx(new, s)] = ValCell(Rest(new, s + 1), v)]]

(* Mutant of Chain: the digits in common are skipped. *)
ChainSkips(old, oldval, new, v) ==
  LET s == Shared(old, new)
  IN  [j \in 1 .. s + 1 |->
         IF j <= s
         THEN [NewNode EXCEPT ![get_idx(new, j - 1)] = SubCell(Len(nodes) + s + 1)]
         ELSE [NewNode EXCEPT ![get_idx(old, s)] = ValCell(Rest(old, s + 1), oldval),
                              ![get_idx(new, s)] = ValCell(Rest(new, s + 1), v)]]

(* The nodes for two keys whose rests meet in one cell: one for each digit *)
(* that the rests have in common, and one in which they part.              *)
Chain(old, oldval, new, v) ==
  LET s == Shared(old, new)
  IN  [j \in 1 .. s + 1 |->
         IF j <= s
         THEN [NewNode EXCEPT ![get_idx(new, j - 1)] = SubCell(Len(nodes) + j + 1)]
         ELSE [NewNode EXCEPT ![get_idx(old, s)] = ValCell(Rest(old, s + 1), oldval),
                              ![get_idx(new, s)] = ValCell(Rest(new, s + 1), v)]]

InsertSplit(key, v) ==
  /\ nodes # <<>>
  /\ LET path == Path(key)
         at   == Last(path)
     IN  /\ CellAt(at).tag = "val" /\ ~Matches(path, key)
         /\ nodes' = [nodes EXCEPT ![at.ptr][at.idx] = SubCell(Len(nodes) + 1)]
                     \o Chain(CellAt(at).key, CellAt(at).val, Rest(key, Len(path)), v)
  /\ Inserted(key)

InsertRefused(key) ==
  /\ nodes # <<>>
  /\ LET tag == CellAt(Last(Path(key))).tag
     IN  tag # "none" /\ (tag = "val" => Matches(Path(key), key))
  /\ AnswerTrie("insert", key, -1, None)
  /\ UNCHANGED <<nodes, trie_size, iter, fresh, ever>>

itrie_elem_insert(key, v) == InsertEmpty(key, v) \/ InsertSplit(key, v) \/ InsertRefused(key)

(* The cell keeps the value; itrie->size is not told. *)
itrie_elem_remove(key) ==
  /\ nodes # <<>>
  /\ LET at == Last(Path(key))
     IN  IF Matches(Path(key), key)
         THEN /\ nodes' = [nodes EXCEPT ![at.ptr][at.idx] = [NoEntry EXCEPT !.val = CellAt(at).val]]
              /\ fresh' = (fresh /\ ~AtIterator(key))
              /\ AnswerTrie("remove", key, 0, CellAt(at).val)
         ELSE /\ AnswerTrie("remove", key, -1, None)
              /\ UNCHANGED <<nodes, fresh>>
  /\ UNCHANGED <<trie_size, iter, ever>>

(* What a shift by d digits multiplies with. *)
Shift[d \in Nat] == IF d = 0 THEN 1 ELSE Base * Shift[d - 1]

(* The key that the pushes of a path's indexes have put together. *)
Pushed(path) ==
  LET pre[d \in 0 .. Len(path)] ==
        IF d = 0 THEN 0 ELSE pre[d - 1] + (path[d].idx * Shift[d - 1])
  IN  pre[Len(path)]

(* Mutant of Gathered: what is left of the key is forgotten. *)
GatheredPushed(path, key) == Pushed(path)

Gathered(path, key) == Pushed(path) + (Rest(key, Len(path)) * Shift[Len(path)])

(* Mutant of SetIterator: the last level is pushed twice. *)
SetIteratorTwice(path, key) ==
  iter' = [pre |-> Gathered(path, key), level |-> Append(path, Last(path))]

SetIterator(path, key) == iter' = [pre |-> Gathered(path, key), level |-> path]

itrie_iter_search(key) ==
  /\ nodes # <<>>
  /\ IF Matches(Path(key), key)
     THEN /\ SetIterator(Path(key), key)
          /\ fresh' = TRUE
          /\ AnswerTrie("search", key, 0, None)
     ELSE /\ iter' = Cleared_iter
          /\ fresh' = FALSE
          /\ AnswerTrie("search", key, -1, None)
  /\ UNCHANGED <<nodes, trie_size, ever>>

TrieNext ==
  \/ itrie_create
  \/ itrie_delete
  \/ \E key \in TrieKeys :
       \/ \E v \in TrieVals : itrie_elem_insert(key, v)
       \/ itrie_elem_remove(key)
       \/ itrie_iter_search(key)

TrieSpec == TrieInit /\ [][TrieNext]_trie_vars

-----------------------------------------------------------------------------
(* The keys and values that cell i of a node has, if sub are those of the  *)
(* node that it points at.                                                 *)
FromCell(c, i, sub) ==
  CASE c.tag = "none" -> {}
    [] c.tag = "val"  -> {<<i + (Base * c.key), c.val>>}
    [] c.tag = "sub"  -> {<<i + (Base * e[1]), e[2]>> : e \in sub}

(* Those in the cells of a trie, wherever they lie. *)
Entries(ns) ==
  LET below[n \in DOMAIN ns] ==
        UNION {FromCell(ns[n][i], i, below[ns[n][i].val]) : i \in Digits}
  IN  IF ns = <<>> THEN {} ELSE below[1]

Content(ns) ==
  [k \in {e[1] : e \in Entries(ns)} |-> (CHOOSE e \in Entries(ns) : e[1] = k)[2]]

DictAs == INSTANCE Dict WITH
  Keys <- TrieKeys, Vals <- TrieVals, dict <- Content(nodes), ret <- trie_ret

(* The trie is a dictionary: no insertion, split or removal loses or       *)
(* misplaces another key, and every call answers what the dictionary holds *)
(* for its key.                                                            *)
IsDict == DictAs!Spec

(* itrie_iter_item *)
iter_item ==
  IF iter.level = <<>> THEN <<>> ELSE <<iter.pre, CellAt(Last(iter.level)).val>>

(* An iterator gives the key it was set to and that key's value, whatever  *)
(* was inserted and removed since away from its place.                     *)
IteratorHolds ==
  fresh => /\ iter.pre \in DOMAIN Content(nodes)
           /\ iter_item = <<iter.pre, Content(nodes)[iter.pre]>>

(* itrie_delete_iter frees each node once: every node but the root is      *)
(* pointed at by exactly one cell.                                         *)
FreesEachNodeOnce ==
  \A n \in DOMAIN nodes :
    Cardinality({c \in (DOMAIN nodes) \X Digits :
                   nodes[c[1]][c[2]].tag = "sub" /\ nodes[c[1]][c[2]].val = n})
    = IF n = 1 THEN 0 ELSE 1

(* The levels that itrie_iter_create makes room for: max_level words, two  *)
(* for cur and pre and two for each level.                                 *)
IterLevels == (MaxLevel - 2) \div 2

(* A search pushes more levels than the iterator has room for only if its  *)
(* key shares that many digits with another key that has been in the trie. *)
PathFits ==
  Len(iter.level) > IterLevels =>
    \E m \in ever \ {iter.pre} : Shared(m, iter.pre) >= Len(iter.level) - 1
=============================================================================

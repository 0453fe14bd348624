# A TLA+ development of csgl

csgl is a library of C containers and a block allocator.  It is sequential:
nothing in it starts a thread, writes to disk or sends a message.  What is hard
in it is index arithmetic at the edges of arrays, pointers that rotations
rewrite while a loop climbs along them, allocations that fail half way, and
long sequences of legal calls that reach a state no test visits.  The modules
here model every component that has state or an algorithm but the hash, TLC
checks them on small instances, and TLAPS proves what matters about the ring,
the allocator, the red-black trees, the list, the binary search, the bitmap,
the trie and the prefix sums for every instance.  Paths below are relative to `src/`.

## The system

| component | state | operations | modelled |
|---|---|---|---|
| ring (`container/ring`) | head, tail, size, capc, data array | create, realloc, delete, push, pull, empty, full | yes |
| allocator (`memory`) | region, num, size, a ring of free offsets | create, realloc, delete, get_memory, put_memory | yes |
| rbtree (`container/rbtree`) | nodes with packed parent word and sizes, a root, two sentinels shared by all trees | create, delete, elem_insert/update/delete/remove, iter_index/value/head/tail/prev/next/discard | yes |
| rbtree-simple (`container/rbtree-simple`) | the same without sizes | the same calls; searches by index always fail | yes |
| its test helpers (`rbtree_build.c`, `rbtree_equal.c`) | none | a tree from a text; comparison of two trees | yes |
| itrie (`container/itrie`) | a trie over 4-bit digits, a counter of elements, iterators that hold a path | create, delete, size, elem_insert, elem_remove, iter_search, iter_item | yes |
| clist (`container/list`) | a circular list with a counter in its sentinel | create, destroy, size, head, tail, push_back, pop_front | yes |
| bitmap (`container/bitmap`) | a size and words of bits | create, set, unset, get, set_all, unset_all, pop | yes |
| popcnt, bitwise (`container/bitmap/popcnt.h`, `utils/bitwise`) | none | counting bits, the lowest one and zero, the next power of two | yes |
| treearray (`container/treearray`) | prefix sums (a Fenwick tree) | create, delete, update, length, locate | yes |
| bsearch (`utils/bsearch`) | none | binary search, insert position | yes |
| cdata, murmurhash3 (`utils`) | none | a union of scalars; a hash | no |
| dict, oset (`container`) | a README each, no code | | no |

The allocator calls the ring: `get_memory` is a pull, `put_memory` a push, and
creation and growth are loops of pushes whose results it ignores.  The trees
call nothing but the comparator that the client gave them, and share
`rbtree_head` and `rbtree_tail`, ordinary structs that every rotation writes.
`rbtree_build` makes trees of rbtree-simple without its insertion and with the
same `rbtree_tail`; `rbtree_equal` reads them.  The bitmap rounds its size up with
`next_pow_u32` and finds bits with `popcnt_u32`; `utils/bitwise` has copies of
both.  The trie, the list, the prefix sums and the search call nothing else.

What makes each component correct:

- ring: it is a first-in first-out queue; the indices stay in the array; the
  counter that `ring_pull` trusts and the indices that `ring_empty` trusts agree.
- allocator: every block is either lent once or free once; the region does not
  move under the pointers that were lent.
- rbtree, rbtree-simple: an ordered bag; searches by key and by index and the iterators agree
  with the order; the red-black conditions; every loop ends; trees do not
  disturb one another.
- test helpers: exactly the texts of the grammar are taken, and make the tree
  they draw; two trees compare equal when they are.
- itrie: a dictionary; an insertion that splits a cell moves no other key out of
  reach; an iterator keeps its key and value; every node is freed once.
- clist: a queue; both directions agree with the counter; destruction frees every
  node once and ends.
- bitmap: a set of positions with room for those asked for.
- the algorithms: each is equal to its definition at every edge of its words.

`PROJECT.json` lists the hazards line by line, with the properties that cover
them.

## The modules

    RingOps  <- Ring                      Fifo         what Ring implements
       ^         ^
       |         +- RingProofs            RingOpsProofs  lemmas about RingOps
       +---- Allocator <- PutTwice        Pool         what Allocator implements
                 ^
                 +- AllocatorProofs       DataLemmas   lemmas about sequences,
                                                       sets and recursion
    RBHeap   <- RBTree <- RBTreeClients <- MCRBTreeClients
                   ^          ^           OrderedBag   what RBTree implements
                   |          |
      MCRBTree ----+          +- RBTreeProofs (with RBShapeProofs <- RBHeap, RBTree)

    Containers -+- BSearch    <-+- ContainersProofs
                +- Bitmap     <-+               BitSet      what Bitmap implements
                +- ITrie      <-+               Dict        what ITrie implements
                +- TreeArray  <-+
                +- CList      <- CListProofs    Fifo        what CList implements
                +- BitOps
                +- SimpleTree <- MCSimpleTree   KeyedBag    what SimpleTree implements, but
                +- TreeText   <- MCTreeText                 for the two calls it gets wrong
                +- Allocator

Bitmap and TreeArray extend Binary, the powers of two and `&`.

**RingOps** has the functions of `ring.c` on the struct as a record.  An
argument `ok` says whether an allocation, if one is reached, may succeed.
`next_power` is defined by what it computes, the least power of two not below
its argument, and as 0 where `n + 1` wraps.  The order of `__ring_push` is kept:
`next_tail` from the old capacity, growth, the store.  A write or a read outside
the array (`PushDefined`, `PullDefined` false) is undefined in C, and such a
call is not taken.

**Ring** makes one action of each call.  It has three clients.  `Spec` makes any
call, also on a ring whose growth has failed.  `EagerSpec` drops such a ring.
`FifoClientSpec` also refrains from a push when the ring is full, its tail in the
last slot and its head in the first (`FullAtEnd`), the one place where the stored
`next_tail` is wrong.

**Allocator** runs over the same operators.  The loop of pushes in `create` and
in the growth is one step per push.  `base` is an address that the C library
chooses.  `TidySpec` is the client that puts back what it got and never holds
more than `num` blocks.  **PutTwice** is the other client: it asks for more, which makes
the allocator grow where `allocator_spec.c:22` expects a null pointer, and it puts
back what it has already put back.  `returned` is history, the pointers that were
lent, put back and not lent again since; a pointer that was never lent is never
put.  `allocator_create` has three failures, after which the model has no allocator:
a client that looks at the answer goes no further.

**RBHeap** has the node struct (the packed parent word as three fields) and the
functions of `rbtree_inline.h`.  `link_child` has the writes of
`rbtree_attach_child` and `attach_child` the size that it computes; `rotate` is
the three calls of which both rotations consist, in their order, with the sizes
that each finds.

**RBTree** has a program counter: a call searches in one step (a search changes
nothing) and then runs its loops one iteration per step (`InsertBalance`,
`Discard`, `DeleteBalance`, `Unlink`, `Maintain`).  `cut` holds the locals that
`rbtree_iter_discard` keeps across the balancing.  A failed assert leads to
`"abort"`, where the program stays.  `seen` and `ret` are history: what a tree
held when its last call returned and what that call answered.  Insertion
compares integers and searches ask `key_cmp`, as in the code.  Two choices keep
the instances small:

- a node that no tree holds is forgotten and its address may be used again.  The
  code frees no node; `TypeOK` shows that no live node points at a forgotten one.
- between calls the sentinels' words are spoilt (`KeepsWords = FALSE`, see
  `Residue`), so that a call which read them before writing them would stop TLC
  with an error.  The proofs hold for words that are kept as well.

Keys are small integers, so the overflow of an integer difference is not
modelled, and neither are iterators that a client holds across calls.

**RBTreeClients** is RBTree under one of four clients, chosen at the start, each
within its own bounds: `"one"` makes any calls on a tree, `"two"` any calls on two
trees in turn, `"queue"` uses a tree as a priority queue, and `"grow"` never takes
anything out.  The step of a client is a step of RBTree, so what is proved of all
steps of RBTree holds here too (`ClientSteps`).

**BSearch** runs the loop of `binary_search` one iteration per step over any
sorted array, indexes from 0, with `head` at -1 at first as in the code.
`insert_pos` is `binary_search_insert_pos`.  `FindsPlace` is about what the search
answers.  `InsertPosIsPlace` is about what `insert_pos` makes of it, and demands a place
of every answer, index 0 included, which the code fails.

**TreeArray** has `size_t` as numbers modulo `SizeMod` and `int` modulo `IntMod`,
so that conversions between them, `-x` in `lowbit` and `size - 1` of an empty array
wrap as they do in C.  `&` takes two words bit by bit (`BitAnd`).  The loop of
`treearray_update` is one iteration per step; `treearray_length` and
`treearray_locate` only read and iterate `Counted` and `Halved`, as often as their
loops can at most.  `elems` is history: the elements that the calls made.

**Bitmap** has a word as the set of the positions of its ones.  `1<<pos` shifts by
`pos` modulo 32, as the build does.  `bitmap_pop` hands `bitmap_unset` a position
within the word: `PopFound` clears a bit of the first word whatever word it
found, and `PopPastEnd` answers anything once the loop reads behind the array (for a
bitmap of size 0, where the loop does not run, the code answers -1, one of the
answers of the model).
**BitOps** has the arithmetic: the masks and shifts of the bit count, the lowest
one and zero, and rounding up by setting all lower bits, on words of `WordBits`
bits.

**CList** has nodes at addresses with both pointers, and the list as one of them.
Pushes and pops are the assignments of the code in their order; `clist_destroy`
cuts the circle and frees one node per step.  A pop from an empty list frees the
list itself, so the client asks `clist_size` first.

**ITrie** has nodes as arrays of cells, numbered as they are made.  A cell holds
the rest of one key and its value, or a node; the flags in the key word are the
cell's tag.  `Path` is the descent that search, insertion and removal share,
`Chain` the nodes that a split makes.  Digits that the code joins with `|` at
different places are added, which gives the same word.  A removal keeps the
counter and the value word, as the code does.  The client has one iterator;
`fresh` and `ever` are history.  `Content`, the dictionary that the cells show, is
read from all cells below the root and not by descents, so a key that an
insertion has misplaced is there and is not found.  `trie_ret` has the key of the call, and `Dict`
has every answer be about that key.

**SimpleTree** follows `rbtree-simple/rbtree.c` as RBTree follows `rbtree.c`: calls
search in one step, `InsertBalance`, `Discard`, `DeleteBalance` and `Unlink` are
iterations, failed asserts lead to `"abort"`.  `rbtree_maintain` ignores its argument
and climbs from the old root, also when that node has just been removed: the
tree then keeps it, and if it had a child the rest of the tree is out of reach
(`Detached`), and the client only deletes it.  `ret` has the call, what it was given and
its answer (`Pending` while it runs).  **KeyedBag** is the bag whose calls do what their
arguments say and answer so: an insertion puts in that key and value, a removal
takes out an element with that key and answers its value, a deletion the element
at that index, and a miss is allowed only where nothing is to be found.
SimpleTree keeps to it in all calls but two, `IndexMisses` and `RootStays`.  Between calls the nodes are
numbered in the order of the tree, since addresses are never compared in order
and the client keeps no iterator; that makes six nodes feasible.

**TreeText** has texts as sequences of characters without blanks, and a tree as the
value that its root points at.  `build_tree` follows the parser's tests in their
order; after a failure the pointer is left as it was, or null once the node was
made and freed.  The colour's character is taken unseen, as in the code; of the word
that `rbtree_set_color` would or together only the lowest bit, the colour, is kept.
`IsTreeText` is the grammar of `rbtree_build.h:5-10` as it stands, and `IsLooseText` the
same with any colour and any number of digits, which is what the parser takes.

**Containers** puts these eight and the allocator side by side.  None calls another, so a program
that uses several at once is in a pair of their states and has no behaviour
that they do not have alone; `using` picks one at the start and the variables of
the others keep still.

## The runs

| run | instance | shows |
|---|---|---|
| RingFifo | sizes 0, 1, 3, 7, at most 8 slots, two items | `FifoClientSpec`: well-formed, in bounds, counter and indices agree, nothing unwritten is pulled, implements `Fifo` |
| RingEager | same | violated: a push that grows a ring at `FullAtEnd` loses all items |
| AllocatorDoublePut | 1 or 2 blocks, the client of PutTwice | violated: a second put of a block is not reported |
| RBTreeClients | see below | trees with iterators, searches by key, ordered bags that stay apart, a priority queue, a growing red-black tree, and every call returns |
| RBTreeRedBlack | 6 nodes, 2 keys, insert and take the first | violated: discards destroy the red-black conditions |
| RBTreeIndex | 6 nodes, insertions only | violated: the n-th element is not found, a recolouring leaves a size stale |
| RBTreeDescending | 4 nodes, descending comparator | violated: inserted keys are not found |
| InsertPos | arrays of up to 2 elements | violated: a target found at index 0 has the insert position -1 |
| SimpleTreeIndex | 3 nodes, 2 keys, all calls | violated: a deletion by an index that the tree has does nothing |
| SimpleTreeRoot | same | violated: a root that is discarded stays in the tree |
| TreeTextGrammar | trees of up to 3 nodes, their texts with one slip | violated: texts outside the grammar are taken |
| Containers | see below | each of the nine parts does what it promises, and every call returns |

What RBTreeClients checks, by client:

| client | bounds | properties |
|---|---|---|
| one | one tree, 4 nodes, 2 keys, all calls | the properties of all clients: `TypeOK`, `IteratesInOrder`, `FindsByKey`, `TreesApart`, `ParentStable`, `IsOrderedBag`, `CallsReturn` |
| two | two trees, 3 nodes, 1 key, 2 values, all calls | the same; a moved element shows by its value, a shared node by `TreesApart` |
| queue | one tree, 6 nodes, 2 keys, insert and take the first | the same, on trees that discards have broken, and `QueuesTakeFirst` |
| grow | one tree, 8 nodes, 3 keys, no discard | the same, and `GrowsRedBlack`, `GrowsOneRedRed` |

What Containers checks, by part:

| part | instance | properties |
|---|---|---|
| bsearch | arrays of up to 4 elements out of 3 values | `FindsPlace`: the answer is the first equal element or tells the place to insert at |
| treearray | up to 4 elements from -1 to 3, 5-bit `size_t`, 3-bit `int` | `PrefixSums`, `LocatesFirst`: every length is the sum, every location the first that reaches it |
| bitmap | sizes 1, 33, 129 and 8-bit sizes, positions 1, 31, 33 | `HasRoom`; `IsBitSet` implements BitSet, where each answer is about the position asked for: 31 and 33 lie in two words and 1 and 33 at one place of them; 129 is above the largest power of two |
| bit operations | every 8-bit word | `CountsAndFinds`, `RoundsUp` |
| clist | 5 nodes, 2 values | `IsQueue` implements Fifo; `BothWays`, `NothingLost` |
| itrie | 2 cells per node, 4 levels, keys 0, 1, 8, 10, 3 insertions | `IsDict` implements Dict, call by call and key by key; `IteratorHolds`, `FreesEachNodeOnce`, `PathFits` |
| rbtree-simple | 6 nodes, 2 keys, all calls | `IteratesAndFinds`; `IsBagButTwo`: KeyedBag but for removals of the root and deletions by index |
| test helpers | trees of up to 3 nodes, their texts with one slip | `BuildsText`: the texts of the grammar make the trees they draw, and what else is taken differs in colours and ids only; `ComparesPruned`: equal but for what lies below a left child without a sibling |
| allocator | 1 to 3 blocks of 8 bytes, two addresses, a tidy client | `TypeOK`; `Conservation` of blocks, `RegionStays`, `IsPool` implements Pool |

`CallsReturn` is about the search, the update, the destruction of a list and the
loops of the tree.  A failed assert ends the program and counts as a return: the
asserts at `rbtree-simple/rbtree.c:120` and `:150` do fail on trees that removals have
unbalanced.

Two properties describe more than they promise.  `PathFits` says for which keys a
search pushes more levels than an iterator has room for; it holds in the states
where that happens.  `ComparesPruned` says what `rbtree_equal` compares, with its
early return.

Why the bounds are enough.  The ring grows from 2 to 4 to 8 slots and fails to
grow further, wrapped and not, so each branch of the growth is met at each size.
With three blocks the allocator's ring wraps many times.  Four nodes with any
sequence of calls give every shape in which a discarded node has no, one or two
children, with duplicates; six nodes are the fewest with which a discard breaks
the balance, and then both kinds of failed assert are reached, so the properties
of the client `"queue"` are checked on broken trees too; with eight nodes a
recolouring climbs to a rotation above.  `Powers` stops at 16 where the ring stops
at 8 slots.

In Containers the keys 0 and 8 share three digits, so a split makes a chain of
all lengths up to the last level, and the path of a search gets longer than the
iterator's room.  Five nodes make lists of up to four elements, with both pointers
of every neighbour of the first and the last apart.  With `size_t` of five bits
the unsigned comparisons of `treearray_locate` meet negative and wrapped sums.  Six
nodes of rbtree-simple reach every branch of the balancing and every assert.

Deadlock is checked except where a run is meant to stop: AllocatorDoublePut,
where an undefined call ends the program.

Fairness.  `WF_vars(Loops)` says that a program does not stop inside a call: a
sequential program always executes its next statement.  Nothing is assumed
about clients, which may stop calling.  `CallsReturn` needs it and nothing else.
In Containers `Loops` is the union of the loops of the parts, of which a program
uses one.

## The proofs

`RingOpsProofs` and `RingProofs` prove, for every set of powers of two, sizes and
items, every bound on allocations and every outcome of them:

- `RingTypeOK`, `RingIndicesInBounds` for `Spec`, so for clients that go on after
  a failed growth and for rings that have lost their items.  The inductive
  invariant `IsRing` says that capc is one less than a power of two, both indices
  are at most capc, and the array, if there is one, has capc + 1 slots.  It rests
  on lemmas that doubling stays among the powers and that a mask is a remainder.
- `RingCountsAgree`, `RingNoUnsetItem` and `RingIsFifo` for `FifoClientSpec`.  The
  counters cannot be proved by themselves: a growth keeps them right only if the
  old slots between head and tail are where the new indices look for them.  The
  invariant `IsQueue` adds to `IsRing` that size is the span from head to tail
  and that all slots in it hold items.  `RingIsFifo` shows that the contents,
  read from head on, are unchanged by a growth (wrapped or not), extended at the
  end by a push and shortened at the front by a pull; `FullAtEnd` is excluded in
  the step of the push and nowhere else.

The assumptions are those stated in `RingOps` and `Ring`: powers of two that
start at 1 and double, an `Unset` that is no item, and sizes whose slot count
does not wrap.  `RingFifo` evaluates them.

`ContainersProofs` proves for arrays of any length over any integers that
`binary_search` answers the first equal element or tells the place to insert at
(`SearchFindsPlace`), that the insert position made of an answer other than 0 is right
(`SearchInsertPos`; at 0 it is not, see the run InsertPos), that the search reads inside the array (`SearchTypes`) and that every
iteration shortens what is left to look at (`SearchGetsShorter`), which is why it
ends.  The invariant `Bracketed` says that everything up to `head` is smaller than
the target and nothing from `tail` on is; it needs the array sorted in the step
that narrows, where one comparison speaks for a half of the array.

`ContainersProofs` also proves for every set of sizes and positions that the array has the
words of its size (`BitmapTypes`), that the bitmap implements BitSet
(`BitmapIsBitSet`), and which of the positions asked for it has room for
(`BitmapHasRoom`): all of them up to half of the range of a `uint32_t`, none above,
where rounding up wraps to 0.  The lemmas `Split` and `Join` say that a position and
its word and bit determine one another; from them a bit set or cleared in one
word is a position added or taken out, and a pop that found its bit behind the
first word leaves the set alone.  That `next_pow_u32` gives a multiple of 32
follows from the powers being a function that doubles: induction on the exponent
shows that they are numbers, grow and are divisible.  Assumed are a `uint32_t` of
more than five bits and sizes and positions that are natural numbers.

The third part of `ContainersProofs` is the trie, for every base, number of
levels, set of keys and any number of insertions:

- `TrieIsDict`: the trie implements `Dict`; no insertion or split loses or misplaces
  another key, and searches, insertions and removals answer as they should.
- `TrieIteratorHolds`, `TrieFreesEachNodeOnce` and `TriePathFits`.

None of them is inductive: what a cell says depends on the digits that lead to
it, and nothing in the heap keeps those.  `TrieInv` says that there is a view of
the nodes, of each its level and a key by which it is reached, and a dictionary
(`View`).  Its parts are about one node or two: a cell that points at a node points
one level down, at one reached by the same digits and the cell's own
(`LeadsDown`); no two nodes of a level are reached by the same digits, and every
node is where the cells on the way to it lead (`OnePlace`); every node but the
root is pointed at (`Pointed`); and a cell that leads no further holds the key of
the dictionary that comes by it, if there is one, and no other (`HoldsAll`).  That
two inserted keys come by every node but the root (`Needed`) is what `TriePathFits`
follows from; an undisturbed iterator is at the end of its key's descent
(`IterOK`).

The proof goes along the digits.  `RestTwice`, `RestJoin` and `WholeKeys` say how keys are
made of digits and rests: keys with the same digits as far as `d` and the same
rest behind are the same.  `PathIs` shows, by iterating `Descended`, that the descent
for any key ends after at most `MaxLevel` cells in one that does not lead on;
`PathEnds` names what the calls read there.  `EntriesAre` turns the recursion that
reads all cells into the dictionary of the view, by induction on the levels below
a node, so `Content` is that dictionary.  Then a value put into an empty cell at the
end of the key's descent adds the key (`PutKeeps`), a cleared one takes it out
(`TakeKeeps`), and the nodes of a split extend the view: `Shared` gives the digit in
which the two rests part, because keys whose digits all agree are the same, and
the chain's nodes get the new key and the levels below the cell (`SplitKeeps`).
`GatheredIs` shows that the pushes put the key together again, and `Elsewhere` that
a call for a key that does not come by the iterator's cell writes another one.

Assumed are a base that is not zero, keys that have no digits above the last
level, and more than three levels: `itrie_create` makes it twice the bytes of a
pointer, and with fewer an iterator would have no room for the root.

The fourth part is the binary indexed tree, for every width of `size_t`, every
`int` no wider and every size: `LengthsArePrefixes` and `LocationsAreFirst`.  The
invariant `TreeArrayInv` says what each word is: index `n` counts the `lowbit(n)`
elements up to it (`Covers`), and holds their sum, but for `val` if the update that
runs still has to come by.  That it will come by is `NextCovers`: the words that
cover an index and those that cover the next one of the loop are the same, but for
the word of the index itself.  It goes by induction on the bits, because
`lowbit(2u)` is `2 lowbit(u)` and `lowbit` of an odd number is 1 (`LowbitParts`); these
come from `x & -x` in two's complement, where the bits of a number and of its
complement exclude one another (`Complements`).  `LengthIs` follows the loop of
`treearray_length` down to index 0, also as a proof that it gets there in no more
iterations than there are indexes; sums of a word and a negative `int` go through
the conversion both ways (`IntAdds`).  `LocateIs` halves the bracket at each bit of
a `size_t`; what lies to the right of an index is told by sums that do not fall
(`SumsGrow`).  The hypotheses that no element is negative and that the sum is an
`int` are part of the property.  Assumed are an `int` of at least one bit and no
wider than a `size_t`, and arrays of fewer than half as many words as a `size_t` can
count, which leaves `idx + lowbit(idx)` in range.

`DataLemmas` has what the remaining proofs need about sequences and functions:
adding at the end and taking off the front keep a sequence without repetitions,
one over a finite set is no longer than the set, and iterating a step on a set
gives a function that stays in it.  The provers cannot instantiate an induction
rule with an operator, so `NatSetInduction` states induction for a *set* of
numbers that has 0 and is closed under successor; a proof by induction names the
set of the numbers that it has the property for.

`AllocatorProofs` proves everything that the run Containers checks of `TidySpec`, for every
number and size of blocks, every set of addresses and every outcome of `malloc`:
`AllocatorTypeOK`, `AllocatorConserves`, `AllocatorRegionStays` and
`AllocatorIsPool`.  The invariant `TidyInv` joins the ring's `IsQueue` (from
`RingProofs`, so the lemmas about push and pull are used again) with what the
allocator knows: the offsets in the ring and those of the lent pointers are
distinct multiples of the block size below the region's, and together they are
`num` (while `create` fills the ring: as many as it has filled in).  The region
cannot grow: `get_memory` reaches `allocator_realloc` only with an empty ring, and
then all `num` blocks are lent, which a tidy client never asks beyond.  The ring
cannot grow either: it has more than `num` slots, distinct offsets are at most
`num`, and `ring_push` grows a full ring only.  From the same counting a pushed
pointer finds room, which makes the push of `put_memory` one at the end of `Pool`'s
free blocks.

`CListProofs` proves `CListBothWays`, `CListNothingLost` and `CListIsQueue` for every
finite set of addresses and every payload.  `Walk` is a recursive function, so the
invariant says what a walk will see before any walk is made: there is a sequence
of distinct nodes (`Circle`) such that the list and this sequence, read as a ring,
are linked by next forwards and by prev backwards, which has every allocated node
but the list, and whose length is the counter.  While the list is being
destroyed the circle is cut open and the sequence is what lies ahead of `cursor`
(`Remains`).  `Iteration` and an induction on the length turn this into what
`Forward` and `Backward` are.  A push appends to the sequence and a pop takes its
first element; each step writes at most three nodes, and the cases in which these
coincide (a list that is empty or becomes so) are split off in the lemmas.
Assumed are finitely many addresses, a null pointer that is none of them, and a
mark for unallocated memory that is no node.

`RBShapeProofs` and `RBTreeProofs` prove what the passing runs check of the trees,
but that their calls return, for any set of nodes, any trees, integer keys and values, and any
comparator:

- `TreeTypeCorrect`, `TreesStayApart`, `ParentStaysStable` and `TreesAreOrderedBags` for
  `Spec`: all calls in any order, on trees that discards have put out of balance
  and with sizes that recolourings have left stale.
- `PriorityTakesFirst` for `PrioritySpec`, and `ClientsTakeFirst` for the client
  `"queue"` of RBTreeClients within any bounds: its sixth node is what it takes to
  break the balance, and on trees like those the first element still is the one
  that goes.
- `IteratorsKeepOrder`: `rbtree_iter_next` and `prev` climb by the child index in the
  parent word, and come past every node once and to the tail.
- `SearchesFindKeys`, if the comparator orders keys as their difference does
  (`ComparesByDifference`).  Insertion subtracts and does not ask the comparator;
  the run RBTreeDescending shows that without this hypothesis the theorem is
  false.
- `GrowingStaysRedBlack` and `GrowingHasOneRedRed`, for the client `"grow"` within any
  bounds, and `GrowingNeverAborts`, for `GrowSpec`: programs that create trees, insert
  and update.  The trees stay red-black trees, the insertion loop has one violation to repair, where it looks, and its
  assertion about the grandparent cannot fail.  Without discards none of this is
  lost; RBTreeRedBlack shows that one discard may lose it.

None of the properties is inductive.  That a tree holds its elements in order is
not a condition on each node and its children, and what a call must do to the
elements is done before the loops that rebalance (insertion), or long after the
walk that chose the node (discard).  The invariant `IInv` says that there is a
*view* of the heap: for every node the tree it is in (`own`), its place in the
order of that tree (`at`) and the first and last place of the nodes below it (`lo`,
`hi`), and for every tree its top and its elements.  Each part of `Shape` is about
one node and its neighbours: a left child has the span before the node, a right
child the span behind it, where one is missing there is nothing on that side of
the node.  So a rotation changes the spans of two nodes and no place
(`TurnsLeft`, `TurnsRight`), a recolouring changes nothing, a new leaf shifts the
places behind it up by one (`GraftShape`) and a node that leaves shifts them down
(`PruneShape`).  `Settled` says that trees that no call works on are what their last
call left, and `Pending`, for each loop, that what is left to do will make the
change that the call is to make: in `"unlink"`, that the elements without the one at
the place of the node to unlink are what the call promises.  In `"delete_balance"`
it also says that the node to unlink is below the one that is balanced, or is it
(`Under`), which is why no rotation comes between it and its parent
(`BorrowedRebalances`).  The parameter of `IInv` says whether calls take the first
element only.

The provers have no induction over trees, and the model needs little of it.
Walks are given by a table of next places (`Follow`); `FollowReaches` says that a
walk along which some rank falls reaches a place where it stops, and stays in
any set closed under the table.  Spans are such a rank on the way down, and
their complements on the way up.  `NodesInRow` turns the recursion of
`NodesInOrder` into the stretch of nodes in a span by an induction on its length.
All this holds whatever the colours and sizes are, which is what makes the
theorems true of broken trees.

The colours are a second invariant, `GInv`, on top of `IInv`.  It has no path in it
either: there is a function `b` on the nodes and the tail that is 1 at the tail and
at each node is the `b` of *both* its children, plus one if the node is black
(`Blacks`).  So it is about a node and its children, and `BlackHeightIs` turns it
into what the recursion `BlackHeight` computes, by induction along the spans.
`ClashesAt` says that no node but one has a red parent and is red: the node of the
loop in `"insert_balance"`, none elsewhere.  No root of a tree that no call works on
is red (`RootsBlack`), and in the loop a red node without a parent is the node of
the loop (`Inserting`), so a red parent has a grandparent, which is black because
the parent does not clash.  A red uncle moves the clash to the grandparent
(`SplitBlacks`, `SplitClashes`).  For a black one, a rotation in which a red node
and its parent exchange colours keeps `Blacks` (`TurnBlacks`); it moves the clash to
the parent when both are red (`TurnMoves`), the first of the two rotations, and
ends it when the parent is black (`TurnEnds`), the last.  `rbtree_maintain` writes
sizes, and paints the top black, which changes `b` there and nowhere below.

The assumptions are `SentinelsAssumption` (head and tail are two addresses that no
node has), `NodesAssumption` (nodes are numbers, of which a new node takes the
least that is free), `KeysAssumption` (keys are integers) and `MarksAssumption` (the
marks for unallocated memory and for no tree are nothing else); the runs evaluate
them.

Only model-checked:

- the arithmetic on words in BitOps, which uses the library's bitwise operators,
  and the texts, a recursive operator: the prover accepts neither;
- rbtree-simple, whose order of elements is kept by the rotations proved for
  rbtree but whose removal of the root loses the rest of the tree;
- all liveness (the prover does not reason about `ENABLED`).

## Not modelled

- `cdata.h` is a union without operations.  `murmurhash3.h` is a pure function in
  32- and 64-bit products, beyond TLC's integers, with no property but its own
  definition.  `dict` and `oset` have no code.  Tests and benchmarks are read for
  what they state.
- Iterators that a client keeps while it changes a tree; blanks in the texts, which
  every function of the parser skips, and texts that end before a colour, which
  it reads past.
- The sizes of allocations where the code gets them wrong: `itrie_create` allocates
  a pointer's size for its struct, `itrie_iter_create` half the words a path may
  need.  `PathFits` tells when the second is exceeded.
- `itrie_elem_update` has an empty body; six functions of `clist.h` are declared and
  not defined.  `popcnt.h:59` calls its 64-bit count `popcnt_u64` and not
  `nifty_popcnt_u64`; with GCC the macro of that name is the one used.
- An update of a treearray at index SIZE_MAX, which never returns.
- Failing allocations outside the ring and the allocator: the other components do
  not look at what `malloc` answers.

## The plan

1. (done) ring with proofs, allocator, rbtree.
2. (done) rbtree-simple and its helpers, itrie, clist, bitmap and the bit
   operations, treearray, bsearch with proofs.
3. (done) the allocator, the list and the bitmap's size, proved.
4. (done) the trie and the prefix sums, proved.
5. (done) the trees: types, separation, the parent across the balancing, the
   ordered bag, iterators and searches by key, the red-black conditions while
   nothing is discarded, proved.

----------------------------- MODULE Containers -----------------------------
(***************************************************************************)
(* A program that uses one of the smaller parts of the library, each with  *)
(* its own data: which one is chosen at the start.  The instances are      *)
(* those of the run Containers.                                            *)
(***************************************************************************)
EXTENDS BSearch, TreeArray, Bitmap, BitOps, CList, ITrie, Allocator

CONSTANTS
  rb_head, rb_tail,               \* the sentinels of rbtree-simple
  MaxNodes, TreeKeys, TreeVals,   \* its instance
  Pending,
  Labels, End                     \* that of TreeText

VARIABLES
  using,                                              \* the part that the program uses
  heap, root, pc, node, cut, out, seen, tree_ret,     \* SimpleTree
  text, other                                         \* TreeText

(* Values for constants that are not words of a cfg. *)
SomeValues == -1 .. 1

SomeElements == -1 .. 3

SomeOffsets == 0 .. 300

SomeBases == {100, 200}

SomeAmounts == {-1, 2}

SomeLabels == {<<"0", "2">>, <<"1", "2">>, <<"1", "7">>}

Ascending(a, b) == a - b

Tree == INSTANCE SimpleTree WITH
  head <- rb_head, tail <- rb_tail, Unallocated <- NoNode,
  Keys <- TreeKeys, Vals <- TreeVals, key_cmp <- Ascending, ret <- tree_ret

Text == INSTANCE TreeText WITH tail <- rb_tail

tree_vars == <<heap, root, pc, node, cut, out, seen, tree_ret>>

all_vars ==
  <<using, bsearch_vars, treearray_vars, bitmap_vars, arg, clist_vars, trie_vars, tree_vars,
    text, other, vars>>

Parts ==
  {"bsearch", "treearray", "bitmap", "bitops", "clist", "itrie", "tree", "text", "allocator"}

(* The variables of all parts but the one used. *)
OthersKeep ==
  /\ UNCHANGED using
  /\ using # "bsearch"   => UNCHANGED bsearch_vars
  /\ using # "treearray" => UNCHANGED treearray_vars
  /\ using # "bitmap"    => UNCHANGED bitmap_vars
  /\ using # "bitops"    => UNCHANGED arg
  /\ using # "clist"     => UNCHANGED clist_vars
  /\ using # "itrie"     => UNCHANGED trie_vars
  /\ using # "tree"      => UNCHANGED tree_vars
  /\ using # "text"      => UNCHANGED <<text, other>>
  /\ using # "allocator" => UNCHANGED vars

ContainersInit ==
  /\ using \in Parts
  /\ BSearchInit /\ TreeArrayInit /\ BitmapInit /\ BitOpsInit /\ CListInit /\ TrieInit
  /\ Tree!Init /\ Text!TextInit /\ Init

ContainersNext ==
  \/ using = "bsearch"   /\ BSearchNext   /\ OthersKeep
  \/ using = "treearray" /\ TreeArrayNext /\ OthersKeep
  \/ using = "bitmap"    /\ BitmapNext    /\ OthersKeep
  \/ using = "bitops"    /\ BitOpsNext    /\ OthersKeep
  \/ using = "clist"     /\ CListNext     /\ OthersKeep
  \/ using = "itrie"     /\ TrieNext      /\ OthersKeep
  \/ using = "tree"      /\ Tree!Next     /\ OthersKeep
  \/ using = "text"      /\ Text!TextNext /\ OthersKeep
  \/ using = "allocator" /\ TidyNext      /\ OthersKeep

(* The loops inside the calls. *)
Loops ==
  \/ using = "bsearch"   /\ BSearchLoop /\ OthersKeep
  \/ using = "treearray" /\ Update      /\ OthersKeep
  \/ using = "clist"     /\ DestroyNode /\ OthersKeep
  \/ using = "tree"      /\ Tree!Loops  /\ OthersKeep

(* A program does not stop inside a call. *)
ContainersSpec == ContainersInit /\ [][ContainersNext]_all_vars /\ WF_all_vars(Loops)

-----------------------------------------------------------------------------
(* Every call returns, or an assert stops it: the search comes to an       *)
(* answer, the update leaves the array, the loop that frees a list ends at *)
(* its cut, and the loops that climb a tree and rewrite it get to its top. *)
CallsReturn ==
  LET inside == searching \/ updating \/ cursor # Null \/ Tree!Calling
  IN  inside ~> ~inside

(* The iterators and searches of rbtree-simple; see SimpleTree. *)
IteratesAndFinds == using = "tree" => Tree!IteratesAndFinds

(* A tree of rbtree-simple is an ordered bag, but for removals of the root *)
(* and deletions by index; see SimpleTree.                                 *)
IsBagButTwo == Tree!IsBagButTwo

(* rbtree_build takes the texts of its grammar; see TreeText. *)
BuildsText == using = "text" => Text!BuildsText

(* What rbtree_equal compares; see TreeText. *)
ComparesPruned == using = "text" => Text!ComparesPruned
=============================================================================

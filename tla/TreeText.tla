------------------------------ MODULE TreeText ------------------------------
(***************************************************************************)
(* container/rbtree-simple/rbtree_build.c and rbtree_equal.c: trees made   *)
(* from a text, and the comparison of two trees.  A text is a sequence of  *)
(* characters without blanks, which every function skips.  A tree is the   *)
(* value that its root points at: tail, Null after a failure, or a node's  *)
(* colour, id and children.  The variables are the texts of two trees.     *)
(***************************************************************************)
EXTENDS Integers, SequencesExt, FiniteSetsExt

CONSTANTS
  Labels,         \* bound: colour and id, a digit each, of the nodes that are drawn
  tail, Null,     \* &rbtree_tail and the null pointer
  End             \* the character that ends a string

VARIABLES text, other

text_vars == <<text, other>>

Digit == <<"0", "1", "2", "3", "4", "5", "6", "7", "8", "9">>

DigitChars == Range(Digit)

NumOf(c) == (CHOOSE i \in DOMAIN Digit : Digit[i] = c) - 1

Node(colour, id, l, r) == [colour |-> colour, id |-> id, child |-> <<l, r>>]

(* Mutant of NewNode: the children are swapped. *)
NewNodeSwapped(colour, id, l, r) == Node(colour, id, r, l)

(* A node with its children attached. *)
NewNode(colour, id, l, r) == Node(colour, id, l, r)

(* The lowest bit of the character less '0'; the codes of "[", "]", "{",   *)
(* "}", ")" and "i" are odd, as are those of odd digits.  rbtree_set_color *)
(* puts all bits of the difference into the parent word.  The higher ones  *)
(* are gone when rbtree_attach_child writes the word of a child, and stay  *)
(* in that of the root, of which the functions here read the colour only.  *)
ColourOf(c) ==
  IF c \in DigitChars THEN NumOf(c) % 2 ELSE IF c \in {"[", "]", "{", "}", ")", "i"} THEN 1 ELSE 0

-----------------------------------------------------------------------------
(* rbtree_build of str.  A position is 0 once something else was expected. *)

At(str, p) == IF p \in DOMAIN str THEN str[p] ELSE End

Eat(str, p, c) == IF p # 0 /\ At(str, p) = c THEN p + 1 ELSE 0

(* The colour is not looked at.  No client ends a text where it belongs:   *)
(* the function would read on behind the end.                              *)
EatColour(p) == IF p = 0 THEN 0 ELSE p + 1

EatId(str, p) ==
  IF p = 0 THEN 0 ELSE Min({q \in p .. Len(str) + 1 : At(str, q) \notin DigitChars})

Id(str, p) ==
  FoldLeft(LAMBDA num, c : 10 * num + NumOf(c), 0, SubSeq(str, p, EatId(str, p) - 1))

(* rbtree_build_tree from position p on: the tree and the position after   *)
(* it.  A failure before the node is made leaves the pointer alone, a later*)
(* one frees the node, but not what is below it, and makes the pointer null.*)
build_tree(str, from) ==
  LET tree[p \in 0 .. Len(str) + 1] ==
        LET nil    == Eat(str, Eat(str, Eat(str, p, "n"), "i"), "l")
            colour == Eat(str, Eat(str, p, "{"), "(")
            id     == Eat(str, EatColour(colour), ",")
            made   == EatId(str, id)
            l      == tree[Eat(str, Eat(str, Eat(str, made, ")"), ","), "[")]
            r      == tree[Eat(str, l.end, ",")]
            end    == Eat(str, Eat(str, r.end, "]"), "}")
        IN  CASE At(str, p) = "n" -> [end |-> nil, root |-> tail]
              [] At(str, p) = "{" ->
                   [end  |-> end,
                    root |-> IF made = 0 THEN tail
                             ELSE IF end = 0 THEN Null
                             ELSE NewNode(ColourOf(At(str, colour)), Id(str, id), l.root, r.root)]
              [] OTHER -> [end |-> 0, root |-> tail]
  IN  tree[from]

(* What follows the tree is not read. *)
rbtree_build(str) ==
  [err |-> IF build_tree(str, 1).end = 0 THEN -1 ELSE 0, root |-> build_tree(str, 1).root]

-----------------------------------------------------------------------------
(* rbtree_equal of two different trees. *)

(* Mutant of SameNode: colours are not compared. *)
SameId(a, b) == a.id = b.id

(* What a node itself tells; the child only if it is missing. *)
SameNode(a, b) == a.id = b.id /\ a.colour = b.colour

(* The tail is a node like the others, and the same in all trees. *)
RECURSIVE equal_tree(_, _)
equal_tree(a, b) ==
  \/ a = tail /\ b = tail
  \/ /\ SameNode(a, b)
     /\ \A i \in 1 .. 2 : a.child[i] = tail <=> b.child[i] = tail
     /\ a.child[2] = tail \/ \A i \in 1 .. 2 : equal_tree(a.child[i], b.child[i])

(* The roots are compared as pointers first. *)
rbtree_equal(a, b) ==
  \/ a = b /\ a \in {tail, Null}
  \/ a \notin {tail, Null} /\ b \notin {tail, Null} /\ equal_tree(a, b)

-----------------------------------------------------------------------------
(* Trees that a client may draw, and their texts. *)

Pictures ==
  LET deep[n \in Nat] ==
        {tail} \cup
        IF n = 0 THEN {}
        ELSE {Node(NumOf(x[1]), NumOf(x[2]), l, r) :
                x \in Labels, l \in deep[n - 1], r \in deep[n - 1]}
  IN  deep[2]

RECURSIVE Drawn(_)
Drawn(t) ==
  IF t = tail THEN <<"n", "i", "l">>
  ELSE <<"{", "(", Digit[t.colour + 1], ",", Digit[t.id + 1], ")", ",", "[">>
       \o Drawn(t.child[1]) \o <<",">> \o Drawn(t.child[2]) \o <<"]", "}">>

Slips == {"{", ",", ")", "]", "n", "1"}

(* A text with one character left out, doubled or replaced, or cut off.  A *)
(* slip that ends the text before a colour is left out.                    *)
Misdrawn(t) ==
  LET d == Drawn(t)
  IN  {s \in UNION {{RemoveAt(d, i), InsertAt(d, i, d[i]), SubSeq(d, 1, i)}
                    \cup {[d EXCEPT ![i] = c] : c \in Slips} : i \in DOMAIN d} :
         Last(s) # "("}

NilText == <<"n", "i", "l">>

TextInit == text = NilText /\ other = NilText

BuildTwo ==
  /\ text = NilText /\ other = NilText
  /\ text' \in {Drawn(t) : t \in Pictures}
  /\ other' \in {Drawn(t) : t \in Pictures}

BuildMisdrawn ==
  /\ text = NilText /\ other = NilText
  /\ text' \in UNION {Misdrawn(t) : t \in Pictures}
  /\ UNCHANGED other

Forget == text' = NilText /\ other' = NilText

TextNext == BuildTwo \/ BuildMisdrawn \/ Forget

TextSpec == TextInit /\ [][TextNext]_text_vars

-----------------------------------------------------------------------------
Reads(a, chars) == \A k \in DOMAIN chars : At(text, a + k - 1) = chars[k]

(* The characters i to j of the text are a tree of the grammar of          *)
(* rbtree_build.h:5-10, where a colour is one of colours and IsId(a, b)    *)
(* says that the characters from a up to b, without b, may be an id.       *)
IsTree(i, j, colours, IsId(_, _)) ==
  LET is[a, b \in 1 .. Len(text)] ==
        \/ b = a + 2 /\ Reads(a, <<"n", "i", "l">>)
        \/ /\ Reads(a, <<"{", "(">>) /\ Reads(a + 3, <<",">>) /\ Reads(b - 1, <<"]", "}">>)
           /\ At(text, a + 2) \in colours
           /\ \E c \in a + 4 .. b - 10 :
                /\ IsId(a + 4, c)
                /\ Reads(c, <<")", ",", "[">>)
                /\ \E m \in c + 6 .. b - 5 :
                     Reads(m, <<",">>) /\ is[c + 3, m - 1] /\ is[m + 1, b - 2]
  IN  is[i, j]

(* color ::= 0 | 1 and id ::= digit. *)
IsTreeText(i, j) ==
  IsTree(i, j, {"0", "1"}, LAMBDA a, b : b = a + 1 /\ text[a] \in DigitChars)

(* With any colour, and any number of digits in an id. *)
IsLooseText(i, j) ==
  IsTree(i, j, Range(text), LAMBDA a, b : \A k \in a .. b - 1 : text[k] \in DigitChars)

(* A text that starts with a tree of the grammar gives that tree.  What is *)
(* taken is such a text but for its colours and ids, so a mistake anywhere *)
(* else is found; a tree that was refused has no node.                     *)
BuildsText ==
  LET built == rbtree_build(text)
  IN  /\ \A j \in DOMAIN text :
           IsTreeText(1, j) => built.err = 0 /\ Drawn(built.root) = SubSeq(text, 1, j)
      /\ built.err = 0 => \E j \in DOMAIN text : IsLooseText(1, j)
      /\ built.err = -1 => built.root \in {tail, Null}

(* Only texts that start with a tree of the grammar are taken. *)
TakesOnlyTrees == rbtree_build(text).err = 0 => \E j \in DOMAIN text : IsTreeText(1, j)

(* A tree without what is below the left child of a node that has no right *)
(* child.                                                                  *)
RECURSIVE Pruned(_)
Pruned(t) ==
  IF t \in {tail, Null} THEN t
  ELSE IF t.child[2] # tail THEN Node(t.colour, t.id, Pruned(t.child[1]), Pruned(t.child[2]))
  ELSE Node(t.colour, t.id, IF t.child[1] = tail THEN tail ELSE Null, tail)

(* rbtree_equal tells trees apart, except where they differ only below the *)
(* left child of a node without a right one: it does not look there.       *)
ComparesPruned ==
  LET a == rbtree_build(text).root
      b == rbtree_build(other).root
  IN  rbtree_equal(a, b) <=> Pruned(a) = Pruned(b)
=============================================================================

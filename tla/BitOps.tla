-------------------------------- MODULE BitOps --------------------------------
(***************************************************************************)
(* The arithmetic on unsigned words of container/bitmap/popcnt.h and       *)
(* utils/bitwise, for words of WordBits bits, a power of 2: counting the   *)
(* bits, finding the lowest 1 or 0, and rounding up to a power of two.  The*)
(* one variable is the argument; every word is one.                        *)
(***************************************************************************)
EXTENDS Bitwise, FiniteSetsExt

CONSTANT WordBits

VARIABLE arg

Words == 0 .. 2 ^ WordBits - 1

BitOpsInit == arg = 0

BitOpsNext == \E w \in Words : arg' = w

BitOpsSpec == BitOpsInit /\ [][BitOpsNext]_arg

(* The bits of a word that are 1. *)
Ones(w) == {i \in 0 .. WordBits - 1 : (w \div 2 ^ i) % 2 = 1}

(* Mutant of Mask: the groups start with zeros. *)
MaskShifted(k) == MapThenSumSet(LAMBDA i : 2 ^ i, {i \in 0 .. WordBits - 1 : (i \div k) % 2 = 1})

(* 0x5555, 0x3333, 0x0f0f and so on: groups of k ones and k zeros. *)
Mask(k) == MapThenSumSet(LAMBDA i : 2 ^ i, {i \in 0 .. WordBits - 1 : (i \div k) % 2 = 0})

(* Groups of 1, 2, 4 ... bits are added up pairwise. *)
nifty_popcnt(v) ==
  LET add[k \in 1 .. WordBits, w \in Words] ==
        IF k = WordBits THEN w
        ELSE add[2 * k, ((w & Mask(k)) + (shiftR(w, k) & Mask(k))) % 2 ^ WordBits]
  IN  add[1, v]

(* __builtin_popcount, which popcnt_u32 and its like are with GCC. *)
assembly_popcnt(v) == Cardinality(Ones(v))

(* The lowest one and the zeros below it. *)
BelowLowest(c) == c ^^ (c - 1)

get_first_one_pos(c) == IF c = 0 THEN -1 ELSE assembly_popcnt(BelowLowest(c)) - 1

get_first_zero_pos(c) == get_first_one_pos(2 ^ WordBits - 1 - c)

(* Mutant of Smeared: it starts from the number itself. *)
SmearedFrom(v) == v

(* What the smearing starts from. *)
Smeared(v) == (v - 1) % 2 ^ WordBits

(* All bits below the highest one are set, then one is added. *)
next_pow(v) ==
  LET smear[k \in 1 .. WordBits, n \in Words] ==
        IF k = WordBits THEN n ELSE smear[2 * k, n | shiftR(n, k)]
  IN  (smear[1, Smeared(v)] + 1) % 2 ^ WordBits

-----------------------------------------------------------------------------
(* The masks and shifts of nifty_popcnt count the bits that are 1, as the  *)
(* instruction does; get_first_one_pos and get_first_zero_pos find the     *)
(* lowest 1 and the lowest 0 of a word, or answer -1.                      *)
CountsAndFinds ==
  LET zeros == (0 .. WordBits - 1) \ Ones(arg)
  IN  /\ nifty_popcnt(arg) = assembly_popcnt(arg)
      /\ get_first_one_pos(arg) = IF arg = 0 THEN -1 ELSE Min(Ones(arg))
      /\ get_first_zero_pos(arg) = IF zeros = {} THEN -1 ELSE Min(zeros)

(* next_pow is the least power of two that is no less, but 0 when that is  *)
(* one bit too long, and for 0.                                            *)
RoundsUp ==
  next_pow(arg) =
    IF arg = 0 THEN 0 ELSE Min({p \in {2 ^ k : k \in 0 .. WordBits} : p >= arg}) % 2 ^ WordBits
=============================================================================

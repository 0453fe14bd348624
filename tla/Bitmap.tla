-------------------------------- MODULE Bitmap --------------------------------
(***************************************************************************)
(* container/bitmap/bitmap.h: an array of uint32_t words.  A word is the   *)
(* set of the positions of its bits that are 1.  (1<<pos) is undefined for *)
(* pos above 31; the build shifts by pos modulo 32, which is what every    *)
(* function here relies on.  Clients free a bitmap themselves; they use the*)
(* positions that it has, and may ask for more than uint32_t can count.    *)
(***************************************************************************)
EXTENDS Binary

CONSTANTS
  UintBits,    \* the bits of a uint32_t, 32
  BitmapSizes, \* the sizes that clients ask for
  Positions    \* the positions that they use

ASSUME UintBitsAssumption == UintBits \in Nat /\ UintBits > 5

ASSUME BitmapSizesAssumption == BitmapSizes \subseteq Nat

ASSUME PositionsAssumption == Positions \subseteq Nat

VARIABLES
  bm_size,   \* bitmap->size
  words,     \* bitmap->data
  asked,     \* history: the size asked for
  bm_ret     \* history: the last call, its position and its answer

bitmap_vars == <<bm_size, words, asked, bm_ret>>

Word == 0 .. 31

NumWords(size) == size \div 32

(* The number of values of a uint32_t. *)
Wide == Pow2[UintBits]

PowersOfTwo == {Pow2[k] : k \in 0 .. UintBits}

(* The least power of two that is no less, if uint32_t has it.  BitOps     *)
(* checks the arithmetic that computes it.                                 *)
next_pow_u32(v) ==
  IF v = 0 THEN 0
  ELSE (CHOOSE p \in PowersOfTwo : p >= v /\ \A q \in PowersOfTwo : q >= v => p <= q) % Wide

(* A call without a position. *)
NoPos == -1

Answered(op, at, val) == bm_ret' = [op |-> op, at |-> at, val |-> val]

Bool(b) == IF b THEN 1 ELSE 0

BitmapInit ==
  /\ bm_size = 0 /\ words = [i \in {} |-> {}]
  /\ asked = 0
  /\ bm_ret = [op |-> "none", at |-> NoPos, val |-> 0]

(* Mutant of MapSize: as many bits as were asked for. *)
MapSizeAsked(size) == IF size <= 32 THEN 32 ELSE size

(* The argument of next_pow_u32 is a uint32_t. *)
MapSize(size) == next_pow_u32((IF size <= 32 THEN 32 ELSE size) % Wide)

bitmap_create(size) ==
  /\ bm_size' = MapSize(size)
  /\ words' = [i \in 0 .. NumWords(MapSize(size)) - 1 |-> {}]
  /\ asked' = size
  /\ Answered("create", NoPos, 0)

Has(pos) == pos \div 32 \in DOMAIN words

IsSet(pos) == pos % 32 \in words[pos \div 32]

bitmap_set(pos) ==
  /\ Has(pos)
  /\ words' = [words EXCEPT ![pos \div 32] = @ \cup {pos % 32}]
  /\ Answered("set", pos, Bool(~IsSet(pos)))
  /\ UNCHANGED <<bm_size, asked>>

(* Mutant of Cleared: always a bit of the first word. *)
ClearedFirst(pos) == [words EXCEPT ![0] = @ \ {pos % 32}]

Cleared(pos) == [words EXCEPT ![pos \div 32] = @ \ {pos % 32}]

bitmap_unset(pos) ==
  /\ Has(pos)
  /\ words' = Cleared(pos)
  /\ Answered("unset", pos, Bool(IsSet(pos)))
  /\ UNCHANGED <<bm_size, asked>>

bitmap_get(pos) ==
  /\ Has(pos)
  /\ Answered("get", pos, Bool(IsSet(pos)))
  /\ UNCHANGED <<bm_size, words, asked>>

(* The words that the loops of the _all functions write. *)
FillWords(w) ==
  [i \in DOMAIN words |-> IF i < NumWords(bm_size) THEN w ELSE words[i]]

bitmap_set_all ==
  /\ words' = FillWords(Word)
  /\ Answered("set_all", NoPos, 0)
  /\ UNCHANGED <<bm_size, asked>>

bitmap_unset_all ==
  /\ words' = FillWords({})
  /\ Answered("unset_all", NoPos, 0)
  /\ UNCHANGED <<bm_size, asked>>

(* get_first_one_pos_u32 of a word with a bit; see BitOps. *)
IsFirstOne(pos, w) == pos \in w /\ \A q \in w : pos <= q

(* The first word with a bit gives the answer, but bitmap_unset is told    *)
(* the position within the word: it clears a bit of the first word.        *)
PopFound(i, pos) ==
  /\ \A j \in DOMAIN words : j < i => words[j] = {}
  /\ IsFirstOne(pos, words[i])
  /\ words' = Cleared(pos)
  /\ Answered("pop", NoPos, pos)
  /\ UNCHANGED <<bm_size, asked>>

(* No word has a bit: the loop goes on behind the array, up to bm_size     *)
(* words, and may find a bit there.  What it clears then is clear already. *)
PopPastEnd ==
  /\ \A j \in DOMAIN words : words[j] = {}
  /\ \E pos \in IF bm_size = 0 THEN {-1} ELSE -1 .. 31 : Answered("pop", NoPos, pos)
  /\ UNCHANGED <<bm_size, words, asked>>

bitmap_pop == PopPastEnd \/ \E i \in DOMAIN words, pos \in Word : PopFound(i, pos)

BitmapNext ==
  \/ \E size \in BitmapSizes : bitmap_create(size)
  \/ \E pos \in Positions : bitmap_set(pos) \/ bitmap_unset(pos) \/ bitmap_get(pos)
  \/ bitmap_set_all
  \/ bitmap_unset_all
  \/ bitmap_pop

BitmapSpec == BitmapInit /\ [][BitmapNext]_bitmap_vars

-----------------------------------------------------------------------------
(* The array has the words of its size, and a word has 32 bits. *)
BitmapTypeOK ==
  /\ bm_size \in Nat
  /\ DOMAIN words = 0 .. NumWords(bm_size) - 1
  /\ \A i \in DOMAIN words : words[i] \subseteq Word

(* A bitmap has every position that was asked for, unless their number is  *)
(* above the largest power of two of a uint32_t: then it has no word.      *)
(* (Above Wide the number is cut, and a smaller bitmap made.)              *)
HasRoom ==
  /\ asked <= Wide \div 2 => asked <= 32 * NumWords(bm_size)
  /\ asked \in (Wide \div 2) + 1 .. Wide => bm_size = 0

Room == 32 * NumWords(bm_size)

Bits == {pos \in 0 .. Room - 1 : IsSet(pos)}

BitsAs == INSTANCE BitSet WITH Width <- 32, set <- Bits, room <- Room, ret <- bm_ret

(* The words are a set of positions: positions 32 apart do not disturb one *)
(* another, and every answer is the set's for the position of the call.  A *)
(* pop of a bitmap whose first word is empty changes nothing.              *)
IsBitSet == BitsAs!Spec
=============================================================================

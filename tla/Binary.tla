------------------------------- MODULE Binary -------------------------------
(***************************************************************************)
(* Words of bits: the powers of two, and the operator & of C.              *)
(***************************************************************************)
EXTENDS Integers

Pow2[k \in Nat] == IF k = 0 THEN 1 ELSE 2 * Pow2[k - 1]

(* x & y for words of n bits: the lowest bit, and before it what the other *)
(* n - 1 bits give.                                                        *)
BitAnd(n, x, y) ==
  LET and[k \in Nat] ==
        [u \in Nat |-> [v \in Nat |->
           IF k = 0 THEN 0
           ELSE (IF u % 2 = 1 /\ v % 2 = 1 THEN 1 ELSE 0)
                + (2 * and[k - 1][u \div 2][v \div 2])]]
  IN  and[n][x][y]
=============================================================================

----------------------------- MODULE DataLemmas -----------------------------
(***************************************************************************)
(* Lemmas about sequences without repetition, and induction on the natural *)
(* numbers.  The provers cannot instantiate the library's theorem, whose   *)
(* parameter is an operator; here the formula to be proved is given as the *)
(* set of the numbers for which it holds.                                  *)
(***************************************************************************)
EXTENDS Integers, Sequences, FiniteSetTheorems, SequenceTheorems, TLAPS

(* A set of numbers that has 0 and the successors of its members has all:  *)
(* otherwise, of the intervals below the missing numbers one would be      *)
(* minimal.                                                                *)
LEMMA NatSetInduction ==
  ASSUME NEW T, 0 \in T, \A n \in Nat : n \in T => n + 1 \in T
  PROVE  Nat \subseteq T
<1> SUFFICES ASSUME NEW k \in Nat, k \notin T
             PROVE  FALSE
  OBVIOUS
<1> DEFINE R == StrictSubsetOrdering(Nat)
           I == {0 .. n - 1 : n \in Nat \ T}
<1>1. IsWellFoundedOn(R, FiniteSubsetsOf(Nat))
  BY FS_StrictSubsetOrderingWellFounded
<1>2. I \subseteq FiniteSubsetsOf(Nat) /\ I # {}
  <2>1. ASSUME NEW n \in Nat \ T PROVE 0 .. n - 1 \in FiniteSubsetsOf(Nat)
    BY FS_Interval DEF FiniteSubsetsOf
  <2> QED
    BY <2>1
<1>3. PICK x \in I : \A y \in I : ~ (<<y, x>> \in R)
  <2> HIDE DEF R, I
  <2> QED
    BY <1>1, <1>2, WFMin
<1>4. PICK n \in Nat \ T : x = 0 .. n - 1
  OBVIOUS
<1>5. n # 0 /\ n - 1 \in Nat /\ n = (n - 1) + 1
  BY <1>4
<1>6. n - 1 \notin T
  BY <1>5
<1> DEFINE y == 0 .. (n - 1) - 1
<1>7. y \in I
  BY <1>5, <1>6
<1>8. y \subseteq x /\ y # x /\ y \in SUBSET Nat /\ x \in SUBSET Nat /\ n - 1 \in x /\ n - 1 \notin y
  BY <1>4, <1>5
<1>9. <<y, x>> \in R
  BY <1>8 DEF StrictSubsetOrdering
<1> QED
  BY <1>3, <1>7, <1>9

(* Iterating a function from a value on gives a function of the number of  *)
(* iterations.                                                             *)
LEMMA Iteration ==
  ASSUME NEW S, NEW base \in S, NEW step \in [S -> S]
  PROVE  \E f \in [Nat -> S] : f[0] = base /\ \A k \in Nat : f[k + 1] = step[f[k]]
<1> DEFINE Upto(n) == {f \in [0 .. n -> S] :
                         f[0] = base /\ \A k \in 0 .. n - 1 : f[k + 1] = step[f[k]]}
<1>1. \A n \in Nat : Upto(n) # {}
  <2> DEFINE T == {n \in Nat : Upto(n) # {}}
  <2>1. 0 \in T
    <3> DEFINE f == [k \in 0 .. 0 |-> base]
    <3>1. f \in Upto(0)
      OBVIOUS
    <3> QED
      BY <3>1
  <2>2. ASSUME NEW n \in Nat, n \in T PROVE n + 1 \in T
    <3>1. PICK f : f \in Upto(n)
      BY <2>2
    <3> DEFINE g == [k \in 0 .. n + 1 |-> IF k = n + 1 THEN step[f[n]] ELSE f[k]]
    <3>2. /\ f \in [0 .. n -> S] /\ f[0] = base
          /\ \A k \in 0 .. n - 1 : f[k + 1] = step[f[k]]
      BY <3>1
    <3>3. /\ n \in 0 .. n /\ 0 \in 0 .. n + 1 /\ n + 1 # 0
          /\ \A k \in 0 .. n + 1 : k # n + 1 => k \in 0 .. n
      OBVIOUS
    <3>4. g \in [0 .. n + 1 -> S]
      BY <3>2, <3>3
    <3>5. g[0] = base
      BY <3>2, <3>3
    <3>6. ASSUME NEW k \in 0 .. n PROVE g[k + 1] = step[g[k]]
      <4>1. CASE k = n
        BY <4>1
      <4>2. CASE k # n
        <5>1. k \in 0 .. n - 1 /\ k + 1 \in 0 .. n + 1 /\ k + 1 # n + 1 /\ k # n + 1 /\ k \in 0 .. n + 1
          BY <4>2
        <5> QED
          BY <3>2, <5>1
      <4> QED
        BY <4>1, <4>2
    <3> HIDE DEF g
    <3>7. (n + 1) - 1 = n
      OBVIOUS
    <3>8. g \in Upto(n + 1)
      BY <3>4, <3>5, <3>6, <3>7
    <3> QED
      BY <3>8
  <2>3. Nat \subseteq T
    <3> HIDE DEF T
    <3> QED
      BY <2>1, <2>2, NatSetInduction
  <2> QED
    BY <2>3
<1>2. ASSUME NEW k \in Nat
      PROVE  \A n \in Nat, m \in Nat : \A f \in Upto(n), g \in Upto(m) :
               k <= n /\ k <= m => f[k] = g[k]
  <2> DEFINE T == {i \in Nat : \A n \in Nat, m \in Nat : \A f \in Upto(n), g \in Upto(m) :
                                i <= n /\ i <= m => f[i] = g[i]}
  <2>1. 0 \in T
    OBVIOUS
  <2>2. ASSUME NEW i \in Nat, i \in T PROVE i + 1 \in T
    <3> SUFFICES ASSUME NEW n \in Nat, NEW m \in Nat, NEW f \in Upto(n), NEW g \in Upto(m),
                        i + 1 <= n, i + 1 <= m
                 PROVE  f[i + 1] = g[i + 1]
      OBVIOUS
    <3>1. i <= n /\ i <= m /\ i \in 0 .. n - 1 /\ i \in 0 .. m - 1
      OBVIOUS
    <3>2. f[i] = g[i]
      BY <2>2, <3>1
    <3> QED
      BY <3>1, <3>2
  <2>3. Nat \subseteq T
    <3> HIDE DEF T
    <3> QED
      BY <2>1, <2>2, NatSetInduction
  <2> QED
    BY <2>3
<1> DEFINE any == [n \in Nat |-> CHOOSE f : f \in Upto(n)]
           F == [k \in Nat |-> any[k][k]]
<1>3. \A n \in Nat : any[n] \in Upto(n)
  <2> HIDE DEF Upto
  <2> QED
    BY <1>1
<1> HIDE DEF any
<1>4. F \in [Nat -> S] /\ F[0] = base
  BY <1>3
<1>5. ASSUME NEW k \in Nat PROVE F[k + 1] = step[F[k]]
  <2>1. any[k + 1][k + 1] = step[any[k + 1][k]]
    BY <1>3
  <2>2. k + 1 \in Nat /\ k <= k /\ k <= k + 1
    OBVIOUS
  <2>3. any[k + 1][k] = any[k][k]
    <3> HIDE DEF Upto
    <3> QED
      BY <1>2, <1>3, <2>2
  <2> QED
    BY <2>1, <2>3
<1> HIDE DEF F
<1> QED
  BY <1>4, <1>5

-----------------------------------------------------------------------------
(* Sequences without repetition. *)

Elements(s) == {s[i] : i \in DOMAIN s}

LEMMA AppendKeepsInjective ==
  ASSUME NEW S, NEW s \in Seq(S), NEW e \in S
  PROVE  /\ Elements(Append(s, e)) = Elements(s) \cup {e}
         /\ IsInjective(s) /\ e \notin Elements(s) => IsInjective(Append(s, e))
<1> DEFINE a == Append(s, e)
<1>1. /\ Len(s) \in Nat /\ DOMAIN s = 1 .. Len(s)
      /\ DOMAIN a = 1 .. Len(s) + 1
      /\ \A i \in 1 .. Len(s) : a[i] = s[i]
      /\ a[Len(s) + 1] = e
  BY AppendProperties, LenProperties
<1> HIDE DEF a
<1>2. DOMAIN a = DOMAIN s \cup {Len(s) + 1}
  BY <1>1
<1>3. Elements(a) = Elements(s) \cup {e}
  BY <1>1, <1>2 DEF Elements
<1>4. IsInjective(s) /\ e \notin Elements(s) => IsInjective(a)
  BY <1>1, <1>2 DEF Elements, IsInjective
<1> QED
  BY <1>3, <1>4 DEF a

LEMMA TailKeepsInjective ==
  ASSUME NEW S, NEW s \in Seq(S), s # <<>>, IsInjective(s)
  PROVE  /\ IsInjective(Tail(s))
         /\ Head(s) \in Elements(s)
         /\ Elements(Tail(s)) = Elements(s) \ {Head(s)}
<1> DEFINE t == Tail(s)
<1>1. /\ Len(s) \in Nat /\ Len(s) > 0 /\ DOMAIN s = 1 .. Len(s)
      /\ DOMAIN t = 1 .. Len(s) - 1
      /\ \A i \in 1 .. Len(s) - 1 : t[i] = s[i + 1]
  BY HeadTailProperties, LenProperties, EmptySeq
<1>2. Head(s) = s[1]
  OBVIOUS
<1> HIDE DEF t
<1>3. \A i \in DOMAIN t : i + 1 \in DOMAIN s /\ i + 1 # 1
  BY <1>1
<1>4. IsInjective(t)
  <2> SUFFICES ASSUME NEW i \in DOMAIN t, NEW j \in DOMAIN t, t[i] = t[j]
               PROVE  i = j
    BY DEF IsInjective
  <2>1. s[i + 1] = s[j + 1]
    BY <1>1
  <2>2. i + 1 = j + 1
    BY <1>3, <2>1 DEF IsInjective
  <2> QED
    BY <1>1, <2>2
<1>5. ASSUME NEW i \in DOMAIN t PROVE t[i] \in Elements(s) \ {Head(s)}
  <2>1. t[i] = s[i + 1] /\ i + 1 \in DOMAIN s /\ i + 1 # 1 /\ 1 \in DOMAIN s
    BY <1>1, <1>3
  <2> QED
    BY <1>2, <2>1 DEF Elements, IsInjective
<1>6. ASSUME NEW i \in DOMAIN s, s[i] # Head(s) PROVE s[i] \in Elements(t)
  <2>1. i - 1 \in DOMAIN t /\ t[i - 1] = s[i]
    BY <1>1, <1>2, <1>6
  <2> QED
    BY <2>1 DEF Elements
<1>7. Elements(t) = Elements(s) \ {Head(s)}
  BY <1>5, <1>6 DEF Elements
<1>8. Head(s) \in Elements(s)
  BY <1>1, <1>2 DEF Elements
<1> QED
  BY <1>4, <1>7, <1>8 DEF t

(* A sequence without repetition is no longer than the set it is from. *)
LEMMA InjectiveIsShort ==
  ASSUME NEW S, IsFiniteSet(S), NEW s \in Seq(S), IsInjective(s)
  PROVE  Len(s) \in Nat /\ Len(s) <= Cardinality(S) /\ Cardinality(S) \in Nat
<1>1. Len(s) \in Nat /\ s \in [1 .. Len(s) -> S]
  BY LenProperties
<1>2. s \in Injection(1 .. Len(s), S)
  BY <1>1 DEF Injection
<1>3. Cardinality(1 .. Len(s)) <= Cardinality(S)
  BY <1>2, FS_Injection
<1>4. Cardinality(1 .. Len(s)) = Len(s)
  BY <1>1, FS_Interval
<1> QED
  BY <1>1, <1>3, <1>4, FS_CardinalityType

(* A sequence with one more element in front. *)
LEMMA ConsParts ==
  ASSUME NEW S, NEW x \in S, NEW s \in Seq(S)
  PROVE  /\ <<x>> \o s \in Seq(S) /\ Len(<<x>> \o s) = Len(s) + 1
         /\ (<<x>> \o s)[1] = x
         /\ \A i \in 1 .. Len(s) : (<<x>> \o s)[i + 1] = s[i]
         /\ Elements(<<x>> \o s) = Elements(s) \cup {x}
<1> DEFINE one == <<x>>
           t == one \o s
<1>1. one \in Seq(S) /\ Len(one) = 1 /\ one[1] = x /\ Len(s) \in Nat
  BY LenProperties
<1> HIDE DEF one
<1>2. /\ t \in Seq(S) /\ Len(t) = 1 + Len(s)
      /\ \A i \in 1 .. 1 + Len(s) : t[i] = IF i <= 1 THEN one[i] ELSE s[i - 1]
  <2>1. one \in Seq(S)
    BY <1>1
  <2>2. /\ one \o s \in Seq(S) /\ Len(one \o s) = Len(one) + Len(s)
        /\ \A i \in 1 .. Len(one) + Len(s) :
             (one \o s)[i] = IF i <= Len(one) THEN one[i] ELSE s[i - Len(one)]
    BY <2>1, ConcatProperties
  <2> QED
    BY <1>1, <2>2
<1> HIDE DEF t
<1>3. /\ DOMAIN t = 1 .. Len(s) + 1 /\ DOMAIN s = 1 .. Len(s) /\ Len(t) = Len(s) + 1
  BY <1>1, <1>2, LenProperties
<1>4. 1 \in 1 .. Len(s) + 1 /\ t[1] = x
  BY <1>1, <1>2
<1>5. ASSUME NEW i \in 1 .. Len(s) PROVE i + 1 \in 1 .. Len(s) + 1 /\ t[i + 1] = s[i]
  <2>1. i + 1 \in 1 .. 1 + Len(s) /\ ~ (i + 1 <= 1) /\ (i + 1) - 1 = i
    BY <1>1
  <2> QED
    BY <1>1, <1>2, <2>1
<1>6. Elements(t) = Elements(s) \cup {x}
  <2>1. ASSUME NEW i \in 1 .. Len(s) + 1 PROVE t[i] \in Elements(s) \cup {x}
    <3>1. CASE i = 1
      BY <1>4, <3>1
    <3>2. CASE i # 1
      <4>1. i - 1 \in 1 .. Len(s) /\ (i - 1) + 1 = i
        BY <1>1, <3>2
      <4>2. t[i] = s[i - 1]
        BY <1>5, <4>1
      <4> QED
        BY <1>3, <4>1, <4>2 DEF Elements
    <3> QED
      BY <3>1, <3>2
  <2>2. ASSUME NEW i \in 1 .. Len(s) PROVE s[i] \in Elements(t)
    BY <1>3, <1>5 DEF Elements
  <2> QED
    BY <1>3, <1>4, <2>1, <2>2 DEF Elements
<1> QED
  BY <1>2, <1>3, <1>4, <1>5, <1>6 DEF t, one
=============================================================================

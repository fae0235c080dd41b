-------------------------- MODULE FiniteRecursion --------------------------
(***************************************************************************)
(* Induction and recursion over the natural numbers, as facts about sets   *)
(* and functions.  The library's induction theorems take the property to   *)
(* be proved as an operator; here it is the set of the numbers that have   *)
(* it, and a step of a recursion is a function of the place and of the     *)
(* value before it.  Nothing here is about DHorse: the proofs about the    *)
(* loops of its terminal (Parser.parse, innerWrite, Buffer.resize) use it. *)
(***************************************************************************)
EXTENDS Integers, WellFoundedInduction, TLAPS

\* The relation 'less than' on Nat has no infinite descent.
LEMMA NatIsWellFounded == IsWellFoundedOn({ss \in Nat \X Nat : ss[1] < ss[2]}, Nat)
  BY NatLessThanWellFounded, Zenon DEF OpToRel

\* A set of natural numbers that is not empty has a least element.
LEMMA LeastElement ==
  ASSUME NEW T \in SUBSET Nat, T # {}
  PROVE  \E m \in T : \A k \in T : m <= k
<1>. DEFINE R == {ss \in Nat \X Nat : ss[1] < ss[2]}
<1>1. IsWellFoundedOn(R, Nat)
  BY NatIsWellFounded
<1>. HIDE DEF R
<1>2. PICK m \in T : \A y \in T : <<y, m>> \notin R
  BY <1>1, WFMin
<1>3. \A a, b \in Nat : a < b => <<a, b>> \in R
  BY DEF R
<1>4. ASSUME NEW k \in T PROVE m <= k
  <2>1. ~ (k < m)
    BY <1>2, <1>3
  <2>. QED  BY <2>1
<1>. QED  BY <1>4

\* A set that has 0, and with every k below n also k + 1, has all of 0 .. n.
LEMMA InductionUpTo ==
  ASSUME NEW n \in Nat, NEW S, 0 \in S, \A k \in 0 .. n - 1 : k \in S => k + 1 \in S
  PROVE  \A k \in 0 .. n : k \in S
<1>. DEFINE T == {k \in 0 .. n : k \notin S}
<1>. SUFFICES ASSUME T # {} PROVE FALSE
  OBVIOUS
<1>1. PICK m \in T : \A k \in T : m <= k
  <2>1. T \in SUBSET Nat
    OBVIOUS
  <2>. QED  BY <2>1, LeastElement
<1>2. m - 1 \in 0 .. n - 1 /\ m - 1 < m
  BY <1>1
<1>3. m - 1 \in S
  BY <1>1, <1>2
<1>4. m - 1 + 1 \in S
  BY <1>2, <1>3
<1>. QED  BY <1>1, <1>4

\* A function that has b at 0, and F of the value before it everywhere else.
DefinesRecursion(n, D, b, F) ==
    \E f \in [0 .. n -> D] : f[0] = b /\ \A k \in 1 .. n : f[k] = F[<<k, f[k - 1]>>]

\* A value and a step define a function on 0 .. n.
LEMMA RecursionExists ==
  ASSUME NEW n \in Nat, NEW D, NEW b \in D, NEW F \in [(1 .. n) \X D -> D]
  PROVE  DefinesRecursion(n, D, b, F)
<1>. DEFINE Good(m) == \E f \in [0 .. m -> D] :
                         f[0] = b /\ \A k \in 1 .. m : f[k] = F[<<k, f[k - 1]>>]
            S == {m \in 0 .. n : Good(m)}
<1>1. 0 \in S
  <2>. DEFINE f == [k \in 0 .. 0 |-> b]
  <2>1. f \in [0 .. 0 -> D]
    OBVIOUS
  <2>2. f[0] = b /\ \A k \in 1 .. 0 : f[k] = F[<<k, f[k - 1]>>]
    OBVIOUS
  <2>3. Good(0)
    BY <2>1, <2>2
  <2>. QED  BY <2>3
<1>2. ASSUME NEW m \in 0 .. n - 1, m \in S PROVE m + 1 \in S
  <2>1. PICK f \in [0 .. m -> D] : f[0] = b /\ \A k \in 1 .. m : f[k] = F[<<k, f[k - 1]>>]
    BY <1>2
  <2>. DEFINE g == [k \in 0 .. m + 1 |-> IF k <= m THEN f[k] ELSE F[<<k, f[m]>>]]
  <2>2. f[m] \in D /\ m + 1 \in 1 .. n
    BY <2>1
  <2>3. F[<<m + 1, f[m]>>] \in D
    BY <2>2
  <2>4. g \in [0 .. m + 1 -> D]
    BY <2>1, <2>3
  <2>5. g[0] = b
    BY <2>1
  <2>6. ASSUME NEW k \in 1 .. m + 1 PROVE g[k] = F[<<k, g[k - 1]>>]
    <3>1. CASE k <= m
      BY <3>1, <2>1
    <3>2. CASE k = m + 1
      BY <3>2
    <3>. QED  BY <3>1, <3>2
  <2>7. Good(m + 1)
    BY <2>4, <2>5, <2>6
  <2>. HIDE DEF Good
  <2>. QED  BY <2>7
<1>. HIDE DEF S
<1>3. n \in S
  BY <1>1, <1>2, InductionUpTo
<1>. QED  BY <1>3 DEF S, DefinesRecursion

=============================================================================

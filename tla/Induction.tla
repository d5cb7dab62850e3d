----------------------------- MODULE Induction ------------------------------
(***************************************************************************)
(* Induction on the natural numbers for sets instead of predicates: what   *)
(* is to be shown for every n is that the set of the n it holds for is all *)
(* of Nat.  So stated it has no operator for a parameter, and the provers  *)
(* can use it.                                                             *)
(***************************************************************************)
EXTENDS Integers, WellFoundedInduction, TLAPS

(* A set of numbers that is not empty has a least element.                 *)
LEMMA LeastElement ==
    ASSUME NEW T \in SUBSET Nat, T # {}
    PROVE  \E m \in T : \A n \in T : m <= n
<1> DEFINE R == OpToRel(<, Nat)
<1>1. IsWellFoundedOn(R, Nat)
  BY NatLessThanWellFounded
<1>2. PICK m \in T : \A n \in T : ~(<<n, m>> \in R)
  <2> HIDE DEF R
  <2> QED BY <1>1, WFMin
<1>3. \A n \in T : ~(n < m)
  BY <1>2 DEF OpToRel
<1> HIDE DEF R
<1> QED BY <1>3

(* A set with 0 that has with a number below m the next one, too, has all  *)
(* the numbers up to m.                                                    *)
LEMMA UpTo ==
    ASSUME NEW m \in Nat, NEW S, 0 \in S, \A n \in 0..(m - 1) : n \in S => n + 1 \in S
    PROVE  \A n \in 0..m : n \in S
<1> DEFINE T == {n \in 0..m : n \notin S}
<1> SUFFICES ASSUME T # {} PROVE FALSE
  OBVIOUS
<1>1. PICK n \in T : \A k \in T : n <= k
  <2>1. T \in SUBSET Nat
    OBVIOUS
  <2> HIDE DEF T
  <2> QED BY <2>1, LeastElement
<1>2. n # 0 /\ n - 1 \in 0..(m - 1) /\ n - 1 \notin T
  BY <1>1
<1>3. n - 1 \in S
  BY <1>2
<1>4. (n - 1) + 1 \in S
  BY <1>2, <1>3
<1> QED BY <1>1, <1>4

(* A recursion on 0..m has a solution: what a loop of m rounds computes.   *)
Computes(g, m, V, base, Step) ==
    /\ g \in [0..m -> V]
    /\ g[0] = base
    /\ \A k \in 1..m : g[k] = Step[k][g[k - 1]]

LEMMA Recursion ==
    ASSUME NEW m \in Nat, NEW V, NEW base \in V, NEW Step, Step \in [1..m -> [V -> V]]
    PROVE  \E g : Computes(g, m, V, base, Step)
<1> USE DEF Computes
<1> DEFINE Solves(g, n) == Computes(g, n, V, base, Step)
           S == {n \in 0..m : \E g : Solves(g, n)}
<1>1. 0 \in S
  <2>1. Solves([k \in 0..0 |-> base], 0)
    OBVIOUS
  <2> HIDE DEF Solves
  <2> QED BY <2>1
<1>2. ASSUME NEW n \in 0..(m - 1), n \in S PROVE n + 1 \in S
  <2>1. PICK g : Solves(g, n)
    BY <1>2
  <2> DEFINE h == [k \in 0..(n + 1) |-> IF k = n + 1 THEN Step[n + 1][g[n]] ELSE g[k]]
  <2>2. Step[n + 1][g[n]] \in V
    <3>1. n + 1 \in 1..m /\ g[n] \in V
      BY <2>1
    <3> QED BY <3>1
  <2>3. h \in [0..(n + 1) -> V]
    <3>1. ASSUME NEW k \in 0..(n + 1) PROVE h[k] \in V
      <4>1. k # n + 1 => k \in 0..n
        OBVIOUS
      <4> QED BY <2>1, <2>2, <4>1
    <3> QED BY <3>1
  <2>4. Solves(h, n + 1)
    <3>1. h[0] = base
      BY <2>1
    <3>2. ASSUME NEW k \in 1..(n + 1) PROVE h[k] = Step[k][h[k - 1]]
      <4>1. CASE k = n + 1
        BY <4>1
      <4>2. CASE k # n + 1
        <5>1. k \in 1..n /\ k - 1 \in 0..n /\ h[k] = g[k] /\ h[k - 1] = g[k - 1]
          BY <4>2
        <5> QED BY <2>1, <5>1
      <4> QED BY <4>1, <4>2
    <3> QED BY <2>3, <3>1, <3>2
  <2>5. n + 1 \in 0..m
    OBVIOUS
  <2> HIDE DEF h, Solves
  <2> QED BY <2>3, <2>4, <2>5
<1>3. m \in S
  <2> HIDE DEF S
  <2>1. \A n \in 0..m : n \in S
    BY <1>1, <1>2, UpTo
  <2> QED BY <2>1
<1> QED BY <1>3
=============================================================================

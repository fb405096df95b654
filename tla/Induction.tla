----------------------------- MODULE Induction -----------------------------
(***************************************************************************)
(* Induction over the naturals and definitions by recursion, stated over   *)
(* sets so that they can be used without an operator as a parameter.       *)
(***************************************************************************)
EXTENDS Naturals, WellFoundedInduction, TLAPS

\* Every set of naturals that is not empty has a least element.
LEMMA LeastNumber ==
  ASSUME NEW T, T \subseteq Nat, T # {}
  PROVE  \E x \in T : \A y \in T : x <= y
<1>1. PICK x \in T : \A y \in T : ~(<<y, x>> \in OpToRel(<, Nat))
  BY NatLessThanWellFounded, WFMin, Zenon
<1>2. \A y \in T : ~(y < x)
  BY <1>1 DEF OpToRel
<1> QED
  BY <1>2

\* What holds of 0, and of k + 1 when it does of k, holds of every number.
LEMMA SetInduction ==
  ASSUME NEW P, 0 \in P, \A k \in Nat : k \in P => k + 1 \in P
  PROVE  Nat \subseteq P
<1> DEFINE T == {k \in Nat : k \notin P}
<1> SUFFICES ASSUME T # {} PROVE FALSE
  OBVIOUS
<1>1. PICK x \in T : \A y \in T : x <= y
  <2>1. T \subseteq Nat
    OBVIOUS
  <2> HIDE DEF T
  <2> QED
    BY <2>1, LeastNumber
<1>2. x \in Nat /\ x # 0
  OBVIOUS
<1>3. x - 1 \in Nat /\ x - 1 \notin T
  BY <1>1, <1>2
<1>4. x - 1 \in P
  BY <1>3
<1>5. (x - 1) + 1 \in P
  BY <1>3, <1>4
<1>6. (x - 1) + 1 = x
  BY <1>2
<1> QED
  BY <1>5, <1>6

\* g is defined from 0 to n by its first value and by what a step makes of the
\* value before and the number.
Recursion(g, n, X, first, step) ==
  /\ g \in [0..n -> X]
  /\ \A i \in 0..n : g[i] = IF i = 0 THEN first ELSE step[<<g[i - 1], i>>]

Steps(X) == [X \X Nat -> X]

LEMMA RecursionExists ==
  ASSUME NEW X, NEW first \in X, NEW step \in Steps(X), NEW n \in Nat
  PROVE  \E g : Recursion(g, n, X, first, step)
<1> DEFINE P == {m \in Nat : \E g : Recursion(g, m, X, first, step)}
<1>1. 0 \in P
  <2> DEFINE g == [i \in 0..0 |-> first]
  <2>1. g \in [0..0 -> X]
    OBVIOUS
  <2>2. \A i \in 0..0 : i = 0 /\ g[i] = first
    OBVIOUS
  <2> HIDE DEF g
  <2> QED
    BY <2>1, <2>2 DEF Recursion
<1>2. ASSUME NEW m \in Nat, m \in P PROVE m + 1 \in P
  <2>1. PICK g : Recursion(g, m, X, first, step)
    BY <1>2
  <2> DEFINE next == step[<<g[m], m + 1>>]
             h == [i \in 0..(m + 1) |-> IF i = m + 1 THEN next ELSE g[i]]
  <2>2. m \in 0..m /\ g[m] \in X /\ next \in X
    BY <2>1 DEF Steps, Recursion
  <2>3. h \in [0..(m + 1) -> X]
    BY <2>1, <2>2 DEF Recursion
  <2>4. ASSUME NEW i \in 0..(m + 1)
        PROVE  h[i] = IF i = 0 THEN first ELSE step[<<h[i - 1], i>>]
    <3>1. CASE i = m + 1
      <4>1. i # 0 /\ i - 1 = m /\ m \in 0..(m + 1) /\ m # m + 1
        BY <3>1
      <4>2. h[i - 1] = g[m]
        BY <4>1
      <4> QED
        BY <3>1, <4>1, <4>2
    <3>2. CASE i # m + 1
      <4>1. i \in 0..m /\ (i # 0 => i - 1 \in 0..(m + 1) /\ i - 1 # m + 1)
        BY <3>2
      <4>2. i # 0 => h[i - 1] = g[i - 1]
        BY <4>1
      <4> QED
        BY <2>1, <3>2, <4>1, <4>2 DEF Recursion
    <3> QED
      BY <3>1, <3>2
  <2> HIDE DEF h
  <2>5. Recursion(h, m + 1, X, first, step)
    BY <2>3, <2>4 DEF Recursion
  <2> QED
    BY <2>5
<1> HIDE DEF P
<1>3. n \in P
  BY <1>1, <1>2, SetInduction
<1> QED
  BY <1>3 DEF P
=============================================================================

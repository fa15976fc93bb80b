--------------------------- MODULE NaturalLemmas ---------------------------
(***************************************************************************)
(* Induction on the natural numbers in the form the provers can use.  The  *)
(* theorems of the library that have an operator as a parameter cannot be  *)
(* instantiated; those about well-founded relations have only constants,   *)
(* and give the least element of a set, induction over a set, and the      *)
(* existence of what a loop computes.                                      *)
(***************************************************************************)
EXTENDS Naturals, WellFoundedInduction, TLAPS

(* A set of natural numbers has a least element (well-foundedness of <    *)
(* stated without an operator as a parameter, so that the provers can use *)
(* it).                                                                   *)
LEMMA LeastNatural ==
  ASSUME NEW S, S \subseteq Nat, S # {}
  PROVE  \E n \in S : \A m \in S : n <= m
<1>1. PICK n \in S : \A m \in S : ~ (<<m, n>> \in OpToRel(<, Nat))
  BY WFMin, NatLessThanWellFounded, Zenon
<1>2. \A m \in S : ~ (m < n)
  BY <1>1 DEF OpToRel
<1>3. QED
  BY <1>2

(* Induction on the natural numbers, over a set in place of a predicate.  *)
LEMMA InductionBySet ==
  ASSUME NEW S, 0 \in S, \A k \in Nat : k \in S => k + 1 \in S
  PROVE  \A k \in Nat : k \in S
<1> SUFFICES ASSUME Nat \ S # {} PROVE FALSE
  OBVIOUS
<1>1. PICK n \in Nat \ S : \A m \in Nat \ S : n <= m
  BY LeastNatural
<1>2. n # 0 /\ n - 1 \in Nat
  BY <1>1
<1>3. n - 1 \in S
  BY <1>1, <1>2
<1>4. (n - 1) + 1 \in S
  BY <1>2, <1>3
<1>5. QED
  BY <1>1, <1>4

(* w[k] is what k steps from x0 lead to.                                   *)
Iterates(w, D, x0, step) == /\ w \in [Nat -> D] /\ w[0] = x0
                            /\ \A k \in Nat : w[k + 1] = step[w[k]]

(* A step taken again and again from x0: each k has one path of k steps,   *)
(* and the paths agree, so together they are a function.                   *)
LEMMA Iteration ==
  ASSUME NEW D, NEW x0 \in D, NEW step \in [D -> D]
  PROVE  \E w : Iterates(w, D, x0, step)
<1> DEFINE Path(g, k) == /\ g \in [0 .. k -> D] /\ g[0] = x0
                         /\ \A i \in 0 .. k - 1 : g[i + 1] = step[g[i]]
           Reached == {k \in Nat : \E g : Path(g, k)}
<1>1. \A k \in Nat : \E g : Path(g, k)
  <2>1. 0 \in Reached
    <3>1. Path([i \in 0 .. 0 |-> x0], 0)
      OBVIOUS
    <3>2. QED
      BY <3>1
  <2>2. ASSUME NEW k \in Nat, NEW g, Path(g, k)
        PROVE  \E gg : Path(gg, k + 1)
    <3> DEFINE gg == [i \in 0 .. k + 1 |-> IF i <= k THEN g[i] ELSE step[g[k]]]
    <3>1. \A i \in 0 .. k : gg[i] = g[i] /\ g[i] \in D
      BY <2>2
    <3>2. gg[k + 1] = step[g[k]] /\ step[g[k]] \in D
      BY <2>2
    <3>3. gg \in [0 .. k + 1 -> D]
      BY <3>1, <3>2
    <3> HIDE DEF gg
    <3>4. \A i \in 0 .. (k + 1) - 1 : gg[i + 1] = step[gg[i]]
      <4> SUFFICES ASSUME NEW i \in 0 .. (k + 1) - 1
                   PROVE  gg[i + 1] = step[gg[i]]
        OBVIOUS
      <4>1. CASE i = k
        BY <4>1, <3>1, <3>2
      <4>2. CASE i # k
        <5>1. i \in 0 .. k - 1 /\ i + 1 \in 0 .. k /\ i \in 0 .. k
          BY <4>2
        <5>2. QED
          BY <5>1, <3>1, <2>2
      <4>3. QED
        BY <4>1, <4>2
    <3>5. gg[0] = x0
      BY <3>1, <2>2
    <3>6. QED
      BY <3>3, <3>4, <3>5
  <2>3. \A k \in Nat : k \in Reached => k + 1 \in Reached
    BY <2>2
  <2> HIDE DEF Reached
  <2>4. \A k \in Nat : k \in Reached
    BY <2>1, <2>3, InductionBySet
  <2>5. QED
    BY <2>4 DEF Reached
<1>2. ASSUME NEW k \in Nat, NEW l \in Nat, k <= l, NEW g, NEW h, Path(g, k), Path(h, l)
      PROVE  \A i \in 0 .. k : g[i] = h[i]
  <2> DEFINE T == {i \in Nat : i <= k => g[i] = h[i]}
  <2>1. 0 \in T
    BY <1>2
  <2>2. \A i \in Nat : i \in T => i + 1 \in T
    <3> SUFFICES ASSUME NEW i \in Nat, i + 1 <= k, g[i] = h[i]
                 PROVE  g[i + 1] = h[i + 1]
      OBVIOUS
    <3>1. i \in 0 .. k - 1 /\ i \in 0 .. l - 1
      BY <1>2
    <3>2. QED
      BY <3>1, <1>2
  <2> HIDE DEF T
  <2>3. \A i \in Nat : i \in T
    BY <2>1, <2>2, InductionBySet
  <2>4. QED
    BY <2>3 DEF T
<1> DEFINE H(k) == CHOOSE g : Path(g, k)
           w == [k \in Nat |-> H(k)[k]]
<1>3. \A k \in Nat : Path(H(k), k)
  BY <1>1
<1> HIDE DEF H
<1>4. w \in [Nat -> D]
  <2> SUFFICES ASSUME NEW k \in Nat
               PROVE  H(k)[k] \in D
    OBVIOUS
  <2>1. k \in 0 .. k
    OBVIOUS
  <2>2. QED
    BY <2>1, <1>3
<1>5. w[0] = x0
  BY <1>3
<1>6. ASSUME NEW k \in Nat
      PROVE  w[k + 1] = step[w[k]]
  <2>1. Path(H(k), k) /\ Path(H(k + 1), k + 1) /\ k + 1 \in Nat /\ k <= k + 1
    BY <1>3
  <2>2. H(k)[k] = H(k + 1)[k]
    <3> HIDE DEF Path
    <3>1. \A i \in 0 .. k : H(k)[i] = H(k + 1)[i]
      BY <2>1, <1>2
    <3>2. k \in 0 .. k
      OBVIOUS
    <3>3. QED
      BY <3>1, <3>2
  <2>3. k \in 0 .. (k + 1) - 1
    OBVIOUS
  <2>4. H(k + 1)[k + 1] = step[H(k + 1)[k]]
    BY <2>1, <2>3
  <2>5. w[k] = H(k)[k] /\ w[k + 1] = H(k + 1)[k + 1]
    OBVIOUS
  <2>6. QED
    BY <2>2, <2>4, <2>5
<1> HIDE DEF w
<1>7. Iterates(w, D, x0, step)
  BY <1>4, <1>5, <1>6 DEF Iterates
<1>8. QED
  BY <1>7
=============================================================================
